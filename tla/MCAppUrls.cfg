SPECIFICATION Spec
CONSTANTS
  blog = blog
  shop = shop
  Apps = {blog, shop}
  Users = {"ann", "bob"}
  Ports = {1, 2}
  domain = domain
  Custom = domain
  Nobody = "nobody"
  Cmds = {"c1", "c2"}
  MaxCommands = 3
  MaxFaults = 1
INVARIANTS RoutesFollowFiles ReachedAsAsked
SYMMETRY Symmetry
CONSTRAINT Bounds
CHECK_DEADLOCK FALSE
