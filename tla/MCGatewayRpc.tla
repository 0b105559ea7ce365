---------------------------- MODULE MCGatewayRpc ----------------------------
(***************************************************************************)
(* GatewayRpc with a few callers; the sizes are in the cfg.                *)
(***************************************************************************)
EXTENDS GatewayRpc
=============================================================================
