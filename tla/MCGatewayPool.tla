---------------------------- MODULE MCGatewayPool ----------------------------
(* Two requests, a background refresh and a saver of settings, for TLC.     *)
EXTENDS GatewayPool
=============================================================================
