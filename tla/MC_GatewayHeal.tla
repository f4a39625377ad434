---------------------------- MODULE MC_GatewayHeal ----------------------------
(* The bounds are given in the configuration: three lives of the gateway, so that a second new
   one can take the place of the first while it is being verified. *)
EXTENDS GatewayHeal
=============================================================================
