-------------------------- MODULE MCGatewayService --------------------------
EXTENDS GatewayService

Cfg(e, p) == [enabled |-> e, port |-> p]
(* Nothing configured, or two gateways of which one has its websocket on.       *)
SomeConfigs == {{}, {[uid |-> "a", cfg |-> Cfg(TRUE, 1)], [uid |-> "b", cfg |-> Cfg(FALSE, 1)]}}

=============================================================================
