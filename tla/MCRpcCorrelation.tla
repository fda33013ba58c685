-------------------------- MODULE MCRpcCorrelation --------------------------
(* Bounded instances of RpcCorrelation for TLC.                            *)
EXTENDS RpcCorrelation

CONSTANTS user, replay, ping    \* a public operation, an SDK request, a ping

MCCalls    == {user, replay, ping}
MCInternal == {replay}
MCPings    == {ping}
=============================================================================
