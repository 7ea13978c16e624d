-------------------- MODULE MC_ModbusClientConnection -----------------------
(* Two owner polls so that one can fail while the other succeeds; two     *)
(* client blocks, each registering a poll of its own interval and         *)
(* writing: with the owner, three threads besides the connection's.      *)
EXTENDS ModbusClientConnection

CONSTANTS p1, p2, p3, p4, c1, c2

MCPollList == <<p1, p2>>
MCClients == {c1, c2}
MCClientInterval == (c1 :> p3) @@ (c2 :> p4)
MCMaxWrites == 2
=============================================================================
