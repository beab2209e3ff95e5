--------------------------- MODULE MCDevListeners ---------------------------
(* DevListeners on small sets for TLC. *)
EXTENDS DevListeners

CONSTANTS g1, g2, r1, s1

MCGoroutines == {g1, g2}
MCTxs == {}
MCRowsets == {r1}
MCProtocols == {"pgwire", "mysqlwire"}
MCSessions == {s1}
MCErrCodes == {-4}
=============================================================================
