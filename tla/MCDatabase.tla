----------------------------- MODULE MCDatabase -----------------------------
(* Database on small sets for TLC. *)
EXTENDS Database, TLC

CONSTANTS g1, g2, t1, r1

MCGoroutines == {g1, g2}
MCTxs == {t1}
MCRowsets == {r1}
MCErrCodes == {-4, -99}   \* a kind of its own and the catch-all
MCOneErrCode == {-4}
MCSymmetry == Permutations(MCGoroutines)
=============================================================================
