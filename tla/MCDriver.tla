------------------------------ MODULE MCDriver ------------------------------
(* Driver on small sets for TLC. *)
EXTENDS Driver, TLC

CONSTANTS s1, s2, t1, t2, r1, r2, h1, h2, h3

MCStmts == {s1, s2}
MCOneStmt == {s1}
MCTxs == {t1, t2}
MCOneTx == {t1}
MCRowsets == {r1, r2}
MCOneRowset == {r1}
MCHandles == {h1, h2, h3}
MCTwoHandles == {h1, h2}
MCSymmetry == Permutations(MCStmts) \cup Permutations(MCTxs)
              \cup Permutations(MCRowsets) \cup Permutations(MCHandles)
=============================================================================
