--------------------------- MODULE MCTxnIsolation ---------------------------
(* TxnIsolation on small sets for TLC.  The clients are interchangeable,   *)
(* and so are the flags: of the initial states that differ only in who is  *)
(* who, one is explored.                                                   *)
EXTENDS TxnIsolation

CONSTANTS c1, c2, c3, x, y, n

MCClients == {c1, c2, c3}
MCFlags == {x, y}
Levels == <<[api |-> "native", level |-> "serializable"],
            [api |-> "driver", level |-> "Serializable"],
            [api |-> "driver", level |-> "ReadCommitted"],
            [api |-> "driver", level |-> "Linearizable"]>>
MCAsked == {Levels[i] : i \in DOMAIN Levels}

Kind(c) == 3 * (CHOOSE i \in DOMAIN Levels : Levels[i] = asked[c])
           + (CASE role[c].item = x -> 0 [] role[c].item = y -> 1 [] OTHER -> 2)
Clearing(f) == Cardinality({c \in Clients : role[c].item = f})
InOrder == /\ Kind(c1) <= Kind(c2) /\ Kind(c2) <= Kind(c3)
           /\ Clearing(x) >= Clearing(y)

MCInit == Init /\ InOrder
MCFairSpec == MCInit /\ [][Next]_vars /\ Fairness
=============================================================================
