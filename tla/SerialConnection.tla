-------------------------- MODULE SerialConnection --------------------------
(***************************************************************************)
(* What a connection of the driver promises database/sql and its caller,   *)
(* without C statements, the contexts these keep and the cursors they      *)
(* share.  A statement is a text: whenever it runs, it runs in the         *)
(* transaction that is open at that moment.  A result set is a value: its  *)
(* rows come one by one, and after the last of them its end.  A Tx ends    *)
(* the transaction it began.                                               *)
(*                                                                         *)
(* One restriction remains, and callers have to know of it: a statement    *)
(* that is used again, or closed, takes the result sets it still has open  *)
(* with it.  Nothing is promised of a disturbed result set.                *)
(***************************************************************************)
EXTENDS Naturals

CONSTANTS Stmts, Txs, Rowsets,
          None,       \* no transaction
          MaxRows     \* most rows of a result set

VARIABLES
  open,   \* the connection has not been closed
  txn,    \* the transaction that is open, or None
  fate,   \* what became of each transaction
  state,  \* the statements: "unborn", "open" or "closed"
  sets,   \* the result sets
  told,   \* whether the latest call failed
  ran     \* the transaction that the latest call has run a statement in

vars == <<open, txn, fate, state, sets, told, ran>>
-----------------------------------------------------------------------------
ResultSet(st, s, size, got, end) ==
  [st |-> st, of |-> s, size |-> size, got |-> got, end |-> end]
Unopened == ResultSet("unborn", None, 0, 0, "no")
Disturbed(s) == ResultSet("disturbed", s, 0, 0, "no")

Init ==
  /\ open = TRUE /\ txn = None
  /\ fate = [t \in Txs |-> "none"]
  /\ state = [s \in Stmts |-> "unborn"]
  /\ sets = [r \in Rowsets |-> Unopened]
  /\ told = "nil" /\ ran = None

Tells(err) == told' = err /\ ran' = None
Ran == told' = "nil" /\ ran' = txn
InUse(r) == sets[r].st \in {"open", "disturbed"}
SetsOf(s) == {r \in Rowsets : InUse(r) /\ sets[r].of = s}
Used(s) == [r \in Rowsets |-> IF r \in SetsOf(s) THEN Disturbed(s) ELSE sets[r]]

(* A call that is turned away.                                             *)
Reject ==
  /\ Tells("error")
  /\ UNCHANGED <<open, txn, fate, state, sets>>

Prepare(s) ==
  /\ open /\ state[s] = "unborn"
  /\ state' = [state EXCEPT ![s] = "open"]
  /\ Tells("nil")
  /\ UNCHANGED <<open, txn, fate, sets>>

(* A statement fails, before it runs or as it does.                        *)
Fail(s) ==
  /\ state[s] = "open"
  /\ sets' = Used(s)
  /\ Tells("error")
  /\ UNCHANGED <<open, txn, fate, state>>

Exec(s) ==
  /\ state[s] = "open"
  /\ sets' = Used(s)
  /\ Ran
  /\ UNCHANGED <<open, txn, fate, state>>

Query(s, r) ==
  /\ state[s] = "open" /\ sets[r].st = "unborn"
  /\ \E k \in 0..MaxRows :
       sets' = [Used(s) EXCEPT ![r] = IF SetsOf(s) = {} THEN ResultSet("open", s, k, 0, "no")
                                                        ELSE Disturbed(s)]
  /\ Ran
  /\ UNCHANGED <<open, txn, fate, state>>

StmtClose(s) ==
  /\ state[s] = "open"
  /\ state' = [state EXCEPT ![s] = "closed"]
  /\ sets' = Used(s)
  /\ Tells("nil")
  /\ UNCHANGED <<open, txn, fate>>

(* The next row of a result set, its end after the last row, or an error.  *)
RowsNext(r) ==
  /\ \/ /\ sets[r].st = "open" /\ sets[r].end = "no"
        /\ \/ /\ sets[r].got < sets[r].size
              /\ sets' = [sets EXCEPT ![r].got = @ + 1]
           \/ /\ sets[r].got = sets[r].size
              /\ sets' = [sets EXCEPT ![r].end = "eof"]
           \/ sets' = [sets EXCEPT ![r].end = "err"]
     \/ sets[r].st = "disturbed" /\ UNCHANGED sets
  /\ Tells("nil")
  /\ UNCHANGED <<open, txn, fate, state>>

RowsClose(r) ==
  /\ InUse(r)
  /\ sets' = [sets EXCEPT ![r] = ResultSet("closed", None, 0, 0, "no")]
  /\ Tells("nil")
  /\ UNCHANGED <<open, txn, fate, state>>

Begin(t) ==
  /\ open /\ txn = None /\ fate[t] = "none"
  /\ txn' = t
  /\ fate' = [fate EXCEPT ![t] = "active"]
  /\ Tells("nil")
  /\ UNCHANGED <<open, state, sets>>

(* The transaction is gone after its Commit or Rollback, also a failed one.*)
End(t, how) ==
  /\ txn = t
  /\ txn' = None
  /\ \/ fate' = [fate EXCEPT ![t] = how] /\ Tells("nil")
     \/ fate' = [fate EXCEPT ![t] = "failed"] /\ Tells("error")
  /\ UNCHANGED <<open, state, sets>>

Close ==
  /\ \A s \in Stmts : state[s] # "open"
  /\ \A r \in Rowsets : ~InUse(r)
  /\ open' = FALSE
  /\ txn' = None
  /\ fate' = [t \in Txs |-> IF t = txn THEN "rolledback" ELSE fate[t]]
  /\ Tells("nil")
  /\ UNCHANGED <<state, sets>>

Next ==
  \/ Reject
  \/ \E s \in Stmts : Prepare(s) \/ Fail(s) \/ Exec(s) \/ StmtClose(s)
  \/ \E s \in Stmts, r \in Rowsets : Query(s, r)
  \/ \E r \in Rowsets : RowsNext(r) \/ RowsClose(r)
  \/ \E t \in Txs : Begin(t) \/ End(t, "committed") \/ End(t, "rolledback")
  \/ Close

Spec == Init /\ [][Next]_vars
=============================================================================
