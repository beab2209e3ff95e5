--------------------------- MODULE SerialDatabase ---------------------------
(***************************************************************************)
(* What the native API of package embedded promises its callers:           *)
(* "All operations on a Database are serialised through an internal mutex. *)
(* Multiple goroutines may share a Database safely; calls are executed     *)
(* one-at-a-time."  Every call is one atomic step here.  A Rows is the     *)
(* cursor, and while a cursor is open no other call takes effect.          *)
(*                                                                         *)
(*   effect[g]   what the engine did for the latest call of goroutine g    *)
(*   outcome[g]  what that goroutine was told                              *)
(***************************************************************************)
EXTENDS ErrorKinds

CONSTANTS Goroutines, Txs, Rowsets, None,
          MaxRows,    \* most rows one statement returns or changes
          ErrCodes    \* codes the engine fails with

VARIABLES open, status, cursor, effect, outcome

vars == <<open, status, cursor, effect, outcome>>

Init == /\ open = TRUE
        /\ status = [t \in Txs |-> "none"]
        /\ cursor = None
        /\ effect = [g \in Goroutines |-> [code |-> 0, n |-> 0]]
        /\ outcome = [g \in Goroutines |-> [err |-> "nil", n |-> 0]]

Did(g, code, n) == effect' = [effect EXCEPT ![g] = [code |-> code, n |-> n]]
Told(g, err, n) == outcome' = [outcome EXCEPT ![g] = [err |-> err, n |-> n]]

(* The call is turned away before the engine is entered: the database is   *)
(* closed, the Tx is finished, or there is nothing left to do.             *)
Reject(g) ==
  /\ cursor = None
  /\ \E err \in {"nil", "ErrClosed", "ErrTxDone", "ErrBind"} :
       /\ err = "ErrClosed" => ~open
       /\ err = "ErrTxDone" => \E t \in Txs : status[t] = "ended"
       /\ Told(g, err, 0)
  /\ UNCHANGED <<open, status, cursor, effect>>

(* The engine fails the call: the caller is told the kind of that failure. *)
Fail(g) ==
  /\ cursor = None
  /\ \E code \in ErrCodes : Did(g, code, 0) /\ Told(g, KindOf(code), 0)
  /\ UNCHANGED <<open, status, cursor>>

(* A statement runs to completion and its caller is told its own count.    *)
Exec(g) ==
  /\ cursor = None /\ open
  /\ \E n \in 0..MaxRows : Did(g, 0, n) /\ Told(g, "nil", n)
  /\ UNCHANGED <<open, status, cursor>>

(* A read of the catalog.                                                  *)
Catalog(g) ==
  /\ cursor = None /\ open
  /\ Told(g, "nil", 0)
  /\ UNCHANGED <<open, status, cursor, effect>>

Query(g) ==
  /\ cursor = None /\ open
  /\ cursor' \in Rowsets
  /\ Told(g, "nil", 0)
  /\ UNCHANGED <<open, status, effect>>

CursorEnd ==
  /\ cursor # None
  /\ cursor' = None
  /\ UNCHANGED <<open, status, effect, outcome>>

Begin(g) ==
  /\ cursor = None /\ open
  /\ \E t \in Txs : /\ status[t] = "none"
                    /\ status' = [status EXCEPT ![t] = "active"]
  /\ Told(g, "nil", 0)
  /\ UNCHANGED <<open, cursor, effect>>

(* Commit or Rollback: an open transaction ends once, whatever the engine  *)
(* answers, and never after the database was closed.                       *)
End(g) ==
  /\ cursor = None /\ open
  /\ \E t \in Txs : /\ status[t] = "active"
                    /\ status' = [status EXCEPT ![t] = "ended"]
  /\ \/ Told(g, "nil", 0) /\ UNCHANGED effect
     \/ \E code \in ErrCodes : Did(g, code, 0) /\ Told(g, KindOf(code), 0)
  /\ UNCHANGED <<open, cursor>>

Close(g) ==
  /\ cursor = None /\ open
  /\ \A t \in Txs : status[t] # "active"
  /\ open' = FALSE
  /\ Told(g, "nil", 0)
  /\ UNCHANGED <<status, cursor, effect>>

Next == \/ CursorEnd
        \/ \E g \in Goroutines : \/ Reject(g) \/ Fail(g) \/ Exec(g)
                                 \/ Catalog(g) \/ Query(g)
                                 \/ Begin(g) \/ End(g) \/ Close(g)

Spec == Init /\ [][Next]_vars
=============================================================================
