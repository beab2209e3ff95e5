------------------------- MODULE DatabaseRefinement -------------------------
(***************************************************************************)
(* Database implements SerialDatabase: seen through Serial's mapping, each *)
(* of its steps is one step of the one-at-a-time API or changes nothing.   *)
(***************************************************************************)
EXTENDS DatabaseProofs

(* The abstract state that the calls of all goroutines share.              *)
Cursor == IF mu \in Rowsets THEN mu ELSE None
Answers == [g \in Goroutines |-> Outcome(g)]
abstract == <<handle = "open", txn, Cursor, truth, Answers>>

(* Both modules read the same table of error kinds.                        *)
LEMMA SameKinds == \A code : Serial!KindOf(code) = KindOf(code)
BY DEF KindOf, KindTable, Serial!KindOf, Serial!KindTable

(* What only the other goroutines were told does not change.               *)
LEMMA OthersTold ==
  ASSUME IInv, NEW g \in Goroutines, pc[g] \in Inside \/ pc[g] \in OnRows,
         NEW next \in PCs, GoTo(g, next),
         \A h \in Goroutines : h # g => result'[h] = result[h]
  PROVE  \A h \in Goroutines : h # g => Outcome(h)' = Outcome(h)
<1>1. ASSUME NEW h \in Goroutines, h # g
      PROVE  pc'[h] = pc[h] /\ pc[h] \notin {"changes", "errcode"}
  BY <1>1, AloneInside DEF IInv, TypeOK, GoTo, Inside, PCs
<1> QED BY <1>1 DEF Outcome

(* An inside step that tells g nothing new and leaves the rest alone.      *)
LEMMA Silent ==
  ASSUME IInv, NEW g \in Goroutines, pc[g] \in Inside \/ pc[g] \in OnRows,
         NEW next \in PCs, GoTo(g, next),
         \A h \in Goroutines : h # g => result'[h] = result[h],
         Outcome(g)' = Outcome(g)
  PROVE  Answers' = Answers
BY OthersTold DEF Answers

(* An inside step that tells g something.                                  *)
LEMMA Tells ==
  ASSUME IInv, NEW g \in Goroutines, pc[g] \in Inside \/ pc[g] \in OnRows,
         NEW next \in PCs, GoTo(g, next),
         \A h \in Goroutines : h # g => result'[h] = result[h],
         NEW err, NEW n, Outcome(g)' = [err |-> err, n |-> n]
  PROVE  Serial!Told(g, err, n)
<1>1. Answers' = [Answers EXCEPT ![g] = [err |-> err, n |-> n]]
  BY OthersTold DEF Answers
<1> QED BY <1>1 DEF Serial!Told, Answers

-----------------------------------------------------------------------------
(* The calls and steps that happen before or after the mutex is held.      *)
LEMMA CallStutters ==
  ASSUME IInv, NEW g \in Goroutines, NEW c \in Calls, Call(g, c)
  PROVE  UNCHANGED abstract
<1>1. \A h \in Goroutines : Outcome(h)' = Outcome(h)
  BY DEF IInv, TypeOK, Call, GoTo, Outcome, session
<1> QED BY <1>1 DEF Call, objects, abstract, Answers, Cursor

LEMMA RowsCallStutters ==
  ASSUME IInv, NEW g \in Goroutines, NEW r \in Rowsets, RowsNext(g, r) \/ RowsClose(g, r)
  PROVE  UNCHANGED abstract
<1>1. \A h \in Goroutines : Outcome(h)' = Outcome(h)
  BY DEF IInv, TypeOK, RowsNext, RowsClose, UseRows, GoTo, Outcome, session
<1> QED BY <1>1 DEF RowsNext, RowsClose, UseRows, objects, abstract, Answers, Cursor

(* A refused call is told so and does nothing else; another one waits.     *)
LEMMA EntryRefines ==
  ASSUME IInv, NEW g \in Goroutines, EnterCall(g)
  PROVE  UNCHANGED abstract \/ Serial!Reject(g)
<1>1. /\ pc[g] = "lock" /\ mu = None
      /\ UNCHANGED <<handle, txn, truth>>
      /\ \A h \in Goroutines : h # g => pc'[h] = pc[h] /\ pc[h] \notin Inside
  BY Entry, Distinct DEF IInv, Ownership
<1>2. \A h \in Goroutines : pc[h] \notin {"changes", "errcode"}
                            /\ pc'[h] \notin {"changes", "errcode"}
  <2>1. pc'[g] \in {"idle", "prepare", "begin", "commit", "rollback", "close", "catalog"}
    BY Entry DEF IInv
  <2> QED BY <1>1, <2>1 DEF Inside, PCs
<1>3. \A h \in Goroutines : Outcome(h) = result[h] /\ Outcome(h)' = result'[h]
  BY <1>2 DEF Outcome
<1>4. CASE \E next \in PCs : Enter(g, next)
  <2>1. mu' = g /\ result' = result
    BY <1>4 DEF Enter
  <2>2. Cursor = None /\ Cursor' = None
    BY <1>1, <2>1, Distinct DEF Cursor
  <2> QED BY <1>1, <1>3, <2>1, <2>2 DEF abstract, Answers
<1>5. ASSUME NEW err \in {"nil", "ErrClosed", "ErrTxDone"}, Refuse(g, err),
             err = "ErrClosed" => handle # "open",
             err = "ErrTxDone" => \E t \in Txs : txn[t] = "ended"
      PROVE  Serial!Reject(g)
  <2>1. mu' = mu /\ result' = [result EXCEPT ![g] = [err |-> err, n |-> 0]]
    BY <1>5 DEF Refuse, Returns
  <2>2. Cursor = None /\ Cursor' = None
    BY <1>1, <2>1, Distinct DEF Cursor
  <2>3. Answers' = [Answers EXCEPT ![g] = [err |-> err, n |-> 0]]
    BY <1>3, <2>1 DEF Answers, IInv, TypeOK
  <2>4. Serial!Told(g, err, 0)
    BY <2>3 DEF Serial!Told, Answers
  <2> QED BY <1>1, <1>5, <2>2, <2>4 DEF Serial!Reject, Cursor
<1>6. ASSUME NEW t \in Txs, done[t]
      PROVE  txn[t] = "ended"
  BY <1>1, <1>6, Distinct DEF IInv, EndPending, Ownership, Inside, PCs
<1>7. call[g].ctx \in Txs \cup {Autocommit} /\ call[g].kind \in {"commit", "rollback"} =>
        call[g].ctx \in Txs
  BY CallFields DEF IInv, TypeOK
<1>8. call[g].ctx \in Txs \cup {Autocommit}
  BY CallFields DEF IInv, TypeOK, Contexts
<1>9. \/ \E next \in PCs : Enter(g, next)
      \/ \E err \in {"nil", "ErrClosed", "ErrTxDone"} :
           /\ Refuse(g, err)
           /\ err = "ErrClosed" => handle # "open"
           /\ err = "ErrTxDone" => call[g].ctx \in Txs /\ done[call[g].ctx]
  <2>1. CASE DatabaseExec(g) \/ DatabaseQuery(g) \/ BeginWithIsolation(g) \/ ListTables(g)
    BY <2>1 DEF DatabaseExec, DatabaseQuery, BeginWithIsolation, ListTables, IfOpen, PCs
  <2>2. CASE TxExec(g) \/ TxQuery(g)
    BY <1>8, <2>2 DEF TxExec, TxQuery, IfLive, IfOpen, PCs
  <2>3. CASE DatabaseClose(g)
    BY <2>3 DEF DatabaseClose, PCs
  <2>4. CASE Commit(g) \/ Rollback(g)
    BY <1>7, <1>8, <2>4 DEF Commit, Rollback, Acquire, PCs
  <2> QED BY <2>1, <2>2, <2>3, <2>4 DEF EnterCall
<1> QED BY <1>4, <1>5, <1>6, <1>9
-----------------------------------------------------------------------------
(* The steps inside the C library.                                         *)
LEMMA FailRefines ==
  ASSUME IInv, NEW g \in Goroutines, pc[g] \in Inside,
         NEW next \in PCs, GoTo(g, next),
         NEW code \in ErrCodes, Faults(g, code), UNCHANGED <<mu, handle, txn>>,
         \/ next = "errcode" /\ result' = result
         \/ next = "return" /\ Returns(g, KindOf(code), 0)
  PROVE  Serial!Fail(g)
<1>1. mu = g /\ g \notin Rowsets
  BY Distinct DEF IInv, Ownership
<1>2. \A h \in Goroutines : h # g => result'[h] = result[h]
  BY DEF IInv, TypeOK, Returns
<1>3. Outcome(g)' = [err |-> KindOf(code), n |-> 0]
  BY DEF IInv, TypeOK, GoTo, Outcome, Faults, Returns
<1>4. Serial!Told(g, KindOf(code), 0)
  BY <1>2, <1>3, Tells
<1>5. Serial!Did(g, code, 0)
  BY DEF Serial!Did, Faults, Did
<1> QED BY <1>1, <1>4, <1>5, SameKinds DEF Serial!Fail

(* A call that ends inside with an answer of its own.                      *)
LEMMA AnswerTold ==
  ASSUME IInv, NEW g \in Goroutines, pc[g] \in Inside, GoTo(g, "return"),
         NEW err, NEW n, Returns(g, err, n)
  PROVE  Serial!Told(g, err, n)
<1>1. \A h \in Goroutines : h # g => result'[h] = result[h]
  BY DEF IInv, TypeOK, Returns
<1>2. Outcome(g)' = [err |-> err, n |-> n]
  BY DEF IInv, TypeOK, GoTo, Outcome, Returns
<1> QED BY <1>1, <1>2, Tells DEF PCs

LEMMA StatementRefines ==
  ASSUME IInv, NEW g \in Goroutines,
         PrepareLocked(g) \/ BindFails(g) \/ BindExec(g) \/ StepRow(g)
         \/ StepDone(g) \/ StepFails(g) \/ ReadChanges(g) \/ ReadErrcode(g)
  PROVE  UNCHANGED abstract \/ Serial!Next
<1> USE DEF objects, session
<1>1. /\ pc[g] \in Inside /\ mu = g /\ mu' = g /\ g \notin Rowsets
      /\ UNCHANGED <<handle, txn>>
  BY Distinct DEF IInv, Ownership, PrepareLocked, BindFails, BindExec, StepRow,
       StepDone, StepFails, ReadChanges, ReadErrcode, Inside, PCs
<1>2. Cursor = None /\ Cursor' = None
  BY <1>1 DEF Cursor
<1>3. CASE PrepareLocked(g)
  <2>1. CASE GoTo(g, "bind") /\ UNCHANGED <<errcode, truth>>
    <3>1. Outcome(g)' = Outcome(g)
      BY <1>3, <2>1 DEF IInv, TypeOK, PrepareLocked, GoTo, Outcome
    <3>2. Answers' = Answers
      BY <1>1, <1>3, <2>1, <3>1, Silent DEF PrepareLocked, PCs
    <3> QED BY <1>1, <1>2, <2>1, <3>2 DEF abstract
  <2>2. ASSUME NEW code \in ErrCodes, Faults(g, code), GoTo(g, "errcode")
        PROVE  Serial!Fail(g)
    BY <1>1, <1>3, <2>2, FailRefines DEF PrepareLocked, PCs
  <2> QED BY <1>3, <2>1, <2>2 DEF PrepareLocked, Serial!Next
<1>4. CASE BindFails(g)
  <2>1. CASE Returns(g, "ErrBind", 0) /\ UNCHANGED <<errcode, truth>>
    <3>1. Serial!Told(g, "ErrBind", 0)
      BY <1>1, <1>4, <2>1, AnswerTold DEF BindFails
    <3>2. Serial!Reject(g)
      BY <1>1, <2>1, <3>1 DEF Serial!Reject
    <3> QED BY <3>2 DEF Serial!Next
  <2>2. ASSUME NEW code \in ErrCodes, Faults(g, code), Returns(g, KindOf(code), 0)
        PROVE  Serial!Fail(g)
    BY <1>1, <1>4, <2>2, FailRefines DEF BindFails, PCs
  <2> QED BY <1>4, <2>1, <2>2 DEF BindFails, Serial!Next
<1>5. CASE BindExec(g) \/ StepRow(g)
  <2>1. \A h \in Goroutines : Outcome(h)' = Outcome(h)
    BY <1>5 DEF IInv, TypeOK, BindExec, StepRow, GoTo, Outcome
  <2> QED BY <1>1, <1>2, <1>5, <2>1 DEF abstract, Answers, BindExec, StepRow
<1>6. CASE StepDone(g)
  <2>1. Outcome(g)' = [err |-> "nil", n |-> changes']
    BY <1>6 DEF IInv, TypeOK, StepDone, GoTo, Outcome
  <2>2. Serial!Told(g, "nil", changes')
    BY <1>1, <1>6, <2>1, Tells DEF StepDone, PCs
  <2>3. handle = "open"
    BY <1>6 DEF IInv, StatementShape, StepDone, Owners
  <2>4. Serial!Exec(g)
    BY <1>1, <1>6, <2>2, <2>3 DEF StepDone, Serial!Exec, Serial!Did, Did
  <2> QED BY <2>4 DEF Serial!Next
<1>7. CASE StepFails(g)
  <2>1. PICK code \in ErrCodes : Faults(g, code) /\ Returns(g, KindOf(code), 0)
    BY <1>7 DEF StepFails
  <2>2. Serial!Fail(g)
    BY <1>1, <1>7, <2>1, FailRefines DEF StepFails, PCs
  <2> QED BY <2>2 DEF Serial!Next
<1>8. CASE ReadChanges(g) \/ ReadErrcode(g)
  <2>1. Outcome(g)' = Outcome(g)
    BY <1>8 DEF IInv, TypeOK, ReadChanges, ReadErrcode, Returns, GoTo, Outcome
  <2>2. \A h \in Goroutines : h # g => result'[h] = result[h]
    BY <1>8 DEF IInv, TypeOK, ReadChanges, ReadErrcode, Returns
  <2>3. Answers' = Answers
    BY <1>1, <1>8, <2>1, <2>2, Silent DEF ReadChanges, ReadErrcode, PCs
  <2> QED BY <1>1, <1>2, <1>8, <2>3 DEF abstract, ReadChanges, ReadErrcode
<1> QED BY <1>3, <1>4, <1>5, <1>6, <1>7, <1>8

LEMMA OneCallRefines ==
  ASSUME IInv, CloseDiscipline, NEW g \in Goroutines,
         BeginTxn(g) \/ CommitTxn(g) \/ RollbackTxn(g) \/ CloseHandle(g) \/ ReadCatalog(g)
  PROVE  Serial!Next
<1> USE DEF objects, session
<1>1. pc[g] \in Inside /\ mu = g /\ mu' = g /\ g \notin Rowsets
  BY Distinct DEF IInv, Ownership, BeginTxn, CommitTxn, RollbackTxn, EndTxn,
       CloseHandle, ReadCatalog, Inside, PCs
<1>2. handle = "open"
  BY CallFields DEF IInv, TypeOK, TxShape, CloseShape, CallShape, BeginTxn, CommitTxn,
       RollbackTxn, EndTxn, CloseHandle, ReadCatalog
<1>3. CASE BeginTxn(g)
  <2>1. CASE /\ txn' = [txn EXCEPT ![call[g].obj] = "active"]
             /\ Returns(g, "nil", 0) /\ GoTo(g, "return") /\ UNCHANGED <<errcode, truth>>
    <3>1. Serial!Told(g, "nil", 0)
      BY <1>1, <2>1, AnswerTold
    <3>2. call[g].obj \in Txs /\ txn[call[g].obj] = "none"
      BY <1>3, CallFields DEF IInv, TypeOK, CallShape, BeginTxn
    <3>3. Serial!Begin(g)
      BY <1>1, <1>2, <1>3, <2>1, <3>1, <3>2 DEF Serial!Begin, BeginTxn
    <3> QED BY <3>3 DEF Serial!Next
  <2>2. ASSUME NEW code \in ErrCodes, Faults(g, code), GoTo(g, "errcode"),
               UNCHANGED <<txn, result>>
        PROVE  Serial!Fail(g)
    BY <1>1, <1>3, <2>2, FailRefines DEF BeginTxn, PCs
  <2> QED BY <1>3, <2>1, <2>2 DEF BeginTxn, Serial!Next
<1>4. CASE CommitTxn(g) \/ RollbackTxn(g)
  <2>1. PICK kind \in {"commit", "rollback"} : EndTxn(g, kind)
    BY <1>4 DEF CommitTxn, RollbackTxn
  <2>2. call[g].ctx \in Txs /\ txn[call[g].ctx] = "active"
    BY <2>1, CallFields DEF IInv, TypeOK, CallShape, TxShape, EndTxn
  <2>3. CASE Returns(g, "nil", 0) /\ UNCHANGED <<errcode, truth>>
    <3>1. Serial!Told(g, "nil", 0)
      BY <1>1, <2>1, <2>3, AnswerTold DEF EndTxn
    <3>2. Serial!End(g)
      BY <1>1, <1>2, <2>1, <2>2, <2>3, <3>1 DEF Serial!End, EndTxn
    <3> QED BY <3>2 DEF Serial!Next
  <2>4. ASSUME NEW code \in ErrCodes, Faults(g, code), Returns(g, KindOf(code), 0)
        PROVE  Serial!End(g)
    <3>1. Serial!Told(g, KindOf(code), 0)
      BY <1>1, <2>1, <2>4, AnswerTold DEF EndTxn
    <3>2. Serial!Did(g, code, 0)
      BY <2>4 DEF Serial!Did, Faults, Did
    <3> QED BY <1>1, <1>2, <2>1, <2>2, <3>1, <3>2, SameKinds DEF Serial!End, EndTxn
  <2> QED BY <2>1, <2>3, <2>4 DEF EndTxn, Serial!Next
<1>5. CASE CloseHandle(g)
  <2>1. Serial!Told(g, "nil", 0)
    BY <1>1, <1>5, AnswerTold DEF CloseHandle
  <2>2. \A t \in Txs : txn[t] # "active"
    BY <1>5 DEF IInv, CallShape, CloseShape, CloseHandle
  <2>3. Serial!Close(g)
    BY <1>1, <1>2, <1>5, <2>1, <2>2 DEF Serial!Close, CloseHandle
  <2> QED BY <2>3 DEF Serial!Next
<1>6. CASE ReadCatalog(g)
  <2>1. CASE Returns(g, "nil", 0) /\ UNCHANGED <<errcode, truth>>
    <3>1. Serial!Told(g, "nil", 0)
      BY <1>1, <1>6, <2>1, AnswerTold DEF ReadCatalog
    <3>2. Serial!Catalog(g)
      BY <1>1, <1>2, <1>6, <2>1, <3>1 DEF Serial!Catalog, ReadCatalog
    <3> QED BY <3>2 DEF Serial!Next
  <2>2. ASSUME NEW code \in ErrCodes, Faults(g, code), Returns(g, KindOf(code), 0)
        PROVE  Serial!Fail(g)
    BY <1>1, <1>6, <2>2, FailRefines DEF ReadCatalog, PCs
  <2> QED BY <1>6, <2>1, <2>2 DEF ReadCatalog, Serial!Next
<1> QED BY <1>3, <1>4, <1>5, <1>6
-----------------------------------------------------------------------------
(* Query opens the cursor, Rows.Close ends it, and the rest of Rows and    *)
(* the unlock of a finished call change nothing that a caller can tell.    *)
LEMMA QueryRefines ==
  ASSUME IInv, NEW g \in Goroutines, BindQuery(g)
  PROVE  Serial!Query(g)
<1>1. /\ pc[g] \in Inside /\ mu = g /\ g \notin Rowsets
      /\ handle = "open" /\ call[g].obj \in Rowsets
  BY Distinct, CallFields
     DEF IInv, TypeOK, Ownership, TxShape, BindQuery, Inside, PCs
<1>2. \A h \in Goroutines : h # g => result'[h] = result[h]
  BY DEF IInv, TypeOK, BindQuery, Returns
<1>3. Outcome(g)' = [err |-> "nil", n |-> 0]
  BY DEF IInv, TypeOK, BindQuery, Returns, Leave, GoTo, Outcome
<1>4. Serial!Told(g, "nil", 0)
  BY <1>1, <1>2, <1>3, Tells DEF BindQuery, Leave, PCs
<1> QED BY <1>1, <1>4 DEF Serial!Query, BindQuery

LEMMA ReturnStutters ==
  ASSUME IInv, NEW g \in Goroutines, Return(g)
  PROVE  UNCHANGED abstract
<1>1. pc[g] \in Inside /\ mu = g /\ g \notin Rowsets
  BY Distinct DEF IInv, Ownership, Return, Inside, PCs
<1>2. Cursor = None /\ Cursor' = None
  BY <1>1, Distinct DEF Cursor, Return
<1>3. \A h \in Goroutines : Outcome(h)' = Outcome(h)
  BY DEF IInv, TypeOK, Return, Leave, GoTo, Outcome, session
<1> QED BY <1>2, <1>3 DEF abstract, Answers, Return, objects

LEMMA IterationRefines ==
  ASSUME IInv, NEW g \in Goroutines,
         NextRow(g) \/ NextDone(g) \/ NextFails(g) \/ RowsFinalize(g) \/ RowsUnlock(g)
  PROVE  UNCHANGED abstract \/ Serial!Next
<1>1. /\ pc[g] \in OnRows /\ UNCHANGED <<handle, txn, truth, result>>
      /\ pc[g] \notin {"changes", "errcode"}
  BY DEF NextRow, NextDone, NextFails, RowsFinalize, RowsUnlock, OnRows, objects
<1>2. \E next \in {"idle", "rfinal", "runlock"} : GoTo(g, next)
  BY DEF NextRow, NextDone, NextFails, RowsFinalize, RowsUnlock, Leave
<1>3. Outcome(g)' = Outcome(g)
  BY <1>1, <1>2 DEF IInv, TypeOK, GoTo, Outcome
<1>4. Answers' = Answers
  BY <1>1, <1>2, <1>3, Silent DEF PCs
<1>5. mu \in Rowsets /\ mu # None
  BY <1>1, Distinct DEF IInv, Ownership
<1>6. CASE RowsUnlock(g)
  <2>1. Serial!CursorEnd
    BY <1>1, <1>4, <1>5, <1>6, Distinct DEF Serial!CursorEnd, RowsUnlock, Answers
  <2> QED BY <2>1 DEF Serial!Next
<1>7. CASE NextRow(g) \/ NextDone(g) \/ NextFails(g) \/ RowsFinalize(g)
  <2>1. mu' = mu
    BY <1>7 DEF NextRow, NextDone, NextFails, RowsFinalize
  <2> QED BY <1>1, <1>4, <2>1 DEF abstract, Cursor
<1> QED BY <1>6, <1>7
-----------------------------------------------------------------------------
(* README, "Concurrency": a *Database may be shared by goroutines, and its *)
(* operations serialise.  If no Close overlaps an open Tx, Database is an  *)
(* implementation of the API in which every call is one step.              *)
THEOREM Serialised ==
  ASSUME CloseDiscipline
  PROVE  Spec => SerialSpec
<1>1. Init => Serial!Init
  BY Distinct DEF Init, Serial!Init, Outcome
<1>2. IInv /\ [Next]_vars => [Serial!Next]_(Serial!vars)
  <2> SUFFICES ASSUME IInv, [Next]_vars
               PROVE  [Serial!Next]_(Serial!vars)
    OBVIOUS
  <2>1. UNCHANGED abstract \/ Serial!Next
    <3>1. ASSUME NEW g \in Goroutines, EnterCall(g)
          PROVE  UNCHANGED abstract \/ Serial!Next
      BY <3>1, EntryRefines DEF Serial!Next
    <3>2. ASSUME NEW g \in Goroutines, Proceed(g)
          PROVE  UNCHANGED abstract \/ Serial!Next
      BY <3>2, StatementRefines, OneCallRefines, QueryRefines, ReturnStutters,
         IterationRefines DEF Proceed, Serial!Next
    <3>3. CASE UNCHANGED vars
      BY <3>3 DEF vars, abstract, Cursor, Answers, Outcome
    <3> QED BY <3>1, <3>2, <3>3, CallStutters, RowsCallStutters DEF Next
  <2>2. UNCHANGED abstract => UNCHANGED Serial!vars
    BY DEF abstract, Cursor, Answers, Serial!vars
  <2> QED BY <2>1, <2>2
<1> QED BY <1>1, <1>2, Invariance, PTL DEF Spec, SerialSpec, Serial!Spec
=============================================================================
