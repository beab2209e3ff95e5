--------------------------- MODULE DatabaseProofs ---------------------------
(***************************************************************************)
(* Proofs about Database, for every set of goroutines, transactions, Rows  *)
(* and error codes, and under either discipline of the callers.            *)
(***************************************************************************)
EXTENDS Database, TLAPS
-----------------------------------------------------------------------------
(* The inductive invariant.                                                *)

(* Who may be inside: the goroutine named by mu or, while mu names a Rows, *)
(* the one goroutine that uses that Rows.                                  *)
Ownership ==
  /\ \A g \in Goroutines : pc[g] \in Inside => mu = g
  /\ \A g \in Goroutines : pc[g] \in OnRows =>
       call[g].obj \in Rowsets /\ mu = call[g].obj
  /\ \A r \in Rowsets : rows[r].st = "open" => mu = r
  /\ \A g, h \in Goroutines : call[g].obj = call[h].obj /\ call[g].obj # None => g = h

(* What a call's place says of the call and of its Rows.                   *)
CallShape ==
  \A g \in Goroutines :
    /\ pc[g] = "idle" <=> call[g].kind = "none"
    /\ pc[g] \in OnRows <=> call[g].kind \in {"next", "rclose"}
    /\ call[g].kind = "query" => rows[call[g].obj].st = "unborn"
    /\ call[g].kind = "begin" /\ pc[g] # "return" => txn[call[g].obj] = "none"
    /\ pc[g] \in {"rstep", "rfinal"} => rows[call[g].obj].st = "open"
    /\ pc[g] = "runlock" => rows[call[g].obj].st = "closed"
    /\ pc[g] = "bind" => call[g].kind \in {"exec", "query"}
    /\ pc[g] \in {"step", "changes"} => call[g].kind = "exec"
    /\ pc[g] = "prepare" => call[g].kind \in {"exec", "query"}
    /\ pc[g] = "begin" => call[g].kind = "begin"
    /\ pc[g] \in {"commit", "rollback", "close", "catalog"} => call[g].kind = pc[g]

(* Where statements live and what they were prepared on.                   *)
StatementShape ==
  /\ \A g \in Goroutines :
       /\ pc[g] \in {"bind", "step"} => stmt[g] # None
       /\ stmt[g] # None => /\ pc[g] \in {"bind", "step", "changes", "return"}
                            /\ call[g].kind \in {"exec", "query"}
                            /\ stmt[g].ctx = call[g].ctx
  /\ \A r \in Rowsets : stmt[r] # None <=> rows[r].st = "open"
  /\ \A o \in Owners : stmt[o] # None =>
       /\ handle = "open"
       /\ stmt[o].ctx # Autocommit => txn[stmt[o].ctx] = "active"
  /\ \A r \in Rowsets : rows[r].atRow =>
       rows[r].st = "open" /\ rows[r].lastErr = "nil"

(* Tx.done against the C transaction, and the handle against both.         *)
TxShape ==
  /\ \A t \in Txs : txn[t] = "ended" => done[t]
  /\ \A t \in Txs : txn[t] = "none" => ~done[t]
  /\ \A g \in Goroutines :
       /\ call[g].ctx # Autocommit => txn[call[g].ctx] # "none"
       /\ pc[g] \in {"prepare", "bind"} /\ call[g].ctx # Autocommit =>
            ~done[call[g].ctx] /\ txn[call[g].ctx] = "active"
       /\ pc[g] \in {"commit", "rollback"} =>
            done[call[g].ctx] /\ txn[call[g].ctx] = "active"
       /\ pc[g] \in {"prepare", "bind", "begin", "close", "catalog"} => handle = "open"

(* A Tx marked done has ended, or is being ended at this moment.           *)
EndPending ==
  \A t \in Txs : done[t] =>
    \/ txn[t] = "ended"
    \/ \E g \in Goroutines : pc[g] \in {"commit", "rollback"} /\ call[g].ctx = t

(* Under CloseDiscipline no transaction is open once Close has been called.*)
CloseShape ==
  CloseDiscipline =>
    /\ \A g, h \in Goroutines : call[g].kind = "close" => call[h].kind # "begin"
    /\ (handle = "nil" \/ \E g \in Goroutines : call[g].kind = "close") =>
         \A t \in Txs : txn[t] # "active"

(* The registers of the handle still speak of the call about to read them. *)
Registers ==
  \A g \in Goroutines :
    /\ pc[g] = "changes" => truth[g].code = 0 /\ truth[g].n = changes
    /\ pc[g] = "errcode" => truth[g].code = errcode
    /\ pc[g] = "return" =>
         /\ result[g].err \in Kinds => result[g].err = KindOf(truth[g].code)
         /\ call[g].kind = "exec" /\ result[g].err = "nil" => result[g].n = truth[g].n

(* An iteration is left only at the end of the rows or with Err set.       *)
Iteration ==
  /\ \A g \in Goroutines : pc[g] = "rfinal" /\ call[g].kind = "next" =>
       stmt[call[g].obj].left = 0 \/ rows[call[g].obj].lastErr # "nil"
  /\ \A g \in Goroutines : pc[g] = "rstep" => rows[call[g].obj].lastErr = "nil"
  /\ \A r \in Rowsets : rows[r].lost > 0 => rows[r].lastErr # "nil"

IInv == /\ TypeOK /\ Ownership /\ CallShape /\ StatementShape
        /\ TxShape /\ EndPending /\ CloseShape /\ Registers /\ Iteration
-----------------------------------------------------------------------------
LEMMA KindOfKinds == \A code \in Int : KindOf(code) \in Kinds
BY DEF KindOf, Kinds, KindTable

LEMMA CallFields ==
  ASSUME NEW c \in Calls
  PROVE  /\ c.ctx \in Contexts
         /\ c.obj \in Rowsets \cup Txs \cup {None}
         /\ c.kind \in {"query", "next", "rclose"} => c.obj \in Rowsets
         /\ c.kind = "begin" => c.obj \in Txs
         /\ c.kind \notin {"query", "begin", "next", "rclose"} => c.obj = None
         /\ c.kind \in {"commit", "rollback"} => c.ctx \in Txs
BY Distinct DEF Calls, Contexts, NoCall

(* What the helpers of Database do to the types of what they assign.       *)
LEMMA TypedReturns ==
  ASSUME TypeOK, NEW g \in Goroutines, NEW err \in Errors, NEW n \in 0..MaxRows,
         Returns(g, err, n)
  PROVE  result' \in [Goroutines -> Outcomes]
<1>1. [err |-> err, n |-> n] \in Outcomes
  BY DEF Outcomes
<1> QED BY <1>1 DEF TypeOK, Returns

LEMMA TypedDid ==
  ASSUME TypeOK, NEW g \in Goroutines, NEW code \in ErrCodes \cup {0},
         NEW n \in 0..MaxRows, Did(g, code, n)
  PROVE  truth' \in [Goroutines -> Effects]
<1>1. [code |-> code, n |-> n] \in Effects
  BY DEF Effects
<1> QED BY <1>1 DEF TypeOK, Did

LEMMA TypedFaults ==
  ASSUME TypeOK, NEW g \in Goroutines, NEW code \in ErrCodes, Faults(g, code)
  PROVE  errcode' \in ErrCodes \cup {0} /\ truth' \in [Goroutines -> Effects]
BY TypedDid, Bounds DEF Faults

LEMMA TypedGoTo ==
  ASSUME TypeOK, NEW g \in Goroutines, NEW next \in PCs, GoTo(g, next)
  PROVE  pc' \in [Goroutines -> PCs]
BY DEF TypeOK, GoTo

LEMMA TypedLeave ==
  ASSUME TypeOK, NEW g \in Goroutines, Leave(g)
  PROVE  pc' \in [Goroutines -> PCs] /\ call' \in [Goroutines -> Calls]
<1>1. NoCall \in Calls
  BY DEF Calls
<1>2. pc' \in [Goroutines -> PCs]
  BY TypedGoTo DEF Leave, PCs
<1> QED BY <1>1, <1>2 DEF TypeOK, Leave

LEMMA TypedEntry ==
  ASSUME TypeOK, NEW g \in Goroutines, NEW next \in PCs,
         \/ Enter(g, next)
         \/ \E err \in {"nil", "ErrClosed", "ErrTxDone"} : Refuse(g, err)
  PROVE  /\ mu' \in Owners \cup {None}
         /\ pc' \in [Goroutines -> PCs]
         /\ call' \in [Goroutines -> Calls]
         /\ result' \in [Goroutines -> Outcomes]
<1>1. CASE Enter(g, next)
  BY <1>1, TypedGoTo DEF TypeOK, Enter, Owners
<1>2. ASSUME NEW err \in {"nil", "ErrClosed", "ErrTxDone"}, Refuse(g, err)
      PROVE  mu' = mu /\ Leave(g) /\ result' \in [Goroutines -> Outcomes]
  BY <1>2, TypedReturns, Bounds DEF Refuse, Errors
<1> QED BY <1>1, <1>2, TypedLeave DEF TypeOK

LEMMA TypeStep == IInv /\ [Next]_vars => TypeOK'
<1> SUFFICES ASSUME IInv, [Next]_vars
             PROVE  TypeOK'
  OBVIOUS
<1>a. TypeOK /\ StatementShape /\ CallShape
  BY DEF IInv
<1> USE <1>a
<1> USE DEF objects, session
<1>1. ASSUME NEW g \in Goroutines, NEW c \in Calls, Call(g, c)
      PROVE  TypeOK'
  BY <1>1, TypedGoTo DEF TypeOK, Call, PCs
<1>2. ASSUME NEW g \in Goroutines, EnterCall(g)
      PROVE  TypeOK'
  <2>1. CASE \/ DatabaseExec(g) \/ DatabaseQuery(g) \/ TxExec(g) \/ TxQuery(g)
             \/ BeginWithIsolation(g) \/ ListTables(g) \/ DatabaseClose(g)
    <3>1. \E next \in PCs :
            \/ Enter(g, next)
            \/ \E err \in {"nil", "ErrClosed", "ErrTxDone"} : Refuse(g, err)
      BY <2>1 DEF DatabaseExec, DatabaseQuery, TxExec, TxQuery,
                  BeginWithIsolation, ListTables, DatabaseClose, IfOpen, IfLive, PCs
    <3>2. UNCHANGED <<objects, stmt, session, truth>>
      BY <2>1 DEF DatabaseExec, DatabaseQuery, TxExec, TxQuery,
                  BeginWithIsolation, ListTables, DatabaseClose
    <3> QED BY <3>1, <3>2, TypedEntry DEF TypeOK
  <2>2. CASE Commit(g) \/ Rollback(g)
    <3>1. \E next \in PCs :
            \/ Enter(g, next)
            \/ \E err \in {"nil", "ErrClosed", "ErrTxDone"} : Refuse(g, err)
      BY <2>2 DEF Commit, Rollback, PCs
    <3>2. done' \in [Txs -> BOOLEAN]
      BY <2>2 DEF Commit, Rollback, TypeOK
    <3>3. UNCHANGED <<handle, txn, rows, stmt, session, truth>>
      BY <2>2 DEF Commit, Rollback
    <3> QED BY <3>1, <3>2, <3>3, TypedEntry DEF TypeOK
  <2> QED BY <1>2, <2>1, <2>2 DEF EnterCall
<1>3. ASSUME NEW g \in Goroutines, NEW r \in Rowsets, RowsNext(g, r) \/ RowsClose(g, r)
      PROVE  TypeOK'
  <2>1. PICK kind \in {"next", "rclose"}, next \in {"rstep", "rfinal"} :
          UseRows(g, r, kind, next)
    BY <1>3 DEF RowsNext, RowsClose
  <2>2. [kind |-> kind, ctx |-> Autocommit, obj |-> r] \in Calls
    BY DEF Calls, Contexts
  <2>3. pc' \in [Goroutines -> PCs]
    BY <2>1, TypedGoTo DEF UseRows, PCs
  <2> QED BY <2>1, <2>2, <2>3 DEF TypeOK, UseRows
<1>4. ASSUME NEW g \in Goroutines, PrepareLocked(g)
      PROVE  TypeOK'
  <2>1. ASSUME NEW k \in 0..MaxRows,
               stmt' = [stmt EXCEPT ![g] = [ctx |-> call[g].ctx, left |-> k]]
        PROVE  stmt' \in [Owners -> Statements \cup {None}]
    <3>1. [ctx |-> call[g].ctx, left |-> k] \in Statements
      BY CallFields DEF TypeOK, Statements
    <3> QED BY <2>1, <3>1 DEF TypeOK, Owners
  <2>2. pc' \in [Goroutines -> PCs]
    BY <1>4, TypedGoTo DEF PrepareLocked, PCs
  <2> QED BY <1>4, <2>1, <2>2, TypedFaults DEF TypeOK, PrepareLocked
<1>5. ASSUME NEW g \in Goroutines,
             BindFails(g) \/ BindExec(g) \/ ReadCatalog(g) \/ CloseHandle(g) \/ ReadChanges(g)
      PROVE  TypeOK'
  <2>1. pc' \in [Goroutines -> PCs]
    BY <1>5, TypedGoTo
       DEF BindFails, BindExec, ReadCatalog, CloseHandle, ReadChanges, PCs
  <2>2. ASSUME NEW code \in ErrCodes, Faults(g, code), Returns(g, KindOf(code), 0)
        PROVE  result' \in [Goroutines -> Outcomes]
    BY <2>2, TypedReturns, KindOfKinds, Bounds DEF Errors
  <2>3. ASSUME Returns(g, "nil", 0) \/ Returns(g, "ErrBind", 0)
        PROVE  result' \in [Goroutines -> Outcomes]
    BY <2>3, TypedReturns, Bounds DEF Errors
  <2>4. CASE BindFails(g)
    BY <2>1, <2>2, <2>3, <2>4, TypedFaults DEF TypeOK, BindFails
  <2>5. CASE ReadCatalog(g)
    BY <2>1, <2>2, <2>3, <2>5, TypedFaults DEF TypeOK, ReadCatalog
  <2>6. CASE BindExec(g)
    BY <2>1, <2>6 DEF TypeOK, BindExec
  <2>7. CASE CloseHandle(g)
    BY <2>1, <2>3, <2>7 DEF TypeOK, CloseHandle
  <2>8. CASE ReadChanges(g)
    <3>1. result' \in [Goroutines -> Outcomes]
      BY <2>8, TypedReturns DEF TypeOK, ReadChanges, Errors
    <3> QED BY <2>1, <2>8, <3>1 DEF TypeOK, ReadChanges
  <2> QED BY <1>5, <2>4, <2>5, <2>6, <2>7, <2>8
<1>6. ASSUME NEW g \in Goroutines, BindQuery(g)
      PROVE  TypeOK'
  <2>1. call[g].obj \in Rowsets
    BY <1>6, CallFields DEF TypeOK, BindQuery
  <2>2. stmt' \in [Owners -> Statements \cup {None}] /\ mu' \in Owners
    BY <1>6, <2>1 DEF TypeOK, BindQuery, Owners
  <2>3. rows' \in [Rowsets -> Cursors]
    BY <1>6, <2>1 DEF TypeOK, BindQuery, Cursors
  <2>4. result' \in [Goroutines -> Outcomes]
    BY <1>6, TypedReturns, Bounds DEF BindQuery, Errors
  <2> QED BY <1>6, <2>2, <2>3, <2>4, TypedLeave DEF TypeOK, BindQuery
<1>7. ASSUME NEW g \in Goroutines, StepRow(g)
      PROVE  TypeOK'
  <2>1. stmt[g] \in Statements
    BY <1>7 DEF TypeOK, StatementShape, StepRow, Owners
  <2>2. [stmt[g] EXCEPT !.left = @ - 1] \in Statements
    BY <1>7, <2>1, Bounds DEF Statements, StepRow
  <2> QED BY <1>7, <2>2 DEF TypeOK, StepRow, Owners
<1>8. ASSUME NEW g \in Goroutines, StepDone(g)
      PROVE  TypeOK'
  <2>1. pc' \in [Goroutines -> PCs] /\ truth' \in [Goroutines -> Effects]
    BY <1>8, TypedGoTo, TypedDid DEF StepDone, PCs
  <2> QED BY <1>8, <2>1 DEF TypeOK, StepDone
<1>9. ASSUME NEW g \in Goroutines, StepFails(g)
      PROVE  TypeOK'
  <2>1. PICK code \in ErrCodes : Faults(g, code) /\ Returns(g, KindOf(code), 0)
    BY <1>9 DEF StepFails
  <2>2. result' \in [Goroutines -> Outcomes]
    BY <2>1, TypedReturns, KindOfKinds, Bounds DEF Errors
  <2>3. pc' \in [Goroutines -> PCs]
    BY <1>9, TypedGoTo DEF StepFails, PCs
  <2> QED BY <1>9, <2>1, <2>2, <2>3, TypedFaults DEF TypeOK, StepFails
<1>10. ASSUME NEW g \in Goroutines, ReadErrcode(g)
       PROVE  TypeOK'
  <2>1. KindOf(errcode) \in Errors
    BY KindOfKinds, Bounds DEF TypeOK, Errors
  <2>2. result' \in [Goroutines -> Outcomes] /\ pc' \in [Goroutines -> PCs]
    BY <1>10, <2>1, TypedReturns, TypedGoTo, Bounds DEF ReadErrcode, PCs
  <2> QED BY <1>10, <2>2 DEF TypeOK, ReadErrcode
<1>11. ASSUME NEW g \in Goroutines, Return(g) \/ RowsUnlock(g)
       PROVE  TypeOK'
  <2>1. Leave(g) /\ mu' = None /\ UNCHANGED <<objects, session, truth, result>>
    BY <1>11 DEF Return, RowsUnlock
  <2>2. stmt' \in [Owners -> Statements \cup {None}]
    BY <1>11 DEF TypeOK, Return, RowsUnlock, Owners
  <2> QED BY <2>1, <2>2, TypedLeave DEF TypeOK
<1>12. ASSUME NEW g \in Goroutines, BeginTxn(g)
       PROVE  TypeOK'
  <2>1. pc' \in [Goroutines -> PCs]
    BY <1>12, TypedGoTo DEF BeginTxn, PCs
  <2>2. txn' \in [Txs -> {"none", "active", "ended"}]
    BY <1>12 DEF TypeOK, BeginTxn
  <2>3. CASE Returns(g, "nil", 0) /\ UNCHANGED <<errcode, truth>>
    <3>1. result' \in [Goroutines -> Outcomes]
      BY <2>3, TypedReturns, Bounds DEF Errors
    <3> QED BY <1>12, <2>1, <2>2, <2>3, <3>1 DEF TypeOK, BeginTxn
  <2>4. CASE (\E code \in ErrCodes : Faults(g, code)) /\ UNCHANGED <<txn, result>>
    BY <1>12, <2>1, <2>2, <2>4, TypedFaults DEF TypeOK, BeginTxn
  <2> QED BY <1>12, <2>3, <2>4 DEF BeginTxn
<1>13. ASSUME NEW g \in Goroutines, CommitTxn(g) \/ RollbackTxn(g)
       PROVE  TypeOK'
  <2>1. PICK kind \in {"commit", "rollback"} : EndTxn(g, kind)
    BY <1>13 DEF CommitTxn, RollbackTxn
  <2>2. pc' \in [Goroutines -> PCs]
    BY <2>1, TypedGoTo DEF EndTxn, PCs
  <2>3. txn' \in [Txs -> {"none", "active", "ended"}]
    BY <2>1 DEF TypeOK, EndTxn
  <2>4. CASE Returns(g, "nil", 0) /\ UNCHANGED <<errcode, truth>>
    <3>1. result' \in [Goroutines -> Outcomes]
      BY <2>4, TypedReturns, Bounds DEF Errors
    <3> QED BY <2>1, <2>2, <2>3, <2>4, <3>1 DEF TypeOK, EndTxn
  <2>5. ASSUME NEW code \in ErrCodes, Faults(g, code), Returns(g, KindOf(code), 0)
        PROVE  TypeOK'
    <3>1. result' \in [Goroutines -> Outcomes]
      BY <2>5, TypedReturns, KindOfKinds, Bounds DEF Errors
    <3> QED BY <2>1, <2>2, <2>3, <2>5, <3>1, TypedFaults DEF TypeOK, EndTxn
  <2> QED BY <2>1, <2>4, <2>5 DEF EndTxn
<1>14. ASSUME NEW g \in Goroutines, NextRow(g)
       PROVE  TypeOK'
  <2> DEFINE r == call[g].obj
  <2>1. r \in Rowsets
    BY <1>14, CallFields DEF TypeOK, CallShape, NextRow, OnRows
  <2>2. stmt[r] \in Statements
    BY <1>14, <2>1 DEF TypeOK, StatementShape, CallShape, NextRow, Owners
  <2>3. [stmt[r] EXCEPT !.left = @ - 1] \in Statements
    BY <1>14, <2>2, Bounds DEF Statements, NextRow
  <2>4. stmt' \in [Owners -> Statements \cup {None}]
    BY <1>14, <2>1, <2>3 DEF TypeOK, NextRow, Owners
  <2>5. rows' \in [Rowsets -> Cursors]
    BY <1>14, <2>1 DEF TypeOK, NextRow, Cursors
  <2> QED BY <1>14, <2>4, <2>5, TypedLeave DEF TypeOK, NextRow
<1>15. ASSUME NEW g \in Goroutines, NextDone(g) \/ NextFails(g)
       PROVE  TypeOK'
  <2>1. call[g].obj \in Rowsets
    BY <1>15, CallFields DEF TypeOK, CallShape, NextDone, NextFails, OnRows
  <2>2. pc' \in [Goroutines -> PCs]
    BY <1>15, TypedGoTo DEF NextDone, NextFails, PCs
  <2>3. rows' \in [Rowsets -> Cursors] /\ errcode' \in ErrCodes \cup {0}
    <3>1. CASE NextDone(g)
      <4>1. rows \in [Rowsets -> Cursors] /\ errcode' \in ErrCodes \cup {0}
        BY <3>1 DEF TypeOK, NextDone
      <4>2. rows' = [rows EXCEPT ![call[g].obj].atRow = FALSE]
        BY <3>1 DEF NextDone
      <4> QED BY <2>1, <4>1, <4>2 DEF Cursors
    <3>2. CASE NextFails(g)
      <4>1. PICK code \in ErrCodes :
              /\ errcode' = code
              /\ rows' = [rows EXCEPT ![call[g].obj].lastErr = KindOf(code),
                                      ![call[g].obj].atRow = FALSE]
        BY <3>2 DEF NextFails
      <4>2. KindOf(code) \in Kinds
        BY KindOfKinds, Bounds
      <4> QED BY <2>1, <4>1, <4>2 DEF TypeOK, Cursors
    <3> QED BY <1>15, <3>1, <3>2
  <2> QED BY <1>15, <2>2, <2>3 DEF TypeOK, NextDone, NextFails
<1>16. ASSUME NEW g \in Goroutines, RowsFinalize(g)
       PROVE  TypeOK'
  <2> DEFINE r == call[g].obj
  <2>1. r \in Rowsets
    BY <1>16, CallFields DEF TypeOK, CallShape, RowsFinalize, OnRows
  <2>2. stmt[r].left \in 0..MaxRows
    BY <1>16, <2>1 DEF TypeOK, StatementShape, CallShape, RowsFinalize, Owners, Statements
  <2>3. rows' \in [Rowsets -> Cursors]
    BY <1>16, <2>1, <2>2, Bounds DEF TypeOK, RowsFinalize, Cursors
  <2>4. stmt' \in [Owners -> Statements \cup {None}] /\ pc' \in [Goroutines -> PCs]
    BY <1>16, <2>1, TypedGoTo DEF TypeOK, RowsFinalize, Owners, PCs
  <2> QED BY <1>16, <2>3, <2>4 DEF TypeOK, RowsFinalize
<1>17. CASE UNCHANGED vars
  BY <1>17 DEF TypeOK, vars
<1> QED
  BY <1>1, <1>2, <1>3, <1>4, <1>5, <1>6, <1>7, <1>8, <1>9, <1>10, <1>11, <1>12,
     <1>13, <1>14, <1>15, <1>16, <1>17
     DEF Next, Proceed
-----------------------------------------------------------------------------
(* What the steps that stay inside the C library leave alone.              *)
Stays(g) == \/ PrepareLocked(g) \/ BindFails(g) \/ BindExec(g)
            \/ StepRow(g) \/ StepDone(g) \/ StepFails(g)
            \/ ReadChanges(g) \/ ReadErrcode(g)
            \/ BeginTxn(g) \/ CommitTxn(g) \/ RollbackTxn(g)
            \/ CloseHandle(g) \/ ReadCatalog(g)

LEMMA StayInside ==
  ASSUME TypeOK, NEW g \in Goroutines, Stays(g)
  PROVE  /\ pc[g] \in Inside /\ pc'[g] \in Inside
         /\ \A h \in Goroutines : h # g => pc'[h] = pc[h]
         /\ UNCHANGED <<mu, done, rows, call>>
<1> USE DEF TypeOK, GoTo, Inside, PCs, objects
<1>1. CASE PrepareLocked(g) \/ BindFails(g) \/ BindExec(g)
  BY <1>1 DEF PrepareLocked, BindFails, BindExec
<1>2. CASE StepRow(g) \/ StepDone(g) \/ StepFails(g)
  BY <1>2 DEF StepRow, StepDone, StepFails
<1>3. CASE ReadChanges(g) \/ ReadErrcode(g) \/ CloseHandle(g) \/ ReadCatalog(g)
  BY <1>3 DEF ReadChanges, ReadErrcode, CloseHandle, ReadCatalog
<1>4. CASE BeginTxn(g)
  BY <1>4 DEF BeginTxn
<1>5. CASE CommitTxn(g) \/ RollbackTxn(g)
  BY <1>5 DEF CommitTxn, RollbackTxn, EndTxn
<1> QED BY <1>1, <1>2, <1>3, <1>4, <1>5 DEF Stays

(* The entry of a method either takes the free mutex or ends the call.     *)
LEMMA Entry ==
  ASSUME TypeOK, NEW g \in Goroutines, EnterCall(g)
  PROVE  /\ pc[g] = "lock" /\ mu = None
         /\ \/ /\ mu' = g /\ call' = call
               /\ pc'[g] \in {"prepare", "begin", "commit", "rollback", "close", "catalog"}
            \/ /\ mu' = mu /\ pc'[g] = "idle"
               /\ call' = [call EXCEPT ![g] = NoCall]
         /\ \A h \in Goroutines : h # g => pc'[h] = pc[h]
         /\ UNCHANGED <<handle, txn, rows, stmt, changes, errcode, truth>>
<1> USE DEF TypeOK, Acquire, Enter, Refuse, Leave, GoTo, Inside, PCs, objects, session
<1>1. CASE DatabaseExec(g) \/ DatabaseQuery(g) \/ BeginWithIsolation(g) \/ ListTables(g)
  BY <1>1 DEF DatabaseExec, DatabaseQuery, BeginWithIsolation, ListTables, IfOpen
<1>2. CASE TxExec(g) \/ TxQuery(g)
  BY <1>2 DEF TxExec, TxQuery, IfLive, IfOpen
<1>3. CASE DatabaseClose(g)
  BY <1>3 DEF DatabaseClose
<1>4. CASE Commit(g) \/ Rollback(g)
  BY <1>4 DEF Commit, Rollback
<1> QED BY <1>1, <1>2, <1>3, <1>4 DEF EnterCall

(* What a call on a Rows does to the Rows objects.                         *)
LEMMA RowsFrame ==
  ASSUME TypeOK, CallShape, NEW g \in Goroutines,
         NextRow(g) \/ NextDone(g) \/ NextFails(g) \/ RowsFinalize(g)
  PROVE  /\ call[g].obj \in Rowsets
         /\ \A r \in Rowsets : r # call[g].obj => rows'[r] = rows[r]
         /\ rows'[call[g].obj].st =
              IF RowsFinalize(g) THEN "closed" ELSE rows[call[g].obj].st
         /\ rows'[call[g].obj].atRow <=> NextRow(g)
         /\ UNCHANGED <<mu, handle, txn, done, truth, result>>
<1> DEFINE r == call[g].obj
<1>1. r \in Rowsets
  BY CallFields DEF TypeOK, CallShape, NextRow, NextDone, NextFails, RowsFinalize, OnRows
<1>2. rows[r] \in Cursors /\ DOMAIN rows = Rowsets
  BY <1>1 DEF TypeOK
<1>3. CASE NextRow(g)
  <2>1. rows' = [rows EXCEPT ![r].atRow = TRUE]
    BY <1>3 DEF NextRow
  <2>2. ~RowsFinalize(g)
    BY <1>3 DEF NextRow, RowsFinalize
  <2> QED BY <1>1, <1>2, <1>3, <2>1, <2>2 DEF NextRow, Cursors
<1>4. CASE NextDone(g)
  <2>1. rows' = [rows EXCEPT ![r].atRow = FALSE]
    BY <1>4 DEF NextDone
  <2>2. ~RowsFinalize(g)
    BY <1>4 DEF NextDone, RowsFinalize
  <2>3. ~NextRow(g)
    BY <1>4 DEF NextDone, NextRow
  <2> QED BY <1>1, <1>2, <1>4, <2>1, <2>2, <2>3 DEF NextDone, Cursors
<1>5. CASE NextFails(g)
  <2>1. PICK e \in {KindOf(code) : code \in ErrCodes} :
          rows' = [rows EXCEPT ![r].lastErr = e, ![r].atRow = FALSE]
    BY <1>5 DEF NextFails
  <2>2. ~RowsFinalize(g)
    BY <1>5 DEF NextFails, RowsFinalize
  <2>3. ~NextRow(g)
    <3>1. rows'[r].atRow = FALSE
      BY <1>1, <1>2, <2>1 DEF Cursors
    <3>2. NextRow(g) => rows'[r].atRow = TRUE
      BY <1>1, <1>2 DEF NextRow, Cursors
    <3> QED BY <3>1, <3>2
  <2> QED BY <1>1, <1>2, <1>5, <2>1, <2>2, <2>3 DEF NextFails, Cursors
<1>6. CASE RowsFinalize(g)
  <2>1. ~NextRow(g)
    BY <1>6 DEF NextRow, RowsFinalize
  <2> QED BY <1>1, <1>2, <1>6, <2>1 DEF RowsFinalize, Cursors
<1> QED BY <1>3, <1>4, <1>5, <1>6

LEMMA OwnershipStep == IInv /\ [Next]_vars => Ownership'
<1> SUFFICES ASSUME IInv, [Next]_vars
             PROVE  Ownership'
  OBVIOUS
<1> USE Distinct DEF objects
<1>a. TypeOK /\ Ownership /\ CallShape /\ StatementShape
  BY DEF IInv
<1>b. Inside \cap OnRows = {}
  BY DEF Inside, OnRows
<1>1. ASSUME NEW g \in Goroutines, NEW c \in Calls, Call(g, c)
      PROVE  Ownership'
  <2>1. c.obj = None \/ ~InUse(c.obj)
    BY <1>1, CallFields DEF Call
  <2> QED BY <1>1, <1>a, <2>1 DEF TypeOK, Ownership, Call, GoTo, InUse, Inside, OnRows
<1>2. ASSUME NEW g \in Goroutines, EnterCall(g)
      PROVE  Ownership'
  BY <1>2, <1>a, <1>b, Entry DEF TypeOK, Ownership, Inside, OnRows, NoCall
<1>3. ASSUME NEW g \in Goroutines, Stays(g)
      PROVE  Ownership'
  BY <1>3, <1>a, <1>b, StayInside DEF Ownership
<1>4. ASSUME NEW g \in Goroutines, BindQuery(g)
      PROVE  Ownership'
  BY <1>4, <1>a, CallFields DEF TypeOK, Ownership, BindQuery, Leave, GoTo, Inside, OnRows, PCs, NoCall
<1>5. ASSUME NEW g \in Goroutines, Return(g)
      PROVE  Ownership'
  BY <1>5, <1>a DEF TypeOK, Ownership, Return, Leave, GoTo, Inside, OnRows, PCs, NoCall
<1>6. ASSUME NEW g \in Goroutines, NEW r \in Rowsets, RowsNext(g, r) \/ RowsClose(g, r)
      PROVE  Ownership'
  BY <1>6, <1>a DEF TypeOK, Ownership, RowsNext, RowsClose, UseRows, InUse, GoTo, Inside, OnRows, PCs
<1>7. ASSUME NEW g \in Goroutines, NextRow(g)
      PROVE  Ownership'
  BY <1>7, <1>a, CallFields DEF TypeOK, Ownership, NextRow, Leave, GoTo, Inside, OnRows, PCs, NoCall, Cursors
<1>8. ASSUME NEW g \in Goroutines, NextDone(g) \/ NextFails(g) \/ RowsFinalize(g)
      PROVE  Ownership'
  <2>1. pc[g] \in OnRows /\ pc'[g] \in OnRows /\ UNCHANGED <<mu, call>>
    BY <1>8, <1>a DEF TypeOK, NextDone, NextFails, RowsFinalize, GoTo, OnRows
  <2>2. \A h \in Goroutines : h # g => pc'[h] = pc[h]
    BY <1>8, <1>a DEF TypeOK, NextDone, NextFails, RowsFinalize, GoTo
  <2>3. \A r \in Rowsets : rows'[r].st = "open" => rows[r].st = "open"
    BY <1>8, <1>a, RowsFrame
  <2> QED BY <1>a, <1>b, <2>1, <2>2, <2>3 DEF Ownership
<1>9. ASSUME NEW g \in Goroutines, RowsUnlock(g)
      PROVE  Ownership'
  <2>1. call[g].obj \in Rowsets /\ mu = call[g].obj /\ rows[call[g].obj].st = "closed"
    BY <1>9, <1>a DEF Ownership, CallShape, RowsUnlock, OnRows
  <2>2. ASSUME NEW h \in Goroutines, h # g
        PROVE  pc[h] \notin Inside /\ pc[h] \notin OnRows
    <3>1. mu # h /\ mu # None
      BY <2>1
    <3>2. call[h].obj # mu
      BY <1>a, <2>1, <2>2, <3>1 DEF Ownership
    <3> QED BY <1>a, <2>2, <3>1, <3>2 DEF Ownership
  <2>3. \A r \in Rowsets : rows[r].st # "open"
    BY <1>a, <2>1 DEF Ownership
  <2> QED BY <1>9, <1>a, <2>2, <2>3
          DEF TypeOK, Ownership, RowsUnlock, Leave, GoTo, Inside, OnRows, PCs, NoCall
<1>10. CASE UNCHANGED vars
  BY <1>10, <1>a DEF Ownership, vars
<1> QED
  BY <1>1, <1>2, <1>3, <1>4, <1>5, <1>6, <1>7, <1>8, <1>9, <1>10
     DEF Next, Proceed, Stays

(* What the steps inside the C library do to the transactions.             *)
LEMMA TxnFrame ==
  ASSUME TypeOK, NEW g \in Goroutines, Stays(g), NEW t \in Txs
  PROVE  \/ txn'[t] = txn[t]
         \/ BeginTxn(g) /\ t = call[g].obj /\ txn'[t] = "active" /\ pc'[g] = "return"
         \/ /\ CommitTxn(g) \/ RollbackTxn(g)
            /\ t = call[g].ctx /\ txn'[t] = "ended" /\ pc'[g] = "return"
<1> USE DEF TypeOK, objects, GoTo
<1>1. CASE PrepareLocked(g) \/ BindFails(g) \/ BindExec(g)
  BY <1>1 DEF PrepareLocked, BindFails, BindExec
<1>2. CASE StepRow(g) \/ StepDone(g) \/ StepFails(g)
  BY <1>2 DEF StepRow, StepDone, StepFails
<1>3. CASE ReadChanges(g) \/ ReadErrcode(g) \/ CloseHandle(g) \/ ReadCatalog(g)
  BY <1>3 DEF ReadChanges, ReadErrcode, CloseHandle, ReadCatalog
<1>4. CASE BeginTxn(g)
  BY <1>4 DEF BeginTxn
<1>5. CASE CommitTxn(g) \/ RollbackTxn(g)
  BY <1>5 DEF CommitTxn, RollbackTxn, EndTxn
<1> QED BY <1>1, <1>2, <1>3, <1>4, <1>5 DEF Stays

LEMMA CallShapeStep == IInv /\ [Next]_vars => CallShape'
<1> SUFFICES ASSUME IInv, [Next]_vars
             PROVE  CallShape'
  OBVIOUS
<1> USE Distinct DEF objects
<1>a. TypeOK /\ Ownership /\ CallShape /\ StatementShape /\ TxShape
  BY DEF IInv
<1>1. ASSUME NEW g \in Goroutines, NEW c \in Calls, Call(g, c)
      PROVE  CallShape'
  BY <1>1, <1>a DEF TypeOK, CallShape, Call, GoTo, OnRows
<1>2. ASSUME NEW g \in Goroutines, EnterCall(g)
      PROVE  CallShape'
  <2>1. rows' = rows /\ txn' = txn
    BY <1>2, <1>a, Entry
  <2>2. CASE mu' = mu /\ pc'[g] = "idle"
    BY <1>2, <1>a, <2>1, <2>2, Entry DEF TypeOK, CallShape, OnRows, NoCall, Inside
  <2>3. CASE pc'[g] # "idle" /\ call' = call
    <3>1. /\ pc'[g] = "prepare" => call[g].kind \in {"exec", "query"}
          /\ pc'[g] \in {"begin", "commit", "rollback", "close", "catalog"} =>
               call[g].kind = pc'[g]
          /\ pc'[g] \in {"prepare", "begin", "commit", "rollback", "close", "catalog"}
      BY <1>2, <1>a, <2>3 DEF TypeOK, EnterCall, DatabaseExec, DatabaseQuery, TxExec,
           TxQuery, BeginWithIsolation, ListTables, DatabaseClose, Commit, Rollback,
           IfLive, IfOpen, Enter, Refuse, Leave, GoTo, Acquire, Inside
    <3> QED BY <1>2, <1>a, <2>1, <2>3, <3>1, Entry DEF TypeOK, CallShape, OnRows
  <2> QED BY <1>2, <1>a, <2>2, <2>3, Entry
<1>3. ASSUME NEW g \in Goroutines, Stays(g)
      PROVE  CallShape'
  <2>1. rows' = rows /\ call' = call
    BY <1>3, <1>a, StayInside
  <2>2. /\ pc'[g] = "bind" => pc[g] = "prepare"
        /\ pc'[g] \in {"step", "changes"} => call[g].kind = "exec"
        /\ pc'[g] \in {"bind", "step", "changes", "errcode", "return"}
    <3> USE DEF TypeOK, GoTo, CallShape
    <3>1. CASE PrepareLocked(g) \/ BindFails(g) \/ BindExec(g)
      BY <1>a, <3>1 DEF PrepareLocked, BindFails, BindExec
    <3>2. CASE StepRow(g) \/ StepDone(g) \/ StepFails(g)
      BY <1>a, <3>2 DEF StepRow, StepDone, StepFails
    <3>3. CASE ReadChanges(g) \/ ReadErrcode(g) \/ CloseHandle(g) \/ ReadCatalog(g)
      BY <1>a, <3>3 DEF ReadChanges, ReadErrcode, CloseHandle, ReadCatalog
    <3>4. CASE BeginTxn(g) \/ CommitTxn(g) \/ RollbackTxn(g)
      BY <1>a, <3>4 DEF BeginTxn, CommitTxn, RollbackTxn, EndTxn
    <3> QED BY <1>3, <3>1, <3>2, <3>3, <3>4 DEF Stays
  <2>3. ASSUME NEW h \in Goroutines, call[h].kind = "begin", pc'[h] # "return"
        PROVE  txn'[call[h].obj] = "none"
    <3>1. call[h].obj \in Txs /\ call[h].obj # None
      BY <1>a, <2>3, CallFields DEF TypeOK
    <3>2. CASE h = g
      <4>1. ~(CommitTxn(g) \/ RollbackTxn(g))
        BY <1>a, <2>3, <3>2 DEF CallShape, CommitTxn, RollbackTxn, EndTxn
      <4>2. pc[g] # "return"
        BY <1>3 DEF Stays, PrepareLocked, BindFails, BindExec, StepRow, StepDone,
             StepFails, ReadChanges, ReadErrcode, BeginTxn, CommitTxn, RollbackTxn,
             EndTxn, CloseHandle, ReadCatalog
      <4> QED BY <1>3, <1>a, <2>3, <3>1, <3>2, <4>1, <4>2, TxnFrame DEF CallShape
    <3>3. CASE h # g
      <4>1. txn[call[h].obj] = "none"
        BY <1>3, <1>a, <2>3, <3>3, StayInside DEF CallShape
      <4>2. call[h].obj # call[g].obj
        BY <1>a, <3>1, <3>3 DEF Ownership
      <4>3. CommitTxn(g) \/ RollbackTxn(g) => txn[call[g].ctx] = "active"
        BY <1>a DEF TxShape, CommitTxn, RollbackTxn, EndTxn
      <4> QED BY <1>3, <1>a, <3>1, <4>1, <4>2, <4>3, TxnFrame
    <3> QED BY <3>2, <3>3
  <2> QED BY <1>3, <1>a, <2>1, <2>2, <2>3, StayInside DEF TypeOK, CallShape, OnRows, Inside
<1>4. ASSUME NEW g \in Goroutines, BindQuery(g)
      PROVE  CallShape'
  <2>1. call[g].obj \in Rowsets /\ call[g].obj # None
    BY <1>4, <1>a, CallFields DEF TypeOK, BindQuery
  <2>2. \A r \in Rowsets : r # call[g].obj => rows'[r] = rows[r]
    BY <1>4, <1>a, <2>1 DEF TypeOK, BindQuery
  <2>3. \A h \in Goroutines : h # g => call[h].obj # call[g].obj
    BY <1>a, <2>1 DEF Ownership
  <2>4. /\ txn' = txn
        /\ pc' = [pc EXCEPT ![g] = "idle"]
        /\ call' = [call EXCEPT ![g] = NoCall]
    BY <1>4 DEF BindQuery, Leave, GoTo
  <2>5. \A h \in Goroutines : call[h].kind \in {"query", "next", "rclose"} =>
          call[h].obj \in Rowsets
    BY <1>a, CallFields DEF TypeOK
  <2> QED BY <1>a, <2>2, <2>3, <2>4, <2>5 DEF TypeOK, CallShape, OnRows, NoCall
<1>5. ASSUME NEW g \in Goroutines, Return(g)
      PROVE  CallShape'
  BY <1>5, <1>a DEF TypeOK, CallShape, Return, Leave, GoTo, OnRows, NoCall
<1>6. ASSUME NEW g \in Goroutines, NEW r \in Rowsets, RowsNext(g, r) \/ RowsClose(g, r)
      PROVE  CallShape'
  BY <1>6, <1>a DEF TypeOK, CallShape, RowsNext, RowsClose, UseRows, InUse, GoTo, OnRows
<1>7. ASSUME NEW g \in Goroutines,
             NextRow(g) \/ NextDone(g) \/ NextFails(g) \/ RowsFinalize(g)
      PROVE  CallShape'
  <2>1. call[g].obj \in Rowsets /\ call[g].obj # None
    BY <1>7, <1>a, RowsFrame
  <2>2. \A h \in Goroutines : h # g => call[h].obj # call[g].obj
    BY <1>a, <2>1 DEF Ownership
  <2>3. \A h \in Goroutines : call[h].kind \in {"query", "next", "rclose"} =>
          call[h].obj \in Rowsets
    BY <1>a, CallFields DEF TypeOK
  <2>4. CASE NextRow(g)
    BY <2>4, <1>a, <2>1, <2>2, <2>3, RowsFrame
       DEF TypeOK, CallShape, NextRow, Leave, GoTo, OnRows, NoCall
  <2>5. CASE NextDone(g) \/ NextFails(g)
    <3>1. pc' = [pc EXCEPT ![g] = "rfinal"] /\ call' = call /\ pc[g] = "rstep"
      BY <2>5 DEF NextDone, NextFails, GoTo
    <3>2. ~RowsFinalize(g)
      BY <3>1 DEF RowsFinalize
    <3> QED BY <2>5, <1>a, <2>1, <2>2, <2>3, <3>1, <3>2, RowsFrame
            DEF TypeOK, CallShape, OnRows
  <2>6. CASE RowsFinalize(g)
    <3>1. pc' = [pc EXCEPT ![g] = "runlock"] /\ call' = call /\ pc[g] = "rfinal"
      BY <2>6 DEF RowsFinalize, GoTo
    <3>2. rows'[call[g].obj].st = "closed" /\ txn' = txn
      BY <2>6, <1>a, RowsFrame
    <3>3. \A r \in Rowsets : r # call[g].obj => rows'[r] = rows[r]
      BY <2>6, <1>a, RowsFrame
    <3> QED BY <1>a, <2>1, <2>2, <2>3, <3>1, <3>2, <3>3
            DEF TypeOK, CallShape, OnRows
  <2> QED BY <1>7, <2>4, <2>5, <2>6
<1>9. ASSUME NEW g \in Goroutines, RowsUnlock(g)
      PROVE  CallShape'
  BY <1>9, <1>a DEF TypeOK, CallShape, RowsUnlock, Leave, GoTo, OnRows, NoCall
<1>10. CASE UNCHANGED vars
  BY <1>10, <1>a DEF CallShape, vars
<1> QED
  BY <1>1, <1>2, <1>3, <1>4, <1>5, <1>6, <1>7, <1>9, <1>10
     DEF Next, Proceed, Stays

(* While a goroutine is inside, no statement but its own is live.          *)
LEMMA OnlyOwnStatement ==
  ASSUME IInv, NEW g \in Goroutines, pc[g] \in Inside, NEW o \in Owners, stmt[o] # None
  PROVE  o = g /\ pc[g] \in {"bind", "step", "changes", "return"}
<1>1. mu = g /\ g \notin Rowsets
  BY Distinct DEF IInv, Ownership
<1>2. CASE o \in Goroutines
  BY <1>1, <1>2 DEF IInv, Ownership, StatementShape, Inside, PCs
<1>3. CASE o \in Rowsets
  BY <1>1, <1>3 DEF IInv, Ownership, StatementShape
<1> QED BY <1>2, <1>3 DEF Owners

LEMMA StatementShapeStep == IInv /\ [Next]_vars => StatementShape'
<1> SUFFICES ASSUME IInv, [Next]_vars
             PROVE  StatementShape'
  OBVIOUS
<1> USE Distinct DEF objects
<1>a. TypeOK /\ Ownership /\ CallShape /\ StatementShape /\ TxShape /\ Iteration
  BY DEF IInv
<1>b. \A g \in Goroutines : g \in Owners /\ g \notin Rowsets
  BY DEF Owners
<1>1. ASSUME NEW g \in Goroutines, NEW c \in Calls, Call(g, c)
      PROVE  StatementShape'
  BY <1>1, <1>a DEF TypeOK, StatementShape, Call, GoTo
<1>2. ASSUME NEW g \in Goroutines, EnterCall(g)
      PROVE  StatementShape'
  BY <1>2, <1>a, Entry DEF TypeOK, StatementShape, NoCall
<1>3. ASSUME NEW g \in Goroutines, PrepareLocked(g)
      PROVE  StatementShape'
  <2>1. pc[g] \in Inside
    BY <1>3 DEF PrepareLocked, Inside, PCs
  <2>2. call[g].kind \in {"exec", "query"} /\ handle = "open"
        /\ (call[g].ctx # Autocommit => txn[call[g].ctx] = "active")
    BY <1>3, <1>a DEF PrepareLocked, CallShape, TxShape
  <2>3. CASE UNCHANGED stmt /\ GoTo(g, "errcode")
    BY <1>3, <1>a, <2>1, <2>3, OnlyOwnStatement
       DEF TypeOK, StatementShape, PrepareLocked, GoTo, Inside
  <2>4. ASSUME NEW k \in 0..MaxRows, GoTo(g, "bind"),
               stmt' = [stmt EXCEPT ![g] = [ctx |-> call[g].ctx, left |-> k]]
        PROVE  StatementShape'
    <3>1. stmt'[g] # None
      <4>1. [ctx |-> call[g].ctx, left |-> k] \in Statements
        BY CallFields, <1>a DEF TypeOK, Statements
      <4> QED BY <1>a, <1>b, <2>4, <4>1, NoneIsNoStatement DEF TypeOK
    <3>2. \A o \in Owners : o # g => stmt'[o] = stmt[o]
      BY <1>a, <2>4 DEF TypeOK
    <3>3. stmt'[g].ctx = call[g].ctx
      BY <1>a, <1>b, <2>4 DEF TypeOK
    <3>4. UNCHANGED <<rows, handle, txn, call>> /\ pc' = [pc EXCEPT ![g] = "bind"]
      BY <1>3, <2>4 DEF PrepareLocked, GoTo
    <3> QED BY <1>a, <1>b, <2>2, <3>1, <3>2, <3>3, <3>4
            DEF TypeOK, StatementShape, Owners
  <2> QED BY <1>3, <2>3, <2>4 DEF PrepareLocked
<1>4. ASSUME NEW g \in Goroutines,
             \/ BindFails(g) \/ BindExec(g) \/ StepDone(g) \/ StepFails(g) \/ ReadChanges(g)
      PROVE  StatementShape'
  <2>1. /\ UNCHANGED <<stmt, rows, handle, txn, call>>
        /\ \A h \in Goroutines : h # g => pc'[h] = pc[h]
        /\ pc[g] \in {"bind", "step", "changes"}
        /\ pc'[g] \in {"step", "changes", "return"}
        /\ pc'[g] = "step" => pc[g] = "bind"
    BY <1>4, <1>a DEF TypeOK, BindFails, BindExec, StepDone, StepFails, ReadChanges, GoTo
  <2> QED BY <1>a, <2>1 DEF StatementShape
<1>5. ASSUME NEW g \in Goroutines, StepRow(g)
      PROVE  StatementShape'
  <2>1. stmt[g] \in Statements
    BY <1>5, <1>a, <1>b DEF TypeOK, StatementShape, StepRow
  <2>2. stmt'[g] # None /\ stmt'[g].ctx = stmt[g].ctx
    <3>1. [stmt[g] EXCEPT !.left = @ - 1] \in Statements
      BY <1>5, <2>1, Bounds DEF Statements, StepRow
    <3>2. stmt'[g] = [stmt[g] EXCEPT !.left = @ - 1]
      BY <1>5, <1>a, <1>b DEF TypeOK, StepRow
    <3> QED BY <2>1, <3>1, <3>2, NoneIsNoStatement DEF Statements
  <2>3. \A o \in Owners : o # g => stmt'[o] = stmt[o]
    BY <1>5, <1>a DEF TypeOK, StepRow
  <2>4. UNCHANGED <<rows, handle, txn, call, pc>> /\ pc[g] = "step"
    BY <1>5 DEF StepRow
  <2> QED BY <1>a, <1>b, <2>2, <2>3, <2>4 DEF StatementShape, Owners
<1>6. ASSUME NEW g \in Goroutines,
             \/ ReadErrcode(g) \/ BeginTxn(g) \/ CommitTxn(g) \/ RollbackTxn(g)
             \/ CloseHandle(g) \/ ReadCatalog(g)
      PROVE  StatementShape'
  <2>1. /\ UNCHANGED <<stmt, rows, call>>
        /\ \A h \in Goroutines : h # g => pc'[h] = pc[h]
        /\ pc[g] \in Inside \ {"bind", "step", "changes", "return"}
        /\ pc'[g] \in {"errcode", "return"}
    BY <1>6, <1>a DEF TypeOK, ReadErrcode, BeginTxn, CommitTxn, RollbackTxn, EndTxn,
                      CloseHandle, ReadCatalog, GoTo, Inside, PCs
  <2>2. \A o \in Owners : stmt[o] = None
    BY <2>1, OnlyOwnStatement
  <2> QED BY <1>a, <1>b, <2>1, <2>2 DEF StatementShape, Owners
<1>7. ASSUME NEW g \in Goroutines, BindQuery(g)
      PROVE  StatementShape'
  <2> DEFINE r == call[g].obj
  <2>1. r \in Rowsets /\ r # g /\ r \in Owners
    BY <1>7, <1>a, <1>b, CallFields DEF TypeOK, BindQuery, Owners
  <2>2. stmt[g] # None /\ rows[r].st = "unborn"
    BY <1>7, <1>a DEF StatementShape, CallShape, BindQuery
  <2>3. /\ stmt'[g] = None /\ stmt'[r] = stmt[g]
        /\ \A o \in Owners : o # g /\ o # r => stmt'[o] = stmt[o]
    BY <1>7, <1>a, <1>b, <2>1 DEF TypeOK, BindQuery
  <2>4. /\ rows'[r].st = "open" /\ rows'[r].atRow = rows[r].atRow
        /\ \A q \in Rowsets : q # r => rows'[q] = rows[q]
    BY <1>7, <1>a, <2>1 DEF TypeOK, BindQuery, Cursors
  <2>5. /\ UNCHANGED <<handle, txn>>
        /\ pc' = [pc EXCEPT ![g] = "idle"]
        /\ call' = [call EXCEPT ![g] = NoCall]
    BY <1>7 DEF BindQuery, Leave, GoTo
  <2> QED BY <1>a, <1>b, <2>1, <2>2, <2>3, <2>4, <2>5
          DEF TypeOK, StatementShape, Owners, NoCall
<1>8. ASSUME NEW g \in Goroutines, Return(g)
      PROVE  StatementShape'
  <2>1. stmt'[g] = None /\ \A o \in Owners : o # g => stmt'[o] = stmt[o]
    BY <1>8, <1>a, <1>b DEF TypeOK, Return
  <2>2. /\ UNCHANGED <<handle, txn, rows>>
        /\ pc' = [pc EXCEPT ![g] = "idle"]
        /\ call' = [call EXCEPT ![g] = NoCall]
    BY <1>8 DEF Return, Leave, GoTo
  <2> QED BY <1>a, <1>b, <2>1, <2>2 DEF TypeOK, StatementShape, Owners
<1>9. ASSUME NEW g \in Goroutines, NEW r \in Rowsets, RowsNext(g, r) \/ RowsClose(g, r)
      PROVE  StatementShape'
  BY <1>9, <1>a DEF TypeOK, StatementShape, RowsNext, RowsClose, UseRows, GoTo
<1>11. ASSUME NEW g \in Goroutines,
              NextRow(g) \/ NextDone(g) \/ NextFails(g) \/ RowsFinalize(g)
       PROVE  StatementShape'
  <2> DEFINE r == call[g].obj
  <2>1. r \in Rowsets /\ r \in Owners
    BY <1>11, <1>a, RowsFrame DEF Owners
  <2>2. stmt[g] = None
    BY <1>11, <1>a DEF StatementShape, NextRow, NextDone, NextFails, RowsFinalize
  <2>3. rows[r].st = "open" /\ stmt[r] \in Statements
    BY <1>11, <1>a, <2>1
       DEF TypeOK, CallShape, StatementShape, NextRow, NextDone, NextFails, RowsFinalize
  <2>4. CASE NextRow(g)
    <3>1. [stmt[r] EXCEPT !.left = @ - 1] \in Statements
      BY <2>3, <2>4, Bounds DEF NextRow, Statements
    <3>2. stmt'[r] = [stmt[r] EXCEPT !.left = @ - 1]
      BY <1>a, <2>1, <2>4 DEF TypeOK, NextRow
    <3>3. stmt'[r] # None /\ stmt'[r].ctx = stmt[r].ctx
      BY <2>3, <3>1, <3>2, NoneIsNoStatement DEF Statements
    <3>4. \A o \in Owners : o # r => stmt'[o] = stmt[o]
      BY <1>a, <2>4 DEF TypeOK, NextRow
    <3>5. rows'[r].lastErr = "nil" /\ rows'[r].st = "open"
      <4>1. rows[r].lastErr = "nil"
        BY <1>a, <2>4 DEF Iteration, NextRow
      <4>2. rows[r] \in Cursors /\ DOMAIN rows = Rowsets
        BY <1>a, <2>1 DEF TypeOK
      <4>3. rows' = [rows EXCEPT ![r].atRow = TRUE]
        BY <2>4 DEF NextRow
      <4> QED BY <2>1, <2>3, <4>1, <4>2, <4>3 DEF Cursors
    <3>6. \A q \in Rowsets : q # r => rows'[q] = rows[q]
      BY <2>4, <1>a, RowsFrame
    <3>7. /\ UNCHANGED <<handle, txn>>
          /\ pc' = [pc EXCEPT ![g] = "idle"]
          /\ call' = [call EXCEPT ![g] = NoCall]
      BY <2>4 DEF NextRow, Leave, GoTo
    <3> QED BY <1>a, <1>b, <2>1, <2>2, <2>3, <3>3, <3>4, <3>5, <3>6, <3>7
            DEF TypeOK, StatementShape, Owners
  <2>5. CASE NextDone(g) \/ NextFails(g)
    <3>1. /\ UNCHANGED <<handle, txn, stmt, call>>
          /\ pc' = [pc EXCEPT ![g] = "rfinal"] /\ pc[g] = "rstep"
      BY <2>5 DEF NextDone, NextFails, GoTo
    <3>2. ~RowsFinalize(g)
      BY <3>1 DEF RowsFinalize
    <3>3. ~NextRow(g)
      <4>1. pc'[g] # "idle"
        BY <1>a, <3>1 DEF TypeOK
      <4> QED BY <1>a, <4>1 DEF TypeOK, NextRow, Leave, GoTo
    <3>4. /\ rows'[r].st = "open" /\ ~rows'[r].atRow
          /\ \A q \in Rowsets : q # r => rows'[q] = rows[q]
      BY <2>5, <1>a, <2>3, <3>2, <3>3, RowsFrame
    <3> QED BY <1>a, <1>b, <2>1, <2>2, <2>3, <3>1, <3>4
            DEF TypeOK, StatementShape, Owners
  <2>6. CASE RowsFinalize(g)
    <3>1. /\ UNCHANGED <<handle, txn, call>>
          /\ pc' = [pc EXCEPT ![g] = "runlock"]
          /\ stmt' = [stmt EXCEPT ![r] = None]
      BY <2>6 DEF RowsFinalize, GoTo
    <3>2. ~NextRow(g)
      BY <2>6 DEF NextRow, RowsFinalize
    <3>3. /\ rows'[r].st = "closed" /\ ~rows'[r].atRow
          /\ \A q \in Rowsets : q # r => rows'[q] = rows[q]
      BY <2>6, <1>a, <3>2, RowsFrame
    <3> QED BY <1>a, <1>b, <2>1, <2>2, <2>3, <3>1, <3>3
            DEF TypeOK, StatementShape, Owners
  <2> QED BY <1>11, <2>4, <2>5, <2>6
<1>12. ASSUME NEW g \in Goroutines, RowsUnlock(g)
      PROVE  StatementShape'
  BY <1>12, <1>a DEF TypeOK, StatementShape, RowsUnlock, Leave, GoTo
<1>10. CASE UNCHANGED vars
  BY <1>10, <1>a DEF StatementShape, vars
<1> QED
  BY <1>1, <1>2, <1>3, <1>4, <1>5, <1>6, <1>7, <1>8, <1>9, <1>10, <1>11, <1>12
     DEF Next, Proceed

(* What the entry of a method checked before it let the call in.           *)
LEMMA EntryGuards ==
  ASSUME TypeOK, NEW g \in Goroutines, EnterCall(g)
  PROVE  \/ /\ done' = done
            /\ pc'[g] \in {"idle", "prepare", "begin", "close", "catalog"}
            /\ pc'[g] # "idle" => handle = "open"
            /\ pc'[g] = "prepare" /\ call[g].ctx # Autocommit => ~done[call[g].ctx]
         \/ /\ call[g].ctx \in Txs /\ ~done[call[g].ctx]
            /\ done' = [done EXCEPT ![call[g].ctx] = TRUE]
            /\ pc'[g] \in {"commit", "rollback"} /\ call' = call /\ mu' = g
<1> USE DEF TypeOK, Acquire, Enter, Refuse, Leave, GoTo, objects
<1>1. CASE DatabaseExec(g) \/ DatabaseQuery(g) \/ BeginWithIsolation(g) \/ ListTables(g)
  BY <1>1 DEF DatabaseExec, DatabaseQuery, BeginWithIsolation, ListTables, IfOpen
<1>2. CASE TxExec(g) \/ TxQuery(g)
  BY <1>2 DEF TxExec, TxQuery, IfLive, IfOpen
<1>3. CASE DatabaseClose(g)
  BY <1>3 DEF DatabaseClose
<1>4. CASE Commit(g) \/ Rollback(g)
  BY <1>4, CallFields DEF Commit, Rollback
<1> QED BY <1>1, <1>2, <1>3, <1>4 DEF EnterCall

LEMMA TxShapeStep == IInv /\ [Next]_vars => TxShape'
<1> SUFFICES ASSUME IInv, [Next]_vars
             PROVE  TxShape'
  OBVIOUS
<1> USE Distinct DEF objects
<1>a. TypeOK /\ Ownership /\ CallShape /\ StatementShape /\ TxShape
  BY DEF IInv
<1>b. \A g \in Goroutines : call[g].ctx \in Contexts
  BY <1>a, CallFields DEF TypeOK
<1>1. ASSUME NEW g \in Goroutines, NEW c \in Calls, Call(g, c)
      PROVE  TxShape'
  BY <1>1, <1>a DEF TypeOK, TxShape, Call, GoTo
<1>2. ASSUME NEW g \in Goroutines, EnterCall(g)
      PROVE  TxShape'
  <2>1. \A h \in Goroutines : h # g => pc[h] \notin Inside
    BY <1>2, <1>a, Entry DEF Ownership
  <2>2. UNCHANGED <<txn, handle>> /\ \A h \in Goroutines : h # g => pc'[h] = pc[h]
    BY <1>2, <1>a, Entry
  <2>3. call' = call \/ (pc'[g] = "idle" /\ call' = [call EXCEPT ![g] = NoCall])
    BY <1>2, <1>a, Entry
  <2>4. CASE done' = done
    BY <1>2, <1>a, <1>b, <2>1, <2>2, <2>3, <2>4, EntryGuards
       DEF TypeOK, TxShape, NoCall, Contexts, Inside
  <2>5. CASE /\ call[g].ctx \in Txs /\ ~done[call[g].ctx]
             /\ done' = [done EXCEPT ![call[g].ctx] = TRUE]
             /\ pc'[g] \in {"commit", "rollback"} /\ call' = call
    <3>1. txn[call[g].ctx] = "active"
      BY <1>a, <2>5 DEF TypeOK, TxShape
    <3>2. \A h \in Goroutines : h # g =>
            pc'[h] \notin {"prepare", "bind", "begin", "close", "catalog", "commit", "rollback"}
      BY <2>1, <2>2 DEF Inside, PCs
    <3>3. done'[call[g].ctx] /\ \A t \in Txs : t # call[g].ctx => done'[t] = done[t]
      BY <1>a, <2>5 DEF TypeOK
    <3> QED BY <1>a, <1>b, <2>2, <2>5, <3>1, <3>2, <3>3 DEF TxShape, Contexts
  <2> QED BY <1>2, <1>a, <2>4, <2>5, EntryGuards
<1>3. ASSUME NEW g \in Goroutines, Stays(g)
      PROVE  TxShape'
  <2>1. UNCHANGED <<done, call>> /\ pc[g] \in Inside
        /\ \A h \in Goroutines : h # g => pc'[h] = pc[h]
    BY <1>3, <1>a, StayInside
  <2>2. \A h \in Goroutines : h # g => pc[h] \notin Inside
    BY <1>a, <2>1 DEF Ownership
  <2>3. /\ pc'[g] \in {"bind", "step", "changes", "errcode", "return"}
        /\ pc'[g] = "bind" => pc[g] = "prepare" /\ handle' = handle
        /\ ~PrepareLocked(g) => pc'[g] # "bind"
        /\ PrepareLocked(g) => txn' = txn
    <3> USE DEF TypeOK, GoTo
    <3>1. CASE PrepareLocked(g)
      BY <1>a, <3>1 DEF PrepareLocked
    <3>2. CASE BindFails(g) \/ BindExec(g) \/ StepDone(g) \/ StepFails(g)
      BY <1>a, <3>2 DEF PrepareLocked, BindFails, BindExec, StepDone, StepFails
    <3>3. CASE StepRow(g)
      BY <1>a, <3>3 DEF StepRow, PrepareLocked
    <3>4. CASE ReadChanges(g) \/ ReadErrcode(g) \/ CloseHandle(g) \/ ReadCatalog(g)
      BY <1>a, <3>4 DEF PrepareLocked, ReadChanges, ReadErrcode, CloseHandle, ReadCatalog
    <3>5. CASE BeginTxn(g) \/ CommitTxn(g) \/ RollbackTxn(g)
      BY <1>a, <3>5 DEF PrepareLocked, BeginTxn, CommitTxn, RollbackTxn, EndTxn
    <3> QED BY <1>3, <3>1, <3>2, <3>3, <3>4, <3>5 DEF Stays
  <2>4. \A h \in Goroutines : h # g =>
          pc'[h] \notin {"prepare", "bind", "begin", "close", "catalog", "commit", "rollback"}
    BY <2>1, <2>2 DEF Inside, PCs
  <2>5. ASSUME NEW t \in Txs
        PROVE  /\ txn'[t] = "ended" => done'[t]
               /\ txn'[t] = "none" => ~done'[t]
               /\ txn[t] # "none" => txn'[t] # "none"
    <3>1. CASE BeginTxn(g) /\ t = call[g].obj /\ txn'[t] = "active"
      BY <3>1
    <3>2. CASE (CommitTxn(g) \/ RollbackTxn(g)) /\ t = call[g].ctx /\ txn'[t] = "ended"
      <4>1. pc[g] \in {"commit", "rollback"}
        BY <3>2 DEF CommitTxn, RollbackTxn, EndTxn
      <4> QED BY <1>a, <2>1, <3>2, <4>1 DEF TxShape
    <3>3. CASE txn'[t] = txn[t]
      BY <1>a, <2>1, <3>3 DEF TxShape
    <3> QED BY <1>3, <1>a, <3>1, <3>2, <3>3, TxnFrame
  <2> QED BY <1>a, <1>b, <2>1, <2>2, <2>3, <2>4, <2>5 DEF TxShape, Contexts
<1>4. ASSUME NEW g \in Goroutines,
             BindQuery(g) \/ Return(g) \/ NextRow(g) \/ RowsUnlock(g)
      PROVE  TxShape'
  <2>1. /\ UNCHANGED <<handle, txn, done>>
        /\ pc' = [pc EXCEPT ![g] = "idle"]
        /\ call' = [call EXCEPT ![g] = NoCall]
    BY <1>4 DEF BindQuery, Return, NextRow, RowsUnlock, Leave, GoTo
  <2> QED BY <1>a, <2>1 DEF TypeOK, TxShape, NoCall
<1>5. ASSUME NEW g \in Goroutines, NEW r \in Rowsets, RowsNext(g, r) \/ RowsClose(g, r)
      PROVE  TxShape'
  BY <1>5, <1>a DEF TypeOK, TxShape, RowsNext, RowsClose, UseRows, GoTo
<1>6. ASSUME NEW g \in Goroutines, NextDone(g) \/ NextFails(g) \/ RowsFinalize(g)
      PROVE  TxShape'
  BY <1>6, <1>a DEF TypeOK, TxShape, NextDone, NextFails, RowsFinalize, GoTo
<1>7. CASE UNCHANGED vars
  BY <1>7, <1>a DEF TxShape, vars
<1> QED
  BY <1>1, <1>2, <1>3, <1>4, <1>5, <1>6, <1>7 DEF Next, Proceed, Stays

(* Only Call puts a new kind of call in flight, but for the calls on Rows. *)
LEMMA CallFrame ==
  ASSUME TypeOK, NEW g \in Goroutines,
         \/ EnterCall(g) \/ Proceed(g)
         \/ \E r \in Rowsets : RowsNext(g, r) \/ RowsClose(g, r)
  PROVE  \A h \in Goroutines : \/ call'[h] = call[h]
                               \/ call'[h].kind \in {"none", "next", "rclose"}
<1>1. CASE EnterCall(g)
  BY <1>1, Entry DEF TypeOK, NoCall
<1>2. CASE Stays(g)
  BY <1>2, StayInside
<1>3. CASE BindQuery(g) \/ Return(g) \/ NextRow(g) \/ RowsUnlock(g)
  BY <1>3 DEF TypeOK, BindQuery, Return, NextRow, RowsUnlock, Leave, NoCall
<1>4. CASE NextDone(g) \/ NextFails(g) \/ RowsFinalize(g)
  BY <1>4 DEF NextDone, NextFails, RowsFinalize
<1>5. ASSUME NEW r \in Rowsets, RowsNext(g, r) \/ RowsClose(g, r)
      PROVE  \A h \in Goroutines : \/ call'[h] = call[h]
                                   \/ call'[h].kind \in {"none", "next", "rclose"}
  BY <1>5 DEF TypeOK, RowsNext, RowsClose, UseRows
<1> QED BY <1>1, <1>2, <1>3, <1>4, <1>5 DEF Proceed, Stays

(* Who changes the handle and the transactions.                            *)
LEMMA HandleFrame ==
  ASSUME TypeOK, NEW g \in Goroutines,
         \/ EnterCall(g) \/ Proceed(g)
         \/ \E r \in Rowsets : RowsNext(g, r) \/ RowsClose(g, r)
  PROVE  /\ handle' = handle \/ CloseHandle(g)
         /\ txn' = txn \/ BeginTxn(g) \/ CommitTxn(g) \/ RollbackTxn(g)
<1> USE DEF objects
<1>1. CASE EnterCall(g)
  BY <1>1, Entry
<1>2. CASE PrepareLocked(g) \/ BindFails(g) \/ BindExec(g) \/ StepRow(g)
           \/ StepDone(g) \/ StepFails(g)
  BY <1>2 DEF PrepareLocked, BindFails, BindExec, StepRow, StepDone, StepFails
<1>3. CASE ReadChanges(g) \/ ReadErrcode(g) \/ ReadCatalog(g) \/ CloseHandle(g)
  BY <1>3 DEF ReadChanges, ReadErrcode, ReadCatalog, CloseHandle
<1>4. CASE BeginTxn(g) \/ CommitTxn(g) \/ RollbackTxn(g)
  BY <1>4 DEF BeginTxn, CommitTxn, RollbackTxn, EndTxn
<1>5. CASE BindQuery(g) \/ Return(g) \/ RowsUnlock(g)
  BY <1>5 DEF BindQuery, Return, RowsUnlock
<1>6. CASE NextRow(g) \/ NextDone(g) \/ NextFails(g) \/ RowsFinalize(g)
  BY <1>6 DEF NextRow, NextDone, NextFails, RowsFinalize
<1>7. ASSUME NEW r \in Rowsets, RowsNext(g, r) \/ RowsClose(g, r)
      PROVE  UNCHANGED <<handle, txn>>
  BY <1>7 DEF RowsNext, RowsClose, UseRows
<1> QED BY <1>1, <1>2, <1>3, <1>4, <1>5, <1>6, <1>7 DEF Proceed

LEMMA CloseShapeStep == IInv /\ [Next]_vars => CloseShape'
<1> SUFFICES ASSUME IInv, [Next]_vars, CloseDiscipline
             PROVE  CloseShape'
  BY DEF CloseShape
<1>a. TypeOK /\ Ownership /\ CallShape /\ TxShape /\ CloseShape
  BY DEF IInv
<1>1. ASSUME NEW g \in Goroutines, NEW c \in Calls, Call(g, c)
      PROVE  CloseShape'
  <2>1. /\ c.kind = "close" => /\ \A h \in Goroutines : call[h].kind # "begin"
                               /\ \A t \in Txs : txn[t] # "active"
        /\ c.kind = "begin" => \A h \in Goroutines : call[h].kind # "close"
    BY <1>1 DEF Call, Obeys, InFlight
  <2>2. call' = [call EXCEPT ![g] = c] /\ UNCHANGED <<handle, txn>>
    BY <1>1 DEF Call, objects
  <2>3. DOMAIN call = Goroutines
    BY <1>a DEF TypeOK
  <2> QED BY <1>a, <2>1, <2>2, <2>3 DEF CloseShape
<1>2. ASSUME NEW g \in Goroutines,
             \/ EnterCall(g) \/ Proceed(g)
             \/ \E r \in Rowsets : RowsNext(g, r) \/ RowsClose(g, r)
      PROVE  CloseShape'
  <2>1. \A h \in Goroutines : call'[h].kind \in {"close", "begin"} => call'[h] = call[h]
    BY <1>2, <1>a, CallFrame
  <2>2. \A h, k \in Goroutines : call'[h].kind = "close" => call'[k].kind # "begin"
    BY <1>a, <2>1 DEF CloseShape
  <2>3. CASE handle' = handle /\ txn' = txn
    BY <1>a, <2>1, <2>2, <2>3 DEF CloseShape
  <2>4. CASE CloseHandle(g)
    <3>1. call[g].kind = "close" /\ txn' = txn
      BY <1>a, <2>4 DEF CloseHandle, CallShape
    <3> QED BY <1>a, <2>2, <3>1 DEF CloseShape
  <2>5. CASE BeginTxn(g)
    <3>1. call[g].kind = "begin" /\ handle' = "open"
      BY <1>a, <2>5 DEF BeginTxn, CallShape, TxShape
    <3>2. \A h \in Goroutines : call'[h].kind # "close"
      BY <1>a, <2>1, <3>1 DEF CloseShape
    <3> QED BY <2>2, <3>1, <3>2 DEF CloseShape
  <2>6. CASE CommitTxn(g) \/ RollbackTxn(g)
    <3>1. handle' = handle /\ \A t \in Txs : txn'[t] = "active" => txn[t] = "active"
      BY <1>a, <2>6 DEF TypeOK, CommitTxn, RollbackTxn, EndTxn
    <3> QED BY <1>a, <2>1, <2>2, <3>1 DEF CloseShape
  <2> QED BY <1>2, <1>a, <2>3, <2>4, <2>5, <2>6, HandleFrame
<1>3. CASE UNCHANGED vars
  BY <1>3, <1>a DEF CloseShape, vars
<1> QED BY <1>1, <1>2, <1>3 DEF Next

(* Nobody else is inside while a goroutine is, or uses an open Rows.       *)
LEMMA AloneInside ==
  ASSUME IInv, NEW g \in Goroutines, pc[g] \in Inside \/ pc[g] \in OnRows,
         NEW h \in Goroutines, h # g
  PROVE  pc[h] \notin Inside /\ pc[h] \notin OnRows
<1>1. CASE pc[g] \in Inside
  <2>1. mu = g /\ g \notin Rowsets
    BY <1>1, Distinct DEF IInv, Ownership
  <2> QED BY <2>1 DEF IInv, Ownership
<1>2. CASE pc[g] \in OnRows
  <2>1. mu = call[g].obj /\ mu \in Rowsets /\ mu # None /\ mu # h
    BY <1>2, Distinct DEF IInv, Ownership
  <2>2. call[h].obj # mu
    BY <2>1 DEF IInv, Ownership
  <2> QED BY <2>1, <2>2 DEF IInv, Ownership
<1> QED BY <1>1, <1>2

LEMMA EndPendingStep == IInv /\ [Next]_vars => EndPending'
<1> SUFFICES ASSUME IInv, [Next]_vars, NEW t \in Txs, done'[t]
             PROVE  \/ txn'[t] = "ended"
                    \/ \E g \in Goroutines : /\ pc'[g] \in {"commit", "rollback"}
                                             /\ call'[g].ctx = t
  BY DEF EndPending
<1> USE DEF objects
<1>a. TypeOK /\ CallShape /\ TxShape /\ EndPending
  BY DEF IInv
<1>b. {"commit", "rollback"} \subseteq Inside
  BY DEF Inside, PCs
<1>1. ASSUME NEW g \in Goroutines, NEW c \in Calls, Call(g, c)
      PROVE  \/ txn'[t] = "ended"
             \/ \E h \in Goroutines : /\ pc'[h] \in {"commit", "rollback"}
                                      /\ call'[h].ctx = t
  <2>1. \A h \in Goroutines : pc[h] \in {"commit", "rollback"} =>
          pc'[h] = pc[h] /\ call'[h] = call[h]
    BY <1>1, <1>a DEF TypeOK, Call, GoTo
  <2> QED BY <1>1, <1>a, <2>1 DEF EndPending, Call
<1>2. ASSUME NEW g \in Goroutines, EnterCall(g)
      PROVE  \/ txn'[t] = "ended"
             \/ pc'[g] \in {"commit", "rollback"} /\ call'[g].ctx = t
  <2>1. \A h \in Goroutines : pc[h] \notin {"commit", "rollback"}
    BY <1>2, <1>a, <1>b, Entry, Distinct DEF IInv, Ownership
  <2>2. txn' = txn
    BY <1>2, <1>a, Entry
  <2>3. CASE done' = done
    BY <1>a, <2>1, <2>2, <2>3 DEF EndPending
  <2>4. CASE /\ call[g].ctx \in Txs
             /\ done' = [done EXCEPT ![call[g].ctx] = TRUE]
             /\ pc'[g] \in {"commit", "rollback"} /\ call' = call
    <3>1. t = call[g].ctx \/ done[t]
      BY <1>a, <2>4 DEF TypeOK
    <3> QED BY <1>a, <2>1, <2>2, <2>4, <3>1 DEF EndPending
  <2> QED BY <1>2, <1>a, <2>3, <2>4, EntryGuards
<1>3. ASSUME NEW g \in Goroutines, Stays(g)
      PROVE  txn'[t] = "ended"
  <2>1. done[t] /\ pc[g] \in Inside
    BY <1>3, <1>a, StayInside
  <2>2. txn[t] = "ended" \/ (pc[g] \in {"commit", "rollback"} /\ call[g].ctx = t)
    BY <1>a, <1>b, <2>1, AloneInside DEF EndPending
  <2>3. CASE pc[g] \in {"commit", "rollback"} /\ call[g].ctx = t
    <3>1. CommitTxn(g) \/ RollbackTxn(g)
      BY <1>3, <2>3 DEF Stays, PrepareLocked, BindFails, BindExec, StepRow, StepDone,
           StepFails, ReadChanges, ReadErrcode, BeginTxn, CloseHandle, ReadCatalog
    <3> QED BY <1>a, <2>3, <3>1 DEF TypeOK, CommitTxn, RollbackTxn, EndTxn
  <2>4. CASE txn[t] = "ended"
    <3>1. ~(BeginTxn(g) /\ t = call[g].obj)
      BY <1>a, <2>4 DEF CallShape, BeginTxn
    <3> QED BY <1>3, <1>a, <2>4, <3>1, TxnFrame
  <2> QED BY <2>2, <2>3, <2>4
<1>4. ASSUME NEW g \in Goroutines,
             BindQuery(g) \/ Return(g) \/ NextRow(g) \/ NextDone(g) \/ NextFails(g)
             \/ RowsFinalize(g) \/ RowsUnlock(g)
      PROVE  txn'[t] = "ended"
  <2>1. /\ UNCHANGED <<txn, done>>
        /\ pc[g] \in Inside \/ pc[g] \in OnRows
        /\ pc[g] \notin {"commit", "rollback"}
    BY <1>4 DEF BindQuery, Return, NextRow, NextDone, NextFails, RowsFinalize,
                RowsUnlock, Inside, OnRows, PCs
  <2> QED BY <1>a, <1>b, <2>1, AloneInside DEF EndPending
<1>5. ASSUME NEW g \in Goroutines, NEW r \in Rowsets, RowsNext(g, r) \/ RowsClose(g, r)
      PROVE  \/ txn'[t] = "ended"
             \/ \E h \in Goroutines : /\ pc'[h] \in {"commit", "rollback"}
                                      /\ call'[h].ctx = t
  <2>1. \A h \in Goroutines : pc[h] \in {"commit", "rollback"} =>
          pc'[h] = pc[h] /\ call'[h] = call[h]
    BY <1>5, <1>a DEF TypeOK, RowsNext, RowsClose, UseRows, GoTo
  <2>2. UNCHANGED <<txn, done>>
    BY <1>5 DEF RowsNext, RowsClose, UseRows
  <2> QED BY <1>a, <2>1, <2>2 DEF EndPending
<1>6. CASE UNCHANGED vars
  BY <1>6, <1>a DEF EndPending, vars
<1> QED
  BY <1>1, <1>2, <1>3, <1>4, <1>5, <1>6 DEF Next, Proceed, Stays

LEMMA RegistersStep == IInv /\ [Next]_vars => Registers'
<1> SUFFICES ASSUME IInv, [Next]_vars
             PROVE  Registers'
  OBVIOUS
<1> USE DEF objects, session
<1>a. TypeOK /\ CallShape /\ Registers
  BY DEF IInv
<1>b. {"changes", "errcode", "return"} \subseteq Inside
  BY DEF Inside, PCs
<1>c. \A code \in ErrCodes : KindOf(code) \in Kinds
  BY KindOfKinds, Bounds
<1>d. "nil" \notin Kinds /\ "ErrBind" \notin Kinds
  BY DEF Kinds
<1>1. ASSUME NEW g \in Goroutines, NEW c \in Calls, Call(g, c)
      PROVE  Registers'
  BY <1>1, <1>a DEF TypeOK, Registers, Call, GoTo
<1>2. ASSUME NEW g \in Goroutines, EnterCall(g)
      PROVE  Registers'
  <2>1. \A h \in Goroutines : h # g => pc[h] \notin Inside
    BY <1>2, <1>a, Entry, Distinct DEF IInv, Ownership
  <2>2. /\ \A h \in Goroutines : h # g => pc'[h] = pc[h]
        /\ pc'[g] \in {"idle", "prepare", "begin", "commit", "rollback", "close", "catalog"}
    BY <1>2, <1>a, Entry
  <2> QED BY <1>b, <2>1, <2>2 DEF Registers
<1>3. ASSUME NEW g \in Goroutines, Stays(g)
      PROVE  Registers'
  <2>1. \A h \in Goroutines : h # g => pc'[h] \notin Inside
    BY <1>3, <1>a, StayInside, AloneInside
  <2>2. /\ pc'[g] = "changes" => truth'[g].code = 0 /\ truth'[g].n = changes'
        /\ pc'[g] = "errcode" => truth'[g].code = errcode'
        /\ pc'[g] = "return" =>
             /\ result'[g].err \in Kinds => result'[g].err = KindOf(truth'[g].code)
             /\ call'[g].kind = "exec" /\ result'[g].err = "nil" => result'[g].n = truth'[g].n
    <3> USE DEF TypeOK, GoTo, Did, Faults, Returns
    <3>1. CASE PrepareLocked(g) \/ BindExec(g) \/ StepDone(g)
      BY <1>a, <3>1, Bounds DEF PrepareLocked, BindExec, StepDone
    <3>2. CASE BindFails(g)
      BY <1>a, <1>c, <1>d, <3>2 DEF BindFails
    <3>3. CASE StepRow(g)
      BY <1>a, <3>3 DEF StepRow
    <3>4. CASE StepFails(g)
      BY <1>a, <1>c, <1>d, <3>4 DEF StepFails
    <3>5. CASE ReadChanges(g) \/ ReadErrcode(g)
      BY <1>a, <1>d, <3>5, KindOfKinds, Bounds DEF ReadChanges, ReadErrcode, Registers
    <3>6. CASE CloseHandle(g)
      BY <1>a, <1>c, <1>d, <3>6 DEF CloseHandle, CallShape
    <3>9. CASE ReadCatalog(g)
      BY <1>a, <1>c, <1>d, <3>9 DEF ReadCatalog, CallShape
    <3>7. CASE BeginTxn(g)
      BY <1>a, <1>c, <1>d, <3>7 DEF BeginTxn, CallShape
    <3>8. CASE CommitTxn(g) \/ RollbackTxn(g)
      BY <1>a, <1>c, <1>d, <3>8 DEF CommitTxn, RollbackTxn, EndTxn, CallShape
    <3> QED BY <1>3, <3>1, <3>2, <3>3, <3>4, <3>5, <3>6, <3>7, <3>8, <3>9 DEF Stays
  <2> QED BY <1>b, <2>1, <2>2 DEF Registers
<1>4. ASSUME NEW g \in Goroutines,
             BindQuery(g) \/ Return(g) \/ NextRow(g) \/ NextDone(g) \/ NextFails(g)
             \/ RowsFinalize(g) \/ RowsUnlock(g)
      PROVE  Registers'
  <2>1. pc[g] \in Inside \/ pc[g] \in OnRows
    BY <1>4 DEF BindQuery, Return, NextRow, NextDone, NextFails, RowsFinalize,
                RowsUnlock, Inside, OnRows, PCs
  <2>2. GoTo(g, "idle") \/ GoTo(g, "rfinal") \/ GoTo(g, "runlock")
    BY <1>4 DEF BindQuery, Return, NextRow, NextDone, NextFails, RowsFinalize,
                RowsUnlock, Leave
  <2>3. /\ \A h \in Goroutines : h # g => pc'[h] = pc[h]
        /\ pc'[g] \in {"idle", "rfinal", "runlock"}
    BY <1>a, <2>2 DEF TypeOK, GoTo
  <2> QED BY <1>b, <2>1, <2>3, AloneInside DEF Registers
<1>5. ASSUME NEW g \in Goroutines, NEW r \in Rowsets, RowsNext(g, r) \/ RowsClose(g, r)
      PROVE  Registers'
  BY <1>5, <1>a DEF TypeOK, Registers, RowsNext, RowsClose, UseRows, GoTo
<1>6. CASE UNCHANGED vars
  BY <1>6, <1>a DEF Registers, vars
<1> QED
  BY <1>1, <1>2, <1>3, <1>4, <1>5, <1>6 DEF Next, Proceed, Stays

LEMMA IterationStep == IInv /\ [Next]_vars => Iteration'
<1> SUFFICES ASSUME IInv, [Next]_vars
             PROVE  Iteration'
  OBVIOUS
<1> USE DEF objects, session
<1>a. TypeOK /\ CallShape /\ StatementShape /\ Iteration
  BY DEF IInv
<1>b. {"rstep", "rfinal"} \subseteq OnRows
  BY DEF OnRows
<1>1. ASSUME NEW g \in Goroutines, NEW c \in Calls, Call(g, c)
      PROVE  Iteration'
  BY <1>1, <1>a DEF TypeOK, Iteration, Call, GoTo
<1>2. ASSUME NEW g \in Goroutines, EnterCall(g)
      PROVE  Iteration'
  BY <1>2, <1>a, Entry DEF TypeOK, Iteration, NoCall
<1>3. ASSUME NEW g \in Goroutines, Stays(g) \/ Return(g)
      PROVE  Iteration'
  <2>1. rows' = rows /\ pc[g] \in Inside
    BY <1>3, <1>a, StayInside DEF Return, Inside, PCs
  <2>2. pc'[g] \notin OnRows /\ \A h \in Goroutines : h # g => pc'[h] = pc[h]
    BY <1>3, <1>a, StayInside DEF TypeOK, Return, Leave, GoTo, Inside, OnRows, PCs
  <2> QED BY <1>a, <1>b, <2>1, <2>2, AloneInside DEF Iteration
<1>4. ASSUME NEW g \in Goroutines, BindQuery(g)
      PROVE  Iteration'
  <2>1. pc[g] \in Inside /\ GoTo(g, "idle")
    BY <1>4 DEF BindQuery, Leave, Inside, PCs
  <2>2. \A h \in Goroutines : pc'[h] \notin OnRows
    BY <1>a, <2>1, AloneInside DEF TypeOK, GoTo, OnRows
  <2>3. \A r \in Rowsets : rows'[r].lost = rows[r].lost /\ rows'[r].lastErr = rows[r].lastErr
    <3>1. call[g].obj \in Rowsets
      BY <1>4, <1>a, CallFields DEF TypeOK, BindQuery
    <3> QED BY <1>4, <1>a, <3>1 DEF TypeOK, BindQuery, Cursors
  <2> QED BY <1>a, <1>b, <2>2, <2>3 DEF Iteration
<1>5. ASSUME NEW g \in Goroutines, NEW r \in Rowsets, RowsNext(g, r) \/ RowsClose(g, r)
      PROVE  Iteration'
  BY <1>5, <1>a DEF TypeOK, Iteration, RowsNext, RowsClose, UseRows, GoTo
<1>6. ASSUME NEW g \in Goroutines,
             NextRow(g) \/ NextDone(g) \/ NextFails(g) \/ RowsFinalize(g)
      PROVE  Iteration'
  <2> DEFINE r == call[g].obj
  <2>1. /\ r \in Rowsets /\ r \in Owners
        /\ \A q \in Rowsets : q # r => rows'[q] = rows[q]
        /\ rows[r] \in Cursors /\ DOMAIN rows = Rowsets
    BY <1>6, <1>a, RowsFrame DEF Owners, TypeOK
  <2>2. \A h \in Goroutines : h # g => pc[h] \notin OnRows
    BY <1>6, AloneInside DEF NextRow, NextDone, NextFails, RowsFinalize, OnRows
  <2>3. CASE NextRow(g)
    <3>1. \A h \in Goroutines : pc'[h] \notin OnRows
      BY <1>a, <2>2, <2>3 DEF TypeOK, NextRow, Leave, GoTo, OnRows
    <3>2. rows'[r].lost = rows[r].lost /\ rows'[r].lastErr = rows[r].lastErr
      BY <2>1, <2>3 DEF NextRow, Cursors
    <3> QED BY <1>a, <1>b, <2>1, <3>1, <3>2 DEF Iteration
  <2>4. CASE NextDone(g)
    <3>1. \A h \in Goroutines : h # g => pc'[h] \notin OnRows
      BY <1>a, <2>2, <2>4 DEF TypeOK, NextDone, GoTo, OnRows
    <3>2. rows'[r].lost = rows[r].lost /\ rows'[r].lastErr = rows[r].lastErr
      BY <2>1, <2>4 DEF NextDone, Cursors
    <3>3. pc'[g] = "rfinal" /\ stmt'[r].left = 0 /\ call' = call
      BY <1>a, <2>4 DEF TypeOK, NextDone, GoTo
    <3> QED BY <1>a, <1>b, <2>1, <3>1, <3>2, <3>3 DEF Iteration
  <2>5. CASE NextFails(g)
    <3>1. \A h \in Goroutines : h # g => pc'[h] \notin OnRows
      BY <1>a, <2>2, <2>5 DEF TypeOK, NextFails, GoTo, OnRows
    <3>2. rows'[r].lastErr # "nil"
      <4>1. PICK e \in Kinds :
              rows' = [rows EXCEPT ![r].lastErr = e, ![r].atRow = FALSE]
        BY <2>5, KindOfKinds, Bounds DEF NextFails
      <4>2. rows'[r].lastErr = e
        BY <2>1, <4>1 DEF Cursors
      <4> QED BY <4>2 DEF Kinds
    <3>3. pc'[g] = "rfinal" /\ call' = call
      BY <1>a, <2>5 DEF TypeOK, NextFails, GoTo
    <3> QED BY <1>a, <1>b, <2>1, <3>1, <3>2, <3>3 DEF Iteration
  <2>6. CASE RowsFinalize(g)
    <3>1. \A h \in Goroutines : pc'[h] \notin {"rstep", "rfinal"}
      BY <1>a, <1>b, <2>2, <2>6 DEF TypeOK, RowsFinalize, GoTo
    <3>2. /\ rows'[r].lastErr = rows[r].lastErr
          /\ rows'[r].lost = IF call[g].kind = "next" THEN stmt[r].left ELSE 0
      BY <2>1, <2>6 DEF RowsFinalize, Cursors
    <3>3. rows'[r].lost > 0 => rows'[r].lastErr # "nil"
      <4>1. call[g].kind = "next" => stmt[r].left = 0 \/ rows[r].lastErr # "nil"
        BY <1>a, <2>6 DEF Iteration, RowsFinalize
      <4> QED BY <3>2, <4>1
    <3> QED BY <1>a, <2>1, <3>1, <3>3 DEF Iteration
  <2> QED BY <1>6, <2>3, <2>4, <2>5, <2>6
<1>7. ASSUME NEW g \in Goroutines, RowsUnlock(g)
      PROVE  Iteration'
  BY <1>7, <1>a DEF TypeOK, Iteration, RowsUnlock, Leave, GoTo
<1>8. CASE UNCHANGED vars
  BY <1>8, <1>a DEF Iteration, vars
<1> QED
  BY <1>1, <1>2, <1>3, <1>4, <1>5, <1>6, <1>7, <1>8 DEF Next, Proceed, Stays
-----------------------------------------------------------------------------
LEMMA InitInvariant == Init => IInv
<1> SUFFICES ASSUME Init
             PROVE  IInv
  OBVIOUS
<1>1. TypeOK
  BY Bounds DEF Init, TypeOK, NoCall, Calls, Contexts, PCs, NewRows, Kinds, Errors,
                Cursors, Effects, Outcomes
<1>2. Ownership /\ CallShape /\ StatementShape
  BY DEF Init, Ownership, CallShape, StatementShape, Inside, OnRows, PCs, NoCall,
         NewRows, Owners
<1>3. TxShape /\ EndPending /\ CloseShape /\ Registers /\ Iteration
  BY DEF Init, TxShape, EndPending, CloseShape, Registers, Iteration, NoCall, NewRows
<1> QED BY <1>1, <1>2, <1>3 DEF IInv

LEMMA StepInvariant == IInv /\ [Next]_vars => IInv'
BY TypeStep, OwnershipStep, CallShapeStep, StatementShapeStep, TxShapeStep,
   EndPendingStep, CloseShapeStep, RegistersStep, IterationStep DEF IInv

LEMMA Invariance == Spec => []IInv
BY InitInvariant, StepInvariant, PTL DEF Spec

(* The model is well typed: no call leaves a variable outside its range,   *)
(* in particular no step reads a statement that is not there.              *)
THEOREM TypeCorrect == Spec => []TypeOK
<1>1. IInv => TypeOK
  BY DEF IInv
<1> QED BY <1>1, Invariance, PTL

(* The mutex of Database, handed over to an open Rows, admits one caller   *)
(* at a time to the C handle.                                              *)
THEOREM MutualExclusion == Spec => []OneAtATime
<1>1. IInv => OneAtATime
  <2> SUFFICES ASSUME IInv
               PROVE  OneAtATime
    OBVIOUS
  <2>1. \A g, h \in Goroutines :
          pc[g] \in Inside \cup OnRows /\ pc[h] \in Inside \cup OnRows => g = h
    BY AloneInside
  <2>2. \A r \in Rowsets : rows[r].st = "open" =>
          mu = r /\ \A g \in Goroutines : pc[g] \notin Inside
    BY Distinct DEF IInv, Ownership
  <2> QED BY <2>1, <2>2 DEF OneAtATime
<1> QED BY <1>1, Invariance, PTL

(* No statement of Exec, Query or Rows outlives its handle or its Tx.      *)
THEOREM StatementsLive == Spec => []NoDanglingStatement
<1>1. IInv => NoDanglingStatement
  BY DEF IInv, StatementShape, NoDanglingStatement
<1> QED BY <1>1, Invariance, PTL

(* Every statement has an owner that will finalize it.                     *)
THEOREM StatementsOwned == Spec => []NoLeakedStatement
<1>1. IInv => NoLeakedStatement
  BY DEF IInv, StatementShape, NoLeakedStatement
<1> QED BY <1>1, Invariance, PTL

(* Counts and error kinds are those of the call that reports them.         *)
THEOREM OutcomesOwned == Spec => []OwnOutcome
<1>1. IInv => OwnOutcome
  BY DEF IInv, Registers, OwnOutcome
<1> QED BY <1>1, Invariance, PTL

(* A finished loop over Next without Err has seen all the rows.            *)
THEOREM IterationComplete == Spec => []NoSilentTruncation
<1>1. IInv => NoSilentTruncation
  BY DEF IInv, Iteration, NoSilentTruncation
<1> QED BY <1>1, Invariance, PTL

(* zeta_commit and zeta_rollback are entered once per Tx and, under        *)
(* CloseDiscipline, on an open handle.                                     *)
THEOREM EndsOnce == Spec => []TxEndsOnce
<1>1. IInv => TxEndsOnce
  <2> SUFFICES ASSUME IInv, NEW g \in Goroutines, pc[g] \in {"commit", "rollback"}
               PROVE  /\ txn[call[g].ctx] = "active"
                      /\ CloseDiscipline => handle = "open"
    BY DEF TxEndsOnce
  <2>1. call[g].ctx \in Txs
    BY CallFields DEF IInv, CallShape, TypeOK
  <2>2. txn[call[g].ctx] = "active"
    BY DEF IInv, TxShape
  <2> QED BY <2>1, <2>2 DEF IInv, CloseShape, TypeOK
<1> QED BY <1>1, Invariance, PTL

(* Nothing runs in a Tx that was committed or rolled back.                 *)
THEOREM EndedStaysEnded == Spec => NoWorkAfterEnd
<1>1. IInv /\ IInv' /\ [Next]_vars =>
        [\A t \in Txs : txn[t] = "ended" =>
           /\ txn'[t] = "ended"
           /\ \A o \in Owners : stmt'[o] # None => stmt'[o].ctx # t]_vars
  <2> SUFFICES ASSUME IInv, IInv', [Next]_vars, NEW t \in Txs, txn[t] = "ended"
               PROVE  /\ txn'[t] = "ended"
                      /\ \A o \in Owners : stmt'[o] # None => stmt'[o].ctx # t
    OBVIOUS
  <2>1. txn'[t] = "ended"
    <3>1. ASSUME NEW g \in Goroutines, NEW c \in Calls, Call(g, c)
          PROVE  txn' = txn
      BY <3>1 DEF Call, objects
    <3>2. ASSUME NEW g \in Goroutines,
                 \/ EnterCall(g) \/ Proceed(g)
                 \/ \E r \in Rowsets : RowsNext(g, r) \/ RowsClose(g, r)
          PROVE  txn'[t] = "ended"
      <4>1. CASE txn' = txn
        BY <4>1
      <4>2. CASE BeginTxn(g)
        <5>1. txn[call[g].obj] = "none"
          BY <4>2 DEF IInv, CallShape, BeginTxn
        <5> QED BY <4>2, <5>1 DEF IInv, TypeOK, BeginTxn
      <4>3. CASE CommitTxn(g) \/ RollbackTxn(g)
        BY <4>3 DEF IInv, TypeOK, CommitTxn, RollbackTxn, EndTxn
      <4> QED BY <3>2, <4>1, <4>2, <4>3, HandleFrame DEF IInv
    <3>3. CASE UNCHANGED vars
      BY <3>3 DEF vars
    <3> QED BY <3>1, <3>2, <3>3 DEF Next
  <2>2. ASSUME NEW o \in Owners, stmt'[o] # None
        PROVE  stmt'[o].ctx # t
    BY <2>1, <2>2, Distinct DEF IInv, StatementShape
  <2> QED BY <2>1, <2>2
<1> QED BY <1>1, Invariance, PTL DEF Spec, NoWorkAfterEnd
=============================================================================
