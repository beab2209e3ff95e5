------------------------------ MODULE Database ------------------------------
(***************************************************************************)
(* The native API of package embedded: one Database shared by goroutines,  *)
(* with its mutex, its C handle, its Tx and Rows objects and the C         *)
(* statements they hold (zeta.go, exec.go, query.go, txn.go, schema.go).   *)
(*                                                                         *)
(* A call is split at the points where another goroutine could act if the  *)
(* mutex were not held: the wait for the lock, every call into the C       *)
(* library, the reads of the handle's registers (zeta_changes,             *)
(* zeta_errcode) and the deferred finalize-and-unlock.  Query hands the    *)
(* lock over to the Rows it returns; Rows.Close releases it.               *)
(*                                                                         *)
(* The C library is external: each of its calls may succeed or fail with   *)
(* any code of ErrCodes.                                                   *)
(***************************************************************************)
EXTENDS ErrorKinds

CONSTANTS
  Goroutines,      \* goroutines sharing the Database
  Txs,             \* Tx objects that may be handed out, each once
  Rowsets,         \* Rows objects that may be handed out, each once
  None,            \* a free mutex, a missing statement, no object
  Autocommit,      \* the context of a statement outside any transaction
  MaxRows,         \* bound: rows one statement returns or changes
  ErrCodes,        \* codes the C library fails with
  RowsDiscipline,  \* no goroutine calls in while a Rows it opened is open
  CloseDiscipline  \* Close is not called while a Tx is open or being begun

ASSUME Distinct ==
  /\ Goroutines \cap Rowsets = {}
  /\ None \notin Goroutines \cup Rowsets \cup Txs
  /\ Autocommit \notin Txs

ASSUME Bounds == /\ MaxRows \in Nat
                 /\ ErrCodes \subseteq {c \in Int : c < 0}
                 /\ RowsDiscipline \in BOOLEAN /\ CloseDiscipline \in BOOLEAN

VARIABLES
  mu,       \* holder of Database.mu: a goroutine, an open Rows, or None
  handle,   \* Database.handle: "open" or "nil"
  txn,      \* the C transaction of each Tx: "none", "active" or "ended"
  done,     \* Tx.done
  rows,     \* the Rows objects
  stmt,     \* the live C statement of a goroutine's call or of a Rows
  pc,       \* where each goroutine stands
  call,     \* the call it is in: kind, context and object
  changes,  \* what zeta_changes(handle) returns
  errcode,  \* what zeta_errcode(handle) returns
  truth,    \* history: what the C library did for the latest call
  result    \* what the latest call returned to its caller

vars == <<mu, handle, txn, done, rows, stmt, pc, call,
          changes, errcode, truth, result>>
-----------------------------------------------------------------------------
Owners == Goroutines \cup Rowsets   \* what can hold a C statement
Contexts == Txs \cup {Autocommit}
NoCall == [kind |-> "none", ctx |-> Autocommit, obj |-> None]
Calls ==      [kind : {"exec"},  ctx : Contexts, obj : {None}]
         \cup [kind : {"query"}, ctx : Contexts, obj : Rowsets]
         \cup [kind : {"begin"}, ctx : {Autocommit},   obj : Txs]
         \cup [kind : {"commit", "rollback"}, ctx : Txs, obj : {None}]
         \cup [kind : {"close", "catalog"}, ctx : {Autocommit}, obj : {None}]
         \cup [kind : {"next", "rclose"}, ctx : {Autocommit}, obj : Rowsets]
         \cup {NoCall}

Statements == [ctx : Contexts, left : 0..MaxRows]
ASSUME NoneIsNoStatement == None \notin Statements

Cursors == [st : {"unborn", "open", "closed"}, by : Goroutines \cup {None},
            atRow : BOOLEAN, lastErr : Kinds \cup {"nil"}, lost : 0..MaxRows]
Effects == [code : ErrCodes \cup {0}, n : 0..MaxRows]
Errors == Kinds \cup {"nil", "ErrClosed", "ErrTxDone", "ErrBind"}
Outcomes == [err : Errors, n : 0..MaxRows]
PCs == {"idle", "lock", "prepare", "bind", "step", "changes", "begin",
        "commit", "rollback", "close", "catalog", "errcode", "return",
        "rstep", "rfinal", "runlock"}

(* The steps at which a goroutine is inside a call of the C library or     *)
(* between two of them, with the mutex taken by that call.                 *)
Inside == PCs \ {"idle", "lock", "rstep", "rfinal", "runlock"}
OnRows == {"rstep", "rfinal", "runlock"}

NewRows == [st |-> "unborn", by |-> None, atRow |-> FALSE,
            lastErr |-> "nil", lost |-> 0]

TypeOK ==
  /\ mu \in Owners \cup {None}
  /\ handle \in {"open", "nil"}
  /\ txn \in [Txs -> {"none", "active", "ended"}]
  /\ done \in [Txs -> BOOLEAN]
  /\ rows \in [Rowsets -> Cursors]
  /\ stmt \in [Owners -> Statements \cup {None}]
  /\ pc \in [Goroutines -> PCs]
  /\ call \in [Goroutines -> Calls]
  /\ changes \in 0..MaxRows
  /\ errcode \in ErrCodes \cup {0}
  /\ truth \in [Goroutines -> Effects]
  /\ result \in [Goroutines -> Outcomes]

Init ==
  /\ mu = None
  /\ handle = "open"
  /\ txn = [t \in Txs |-> "none"]
  /\ done = [t \in Txs |-> FALSE]
  /\ rows = [r \in Rowsets |-> NewRows]
  /\ stmt = [o \in Owners |-> None]
  /\ pc = [g \in Goroutines |-> "idle"]
  /\ call = [g \in Goroutines |-> NoCall]
  /\ changes = 0
  /\ errcode = 0
  /\ truth = [g \in Goroutines |-> [code |-> 0, n |-> 0]]
  /\ result = [g \in Goroutines |-> [err |-> "nil", n |-> 0]]
-----------------------------------------------------------------------------
(* Helpers.  Leave ends a call; its answer is in result.                   *)
GoTo(g, next) == pc' = [pc EXCEPT ![g] = next]
Leave(g) == GoTo(g, "idle") /\ call' = [call EXCEPT ![g] = NoCall]
Returns(g, err, n) == result' = [result EXCEPT ![g] = [err |-> err, n |-> n]]
Did(g, code, n) == truth' = [truth EXCEPT ![g] = [code |-> code, n |-> n]]

(* The engine fails the call of g: zeta_errcode now answers that code.     *)
Faults(g, code) == errcode' = code /\ Did(g, code, 0)

objects == <<handle, txn, done, rows>>
session == <<changes, errcode>>

(* The callers.  A goroutine calls any method of the Database and of the   *)
(* Tx and Rows objects that were handed out; the object a successful Begin *)
(* or Query will return is picked here.  A Rows is used by one goroutine   *)
(* at a time.                                                              *)
InFlight(kind) == \E g \in Goroutines : call[g].kind = kind
InUse(o) == \E g \in Goroutines : call[g].obj = o
Obeys(g, c) ==
  /\ RowsDiscipline =>
       \A r \in Rowsets : rows[r].st = "open" => rows[r].by # g
  /\ CloseDiscipline /\ c.kind = "close" =>
       ~InFlight("begin") /\ \A t \in Txs : txn[t] # "active"
  /\ CloseDiscipline /\ c.kind = "begin" => ~InFlight("close")

Call(g, c) ==
  /\ pc[g] = "idle"
  /\ c.kind \notin {"none", "next", "rclose"}
  /\ c.ctx # Autocommit => txn[c.ctx] # "none"
  /\ c.kind = "begin" => txn[c.obj] = "none" /\ ~InUse(c.obj)
  /\ c.kind = "query" => rows[c.obj].st = "unborn" /\ ~InUse(c.obj)
  /\ Obeys(g, c)
  /\ call' = [call EXCEPT ![g] = c]
  /\ GoTo(g, "lock")
  /\ UNCHANGED <<mu, objects, stmt, session, truth, result>>
-----------------------------------------------------------------------------
(* Entry of each method: take the mutex, then the early returns.           *)

(* Mutant: the method forgets to lock.                                     *)
AcquireUnlocked(g, kind) == pc[g] = "lock" /\ call[g].kind = kind

Acquire(g, kind) == pc[g] = "lock" /\ call[g].kind = kind /\ mu = None
Enter(g, next) == mu' = g /\ GoTo(g, next) /\ UNCHANGED <<call, result>>
Refuse(g, err) == Returns(g, err, 0) /\ Leave(g) /\ UNCHANGED mu

(* Mutant: the method does not look whether the Database is closed.        *)
IfOpenUnchecked(g, next) == Enter(g, next)

IfOpen(g, next) ==
  \/ handle = "nil" /\ Refuse(g, "ErrClosed")
  \/ handle = "open" /\ Enter(g, next)

(* Mutant: Exec and Query of a Tx do not look at done.                     *)
IfLiveUnchecked(g, next) == IfOpen(g, next)

IfLive(g, next) ==
  \/ done[call[g].ctx] /\ Refuse(g, "ErrTxDone")
  \/ ~done[call[g].ctx] /\ IfOpen(g, next)

DatabaseExec(g) ==
  /\ Acquire(g, "exec") /\ call[g].ctx = Autocommit
  /\ IfOpen(g, "prepare")
  /\ UNCHANGED <<objects, stmt, session, truth>>

DatabaseQuery(g) ==
  /\ Acquire(g, "query") /\ call[g].ctx = Autocommit
  /\ IfOpen(g, "prepare")
  /\ UNCHANGED <<objects, stmt, session, truth>>

TxExec(g) ==
  /\ Acquire(g, "exec") /\ call[g].ctx # Autocommit
  /\ IfLive(g, "prepare")
  /\ UNCHANGED <<objects, stmt, session, truth>>

TxQuery(g) ==
  /\ Acquire(g, "query") /\ call[g].ctx # Autocommit
  /\ IfLive(g, "prepare")
  /\ UNCHANGED <<objects, stmt, session, truth>>

BeginWithIsolation(g) ==
  /\ Acquire(g, "begin")
  /\ IfOpen(g, "begin")
  /\ UNCHANGED <<objects, stmt, session, truth>>

ListTables(g) ==
  /\ Acquire(g, "catalog")
  /\ IfOpen(g, "catalog")
  /\ UNCHANGED <<objects, stmt, session, truth>>

Commit(g) ==
  /\ Acquire(g, "commit")
  /\ \/ done[call[g].ctx] /\ Refuse(g, "ErrTxDone") /\ UNCHANGED done
     \/ /\ ~done[call[g].ctx]
        /\ done' = [done EXCEPT ![call[g].ctx] = TRUE]
        /\ Enter(g, "commit")
  /\ UNCHANGED <<handle, txn, rows, stmt, session, truth>>

(* Mutant: a rollback deferred after a commit is carried out.              *)
RollbackAgain(g) ==
  /\ Acquire(g, "rollback")
  /\ done' = [done EXCEPT ![call[g].ctx] = TRUE]
  /\ Enter(g, "rollback")
  /\ UNCHANGED <<handle, txn, rows, stmt, session, truth>>

Rollback(g) ==
  /\ Acquire(g, "rollback")
  /\ \/ done[call[g].ctx] /\ Refuse(g, "nil") /\ UNCHANGED done
     \/ /\ ~done[call[g].ctx]
        /\ done' = [done EXCEPT ![call[g].ctx] = TRUE]
        /\ Enter(g, "rollback")
  /\ UNCHANGED <<handle, txn, rows, stmt, session, truth>>

DatabaseClose(g) ==
  /\ Acquire(g, "close")
  /\ \/ handle = "nil" /\ Refuse(g, "nil")
     \/ handle = "open" /\ Enter(g, "close")
  /\ UNCHANGED <<objects, stmt, session, truth>>

EnterCall(g) == \/ DatabaseExec(g) \/ DatabaseQuery(g) \/ TxExec(g) \/ TxQuery(g)
                \/ BeginWithIsolation(g) \/ ListTables(g)
                \/ Commit(g) \/ Rollback(g) \/ DatabaseClose(g)
-----------------------------------------------------------------------------
(* A statement: prepare, bind, step, read the count.                       *)

(* Mutant: a failed prepare unlocks before the error kind is read.         *)
PrepareFailsUnlocked(g) ==
  /\ pc[g] = "prepare"
  /\ \/ /\ \E k \in 0..MaxRows :
             stmt' = [stmt EXCEPT ![g] = [ctx |-> call[g].ctx, left |-> k]]
        /\ GoTo(g, "bind")
        /\ UNCHANGED <<mu, errcode, truth>>
     \/ /\ \E code \in ErrCodes : Faults(g, code)
        /\ GoTo(g, "errcode")
        /\ mu' = None
        /\ UNCHANGED stmt
  /\ UNCHANGED <<objects, call, changes, result>>

PrepareLocked(g) ==
  /\ pc[g] = "prepare"
  /\ \/ /\ \E k \in 0..MaxRows :
             stmt' = [stmt EXCEPT ![g] = [ctx |-> call[g].ctx, left |-> k]]
        /\ GoTo(g, "bind")
        /\ UNCHANGED <<errcode, truth>>
     \/ /\ \E code \in ErrCodes : Faults(g, code)
        /\ GoTo(g, "errcode")
        /\ UNCHANGED stmt
  /\ UNCHANGED <<mu, objects, call, changes, result>>

(* A parameter of an unsupported type is refused on the Go side; any other *)
(* one may be refused by the C library.                                    *)
BindFails(g) ==
  /\ pc[g] = "bind"
  /\ \/ Returns(g, "ErrBind", 0) /\ UNCHANGED <<errcode, truth>>
     \/ \E code \in ErrCodes : Faults(g, code) /\ Returns(g, KindOf(code), 0)
  /\ GoTo(g, "return")
  /\ UNCHANGED <<mu, objects, stmt, call, changes>>

BindExec(g) ==
  /\ pc[g] = "bind" /\ call[g].kind = "exec"
  /\ GoTo(g, "step")
  /\ UNCHANGED <<mu, objects, stmt, call, session, truth, result>>

(* Mutant: Query unlocks on return, as Exec does.                          *)
BindQueryUnlocks(g) ==
  /\ pc[g] = "bind" /\ call[g].kind = "query"
  /\ LET r == call[g].obj IN
       /\ stmt' = [stmt EXCEPT ![g] = None, ![r] = stmt[g]]
       /\ rows' = [rows EXCEPT ![r].st = "open", ![r].by = g]
       /\ mu' = None
  /\ Returns(g, "nil", 0)
  /\ Leave(g)
  /\ UNCHANGED <<handle, txn, done, session, truth>>

(* Query returns a Rows that owns the statement and the locked mutex.      *)
BindQuery(g) ==
  /\ pc[g] = "bind" /\ call[g].kind = "query"
  /\ LET r == call[g].obj IN
       /\ stmt' = [stmt EXCEPT ![g] = None, ![r] = stmt[g]]
       /\ rows' = [rows EXCEPT ![r].st = "open", ![r].by = g]
       /\ mu' = r
  /\ Returns(g, "nil", 0)
  /\ Leave(g)
  /\ UNCHANGED <<handle, txn, done, session, truth>>

(* Mutant: the loop that drains rows steps past the last one.              *)
StepRowPastDone(g) ==
  /\ pc[g] = "step"
  /\ stmt' = [stmt EXCEPT ![g].left = @ - 1]
  /\ UNCHANGED <<mu, objects, pc, call, session, truth, result>>

(* Exec drains the rows a statement produces and stops at ZETA_DONE or at  *)
(* an error.                                                               *)
StepRow(g) ==
  /\ pc[g] = "step" /\ stmt[g].left > 0
  /\ stmt' = [stmt EXCEPT ![g].left = @ - 1]
  /\ UNCHANGED <<mu, objects, pc, call, session, truth, result>>

(* Mutant: Exec unlocks before it reads zeta_changes.                      *)
StepDoneUnlocks(g) ==
  /\ pc[g] = "step" /\ stmt[g].left = 0
  /\ changes' \in 0..MaxRows
  /\ Did(g, 0, changes')
  /\ GoTo(g, "changes")
  /\ mu' = None
  /\ UNCHANGED <<objects, stmt, call, errcode, result>>

StepDone(g) ==
  /\ pc[g] = "step" /\ stmt[g].left = 0
  /\ changes' \in 0..MaxRows
  /\ Did(g, 0, changes')
  /\ GoTo(g, "changes")
  /\ UNCHANGED <<mu, objects, stmt, call, errcode, result>>

(* Mutant: Exec prepares and runs a failed statement again, holding the    *)
(* mutex.                                                                  *)
StepFailsRetries(g) ==
  /\ pc[g] = "step"
  /\ \E code \in ErrCodes : Faults(g, code) /\ Returns(g, KindOf(code), 0)
  /\ GoTo(g, "prepare")
  /\ UNCHANGED <<mu, objects, stmt, call, changes>>

StepFails(g) ==
  /\ pc[g] = "step"
  /\ \E code \in ErrCodes : Faults(g, code) /\ Returns(g, KindOf(code), 0)
  /\ GoTo(g, "return")
  /\ UNCHANGED <<mu, objects, stmt, call, changes>>

ReadChanges(g) ==
  /\ pc[g] = "changes"
  /\ Returns(g, "nil", changes)
  /\ GoTo(g, "return")
  /\ UNCHANGED <<mu, objects, stmt, call, session, truth>>

(* A failed prepare or begin: the kind comes from the handle's register.   *)
ReadErrcode(g) ==
  /\ pc[g] = "errcode"
  /\ Returns(g, KindOf(errcode), 0)
  /\ GoTo(g, "return")
  /\ UNCHANGED <<mu, objects, stmt, call, session, truth>>

(* Mutant: no deferred finalize.                                           *)
ReturnLeaks(g) ==
  /\ pc[g] = "return"
  /\ mu' = None
  /\ Leave(g)
  /\ UNCHANGED <<objects, stmt, session, truth, result>>

(* The deferred calls: finalize the statement, then unlock.                *)
Return(g) ==
  /\ pc[g] = "return"
  /\ stmt' = [stmt EXCEPT ![g] = None]
  /\ mu' = None
  /\ Leave(g)
  /\ UNCHANGED <<objects, session, truth, result>>
-----------------------------------------------------------------------------
(* The calls that make one call of the C library.                          *)
BeginTxn(g) ==
  /\ pc[g] = "begin"
  /\ \/ /\ txn' = [txn EXCEPT ![call[g].obj] = "active"]
        /\ Returns(g, "nil", 0)
        /\ GoTo(g, "return")
        /\ UNCHANGED <<errcode, truth>>
     \/ /\ \E code \in ErrCodes : Faults(g, code)
        /\ GoTo(g, "errcode")
        /\ UNCHANGED <<txn, result>>
  /\ UNCHANGED <<mu, handle, done, rows, stmt, call, changes>>

(* Mutant: a failed commit or rollback leaves the transaction open.        *)
EndTxnIfOK(g, kind) ==
  /\ pc[g] = kind
  /\ \/ /\ txn' = [txn EXCEPT ![call[g].ctx] = "ended"]
        /\ Returns(g, "nil", 0)
        /\ UNCHANGED <<errcode, truth>>
     \/ /\ \E code \in ErrCodes : Faults(g, code) /\ Returns(g, KindOf(code), 0)
        /\ UNCHANGED txn
  /\ GoTo(g, "return")
  /\ UNCHANGED <<mu, handle, done, rows, stmt, call, changes>>

(* zeta_commit and zeta_rollback consume the handle, whatever they answer. *)
EndTxn(g, kind) ==
  /\ pc[g] = kind
  /\ txn' = [txn EXCEPT ![call[g].ctx] = "ended"]
  /\ \/ Returns(g, "nil", 0) /\ UNCHANGED <<errcode, truth>>
     \/ \E code \in ErrCodes : Faults(g, code) /\ Returns(g, KindOf(code), 0)
  /\ GoTo(g, "return")
  /\ UNCHANGED <<mu, handle, done, rows, stmt, call, changes>>

CommitTxn(g) == EndTxn(g, "commit")
RollbackTxn(g) == EndTxn(g, "rollback")

CloseHandle(g) ==
  /\ pc[g] = "close"
  /\ handle' = "nil"
  /\ Returns(g, "nil", 0)
  /\ GoTo(g, "return")
  /\ UNCHANGED <<mu, txn, done, rows, stmt, call, session, truth>>

ReadCatalog(g) ==
  /\ pc[g] = "catalog"
  /\ \/ Returns(g, "nil", 0) /\ UNCHANGED <<errcode, truth>>
     \/ \E code \in ErrCodes : Faults(g, code) /\ Returns(g, KindOf(code), 0)
  /\ GoTo(g, "return")
  /\ UNCHANGED <<mu, objects, stmt, call, changes>>
-----------------------------------------------------------------------------
(* Rows.  The mutex is already held, so neither method takes it.  Next and *)
(* Close on a closed Rows change nothing and are left out.                 *)
UseRows(g, r, kind, next) ==
  /\ pc[g] = "idle" /\ rows[r].st = "open" /\ ~InUse(r)
  /\ call' = [call EXCEPT ![g] = [kind |-> kind, ctx |-> Autocommit, obj |-> r]]
  /\ GoTo(g, next)
  /\ UNCHANGED <<mu, objects, stmt, session, truth, result>>

RowsNext(g, r) == rows[r].lastErr = "nil" /\ UseRows(g, r, "next", "rstep")
RowsClose(g, r) == UseRows(g, r, "rclose", "rfinal")

NextRow(g) ==
  /\ pc[g] = "rstep"
  /\ LET r == call[g].obj IN
       /\ stmt[r].left > 0
       /\ stmt' = [stmt EXCEPT ![r].left = @ - 1]
       /\ rows' = [rows EXCEPT ![r].atRow = TRUE]
  /\ changes' \in 0..MaxRows
  /\ Leave(g)
  /\ UNCHANGED <<mu, handle, txn, done, errcode, truth, result>>

NextDone(g) ==
  /\ pc[g] = "rstep"
  /\ LET r == call[g].obj IN
       /\ stmt[r].left = 0
       /\ rows' = [rows EXCEPT ![r].atRow = FALSE]
  /\ changes' \in 0..MaxRows
  /\ GoTo(g, "rfinal")
  /\ UNCHANGED <<mu, handle, txn, done, stmt, call, errcode, truth, result>>

(* Mutant: Next ends the iteration on a failed step without lastErr.       *)
NextFailsQuietly(g) ==
  /\ pc[g] = "rstep"
  /\ \E code \in ErrCodes : errcode' = code
  /\ rows' = [rows EXCEPT ![call[g].obj].atRow = FALSE]
  /\ GoTo(g, "rfinal")
  /\ UNCHANGED <<mu, handle, txn, done, stmt, call, changes, truth, result>>

NextFails(g) ==
  /\ pc[g] = "rstep"
  /\ \E code \in ErrCodes :
       /\ errcode' = code
       /\ rows' = [rows EXCEPT ![call[g].obj].lastErr = KindOf(code),
                               ![call[g].obj].atRow = FALSE]
  /\ GoTo(g, "rfinal")
  /\ UNCHANGED <<mu, handle, txn, done, stmt, call, changes, truth, result>>

(* Mutant: Rows.Close does not finalize the statement.                     *)
RowsCloseLeaks(g) ==
  /\ pc[g] = "rfinal"
  /\ LET r == call[g].obj IN
       rows' = [rows EXCEPT
                  ![r].st = "closed", ![r].atRow = FALSE,
                  ![r].lost = IF call[g].kind = "next" THEN stmt[r].left ELSE 0]
  /\ GoTo(g, "runlock")
  /\ UNCHANGED <<mu, handle, txn, done, stmt, call, session, truth, result>>

(* Rows.Close: finalize and mark closed, then unlock.  lost is a history   *)
(* variable: the rows a finished iteration did not deliver.                *)
RowsFinalize(g) ==
  /\ pc[g] = "rfinal"
  /\ LET r == call[g].obj IN
       /\ stmt' = [stmt EXCEPT ![r] = None]
       /\ rows' = [rows EXCEPT
                     ![r].st = "closed", ![r].atRow = FALSE,
                     ![r].lost = IF call[g].kind = "next" THEN stmt[r].left ELSE 0]
  /\ GoTo(g, "runlock")
  /\ UNCHANGED <<mu, handle, txn, done, call, session, truth, result>>

RowsUnlock(g) ==
  /\ pc[g] = "runlock"
  /\ mu' = None
  /\ Leave(g)
  /\ UNCHANGED <<objects, stmt, session, truth, result>>
-----------------------------------------------------------------------------
(* A goroutine inside a call.                                              *)
Proceed(g) ==
  \/ PrepareLocked(g) \/ BindFails(g) \/ BindExec(g) \/ BindQuery(g)
  \/ StepRow(g) \/ StepDone(g) \/ StepFails(g)
  \/ ReadChanges(g) \/ ReadErrcode(g) \/ Return(g)
  \/ BeginTxn(g) \/ CommitTxn(g) \/ RollbackTxn(g)
  \/ CloseHandle(g) \/ ReadCatalog(g)
  \/ NextRow(g) \/ NextDone(g) \/ NextFails(g)
  \/ RowsFinalize(g) \/ RowsUnlock(g)

Next == \E g \in Goroutines :
          \/ \E c \in Calls : Call(g, c)
          \/ EnterCall(g)
          \/ \E r \in Rowsets : RowsNext(g, r) \/ RowsClose(g, r)
          \/ Proceed(g)

Spec == Init /\ [][Next]_vars

(* A goroutine inside the C library comes back; sync.Mutex hands itself to *)
(* a starving waiter; a caller iterates or closes the Rows it was given.   *)
Fairness ==
  /\ \A g \in Goroutines : WF_vars(Proceed(g)) /\ SF_vars(EnterCall(g))
  /\ \A r \in Rowsets :
       WF_vars(\E g \in Goroutines : RowsNext(g, r) \/ RowsClose(g, r))

FairSpec == Spec /\ Fairness
-----------------------------------------------------------------------------
(* The C handle is entered by one caller at a time: no two goroutines are  *)
(* inside the C library, and while a Rows is open only its own Next and    *)
(* Close are.  (Database: "calls are executed one-at-a-time".)             *)
OneAtATime ==
  /\ \A g, h \in Goroutines :
       pc[g] \in Inside \cup OnRows /\ pc[h] \in Inside \cup OnRows => g = h
  /\ \A r \in Rowsets : rows[r].st = "open" =>
       /\ mu = r
       /\ \A g \in Goroutines : pc[g] \notin Inside

(* A C statement never outlives what it was prepared on: the handle is     *)
(* open and its transaction has not been committed or rolled back, so no   *)
(* step or finalize meets a freed handle; and the row that Scan and        *)
(* Columns read (atRow) is one of a live statement that has not failed.    *)
NoDanglingStatement ==
  /\ \A o \in Owners : stmt[o] # None =>
       /\ handle = "open"
       /\ stmt[o].ctx # Autocommit => txn[stmt[o].ctx] = "active"
  /\ \A r \in Rowsets : rows[r].atRow => stmt[r] # None /\ rows[r].lastErr = "nil"

(* No statement leaks: one is live only while the call that prepared it is *)
(* inside, or the Rows that owns it is open.                               *)
NoLeakedStatement ==
  /\ \A g \in Goroutines : stmt[g] # None => pc[g] \in {"bind", "step", "changes", "return"}
  /\ \A r \in Rowsets : stmt[r] # None <=> rows[r].st = "open"

(* Exec reports the count of its own statement, and a failed call reports  *)
(* the kind of its own failure: changes and errcode, which belong to the   *)
(* handle and not to the call, are read before anyone can overwrite them.  *)
OwnOutcome ==
  \A g \in Goroutines : pc[g] = "return" =>
    /\ result[g].err \in Kinds => result[g].err = KindOf(truth[g].code)
    /\ call[g].kind = "exec" /\ result[g].err = "nil" => result[g].n = truth[g].n

(* A loop over Next that ends without Err has delivered every row.         *)
NoSilentTruncation ==
  \A r \in Rowsets : rows[r].lost > 0 => rows[r].lastErr # "nil"

(* zeta_commit and zeta_rollback free the transaction: they are entered    *)
(* once per Tx and, if Close waits for the Tx, with the handle open.       *)
TxEndsOnce ==
  \A g \in Goroutines : pc[g] \in {"commit", "rollback"} =>
    /\ txn[call[g].ctx] = "active"
    /\ CloseDiscipline => handle = "open"

(* A finished Tx stays finished and no statement runs in it again, however *)
(* many Exec, Query, Commit and Rollback calls were waiting for the lock.  *)
NoWorkAfterEnd ==
  [][\A t \in Txs : txn[t] = "ended" =>
       /\ txn'[t] = "ended"
       /\ \A o \in Owners :
            stmt'[o] # None => stmt'[o].ctx # t]_vars

(* Every call returns, and every Rows is released.                         *)
CallsReturn == \A g \in Goroutines : pc[g] = "lock" ~> pc[g] = "idle"

(* README: "An open *Rows or *Tx holds the database mutex until closed /   *)
(* committed / rolled back."                                               *)
TxHoldsMutex == \A t \in Txs : txn[t] = "active" => mu # None

(* The mutexed implementation does what the one-at-a-time API promises.    *)
(* A call that has passed its C step but not yet read the register it will *)
(* report counts as told what that register holds.                         *)
Outcome(g) ==
  CASE pc[g] = "changes" -> [err |-> "nil", n |-> changes]
    [] pc[g] = "errcode" -> [err |-> KindOf(errcode), n |-> 0]
    [] OTHER -> result[g]

Serial == INSTANCE SerialDatabase WITH
            open <- handle = "open",
            status <- txn,
            cursor <- IF mu \in Rowsets THEN mu ELSE None,
            effect <- truth,
            outcome <- [g \in Goroutines |-> Outcome(g)]
SerialSpec == Serial!Spec
=============================================================================
