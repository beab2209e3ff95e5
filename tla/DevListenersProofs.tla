------------------------- MODULE DevListenersProofs -------------------------
(***************************************************************************)
(* Proofs about DevListeners, for every set of goroutines, protocols and   *)
(* sessions: a Database with listeners is a Database, so the theorems of   *)
(* DatabaseProofs hold of it, and the listeners obey Stop and Close.       *)
(***************************************************************************)
EXTENDS DevListeners, DatabaseProofs
-----------------------------------------------------------------------------
(* A goroutine has a job exactly as long as it is in a call of that shape. *)
JobShape ==
  \A g \in Goroutines :
    /\ job[g] # "none" <=> call[g].kind = "catalog"
    /\ call[g].kind = "catalog" => pc[g] \in {"lock", "catalog", "return"}

JobTypeOK == job \in [Goroutines -> Jobs \cup {"none"}]

Net == /\ listeners \in SUBSET Protocols /\ sessions \in SUBSET Sessions
       /\ NothingOutlivesHandle /\ StoppedWhenTold

DevInv == IInv /\ JobTypeOK /\ JobShape /\ Net
-----------------------------------------------------------------------------
(* Every step is a step of Database or leaves its variables alone.         *)
LEMMA StepsOfDatabase == [DevNext]_devVars => [Next]_vars
<1> SUFFICES ASSUME [DevNext]_devVars
             PROVE  [Next]_vars
  OBVIOUS
<1>1. ASSUME NEW g \in Goroutines, NEW c \in Calls, NEW j, DevCall(g, c, j)
      PROVE  Next
  BY <1>1 DEF DevCall, Next
<1>2. ASSUME NEW g \in Goroutines, DevEnter(g) \/ DevRows(g)
      PROVE  Next
  BY <1>2 DEF DevEnter, DevRows, Next
<1>3. ASSUME NEW g \in Goroutines, DevSteps(g)
      PROVE  Next \/ UNCHANGED vars
  <2>1. CASE StopAccepting(g)
    BY <2>1 DEF StopAccepting
  <2>2. CASE ~StopAccepting(g)
    <3>1. Proceed(g)
      BY <1>3, <2>2 DEF DevSteps, DevProceed, StartListener, StopListeners, DevClose, Proceed
    <3> QED BY <3>1 DEF Next
  <2> QED BY <2>1, <2>2
<1>4. ASSUME NEW s \in Sessions, Connect(s) \/ Disconnect(s)
      PROVE  UNCHANGED vars
  BY <1>4 DEF Connect, Disconnect
<1>5. CASE UNCHANGED devVars
  BY <1>5 DEF devVars
<1> QED BY <1>1, <1>2, <1>3, <1>4, <1>5 DEF DevNext

(* The behaviours of a Database with listeners are behaviours of Database. *)
THEOREM StillADatabase == DevSpec => StillDatabase
<1>1. DevInit => Init
  BY DEF DevInit
<1> QED BY <1>1, StepsOfDatabase, PTL DEF DevSpec, Spec, StillDatabase
-----------------------------------------------------------------------------
(* A step of g leaves the calls of the others where they are, and takes a  *)
(* catalog call of g from its lock to its C call, its return, its end.     *)
LEMMA CallsOfOthers ==
  ASSUME IInv, NEW g \in Goroutines,
         \/ EnterCall(g) \/ Proceed(g)
         \/ \E r \in Rowsets : RowsNext(g, r) \/ RowsClose(g, r)
  PROVE  \A h \in Goroutines : h # g =>
           pc'[h] = pc[h] /\ call'[h] = call[h] /\ result'[h] = result[h]
<1> USE DEF IInv, TypeOK, GoTo, Leave, Returns
<1>1. CASE EnterCall(g)
  BY <1>1, Entry DEF EnterCall, DatabaseExec, DatabaseQuery, TxExec, TxQuery,
     BeginWithIsolation, ListTables, Commit, Rollback, DatabaseClose, IfLive, IfOpen,
     Enter, Refuse
<1>2. CASE PrepareLocked(g) \/ BindFails(g) \/ BindExec(g) \/ StepRow(g)
           \/ StepDone(g) \/ StepFails(g)
  BY <1>2 DEF PrepareLocked, BindFails, BindExec, StepRow, StepDone, StepFails
<1>3. CASE ReadChanges(g) \/ ReadErrcode(g) \/ ReadCatalog(g) \/ CloseHandle(g)
  BY <1>3 DEF ReadChanges, ReadErrcode, ReadCatalog, CloseHandle
<1>4. CASE BeginTxn(g) \/ CommitTxn(g) \/ RollbackTxn(g)
  BY <1>4 DEF BeginTxn, CommitTxn, RollbackTxn, EndTxn
<1>5. CASE BindQuery(g) \/ Return(g) \/ RowsUnlock(g)
  BY <1>5 DEF BindQuery, Return, RowsUnlock
<1>6. CASE NextRow(g) \/ NextDone(g) \/ NextFails(g) \/ RowsFinalize(g)
  BY <1>6 DEF NextRow, NextDone, NextFails, RowsFinalize
<1>7. ASSUME NEW r \in Rowsets, RowsNext(g, r) \/ RowsClose(g, r)
      PROVE  \A h \in Goroutines : h # g =>
               pc'[h] = pc[h] /\ call'[h] = call[h] /\ result'[h] = result[h]
  BY <1>7 DEF RowsNext, RowsClose, UseRows
<1> QED BY <1>1, <1>2, <1>3, <1>4, <1>5, <1>6, <1>7 DEF Proceed

LEMMA CatalogCall ==
  ASSUME IInv, JobShape, NEW g \in Goroutines, call[g].kind = "catalog",
         \/ EnterCall(g) \/ Proceed(g)
         \/ \E r \in Rowsets : RowsNext(g, r) \/ RowsClose(g, r)
  PROVE  \/ pc'[g] = "idle" /\ call'[g] = NoCall
         \/ /\ call'[g] = call[g]
            /\ pc[g] = "lock" /\ pc'[g] = "catalog"
         \/ /\ call'[g] = call[g] /\ ReadCatalog(g)
            /\ pc[g] = "catalog" /\ pc'[g] = "return"
<1> USE DEF IInv, TypeOK, GoTo, Leave
<1>1. pc[g] \in {"lock", "catalog", "return"}
  BY DEF JobShape
<1>2. CASE EnterCall(g)
  <2>1. ListTables(g)
    BY <1>2 DEF EnterCall, DatabaseExec, DatabaseQuery, TxExec, TxQuery,
       BeginWithIsolation, Commit, Rollback, DatabaseClose, Acquire
  <2> QED BY <2>1 DEF ListTables, Acquire, IfOpen, Enter, Refuse
<1>3. CASE Proceed(g)
  <2>1. ReadCatalog(g) \/ Return(g)
    BY <1>1, <1>3 DEF Proceed, PrepareLocked, BindFails, BindExec, BindQuery, StepRow,
       StepDone, StepFails, ReadChanges, ReadErrcode, BeginTxn, CommitTxn,
       RollbackTxn, EndTxn, CloseHandle, NextRow, NextDone, NextFails, RowsFinalize, RowsUnlock
  <2> QED BY <2>1 DEF ReadCatalog, Return
<1>4. ASSUME NEW r \in Rowsets, RowsNext(g, r) \/ RowsClose(g, r)
      PROVE  FALSE
  BY <1>1, <1>4 DEF RowsNext, RowsClose, UseRows
<1> QED BY <1>2, <1>3, <1>4

(* The steps that keep the job of their goroutine.                         *)
LEMMA KeepJobShape ==
  ASSUME DevInv, IInv', NEW g \in Goroutines, KeepJob(g),
         \/ EnterCall(g) \/ Proceed(g)
         \/ \E r \in Rowsets : RowsNext(g, r) \/ RowsClose(g, r)
  PROVE  JobTypeOK' /\ JobShape'
<1>1. JobTypeOK'
  BY DEF DevInv, JobTypeOK, KeepJob
<1>2. ASSUME NEW h \in Goroutines
      PROVE  /\ job'[h] # "none" <=> call'[h].kind = "catalog"
             /\ call'[h].kind = "catalog" => pc'[h] \in {"lock", "catalog", "return"}
  <2>1. CASE h # g
    BY <2>1, CallsOfOthers DEF DevInv, JobTypeOK, JobShape, KeepJob
  <2>2. CASE h = g /\ call[g].kind = "catalog"
    BY <2>2, CatalogCall DEF DevInv, JobTypeOK, JobShape, KeepJob, NoCall
  <2>3. CASE h = g /\ call[g].kind # "catalog"
    <3>1. call'[g].kind # "catalog"
      BY <2>3, CallFrame DEF DevInv, IInv
    <3> QED BY <2>3, <3>1 DEF DevInv, JobTypeOK, JobShape, KeepJob
  <2> QED BY <2>1, <2>2, <2>3
<1> QED BY <1>1, <1>2 DEF JobShape
-----------------------------------------------------------------------------
LEMMA JobStep == DevInv /\ IInv' /\ [DevNext]_devVars => JobTypeOK' /\ JobShape'
<1> SUFFICES ASSUME DevInv, IInv', [DevNext]_devVars
             PROVE  JobTypeOK' /\ JobShape'
  OBVIOUS
<1>1. ASSUME NEW g \in Goroutines, NEW c \in Calls, NEW j \in Jobs \cup {"none"},
             DevCall(g, c, j)
      PROVE  JobTypeOK' /\ JobShape'
  BY <1>1 DEF DevCall, Call, GoTo, DevInv, IInv, TypeOK, JobTypeOK, JobShape
<1>2. ASSUME NEW g \in Goroutines, DevEnter(g) \/ DevRows(g)
      PROVE  JobTypeOK' /\ JobShape'
  BY <1>2, KeepJobShape DEF DevEnter, DevRows
<1>3. ASSUME NEW g \in Goroutines, DevSteps(g), ~StopAccepting(g)
      PROVE  JobTypeOK' /\ JobShape'
  <2>1. Proceed(g) /\ KeepJob(g)
    BY <1>3 DEF DevSteps, DevProceed, StartListener, StopListeners, DevClose, Proceed
  <2> QED BY <2>1, KeepJobShape
<1>4. CASE UNCHANGED <<vars, job>>
  BY <1>4 DEF DevInv, JobTypeOK, JobShape, vars
<1>5. ASSUME NEW g \in Goroutines, StopAccepting(g)
      PROVE  UNCHANGED <<vars, job>>
  BY <1>5 DEF StopAccepting
<1>6. ASSUME NEW s \in Sessions, Connect(s) \/ Disconnect(s)
      PROVE  UNCHANGED <<vars, job>>
  BY <1>6 DEF Connect, Disconnect
<1>7. CASE UNCHANGED devVars
  BY <1>4, <1>7 DEF devVars
<1> QED BY <1>1, <1>2, <1>3, <1>4, <1>5, <1>6, <1>7 DEF DevNext

(* Listeners and sessions only appear while the handle is open and nobody  *)
(* is about to say that they are stopped.                                  *)
Quiet == listeners = {} /\ sessions = {}

LEMMA QuietStaysQuiet ==
  ASSUME DevInv, [DevNext]_devVars, Quiet,
         ~\E g \in Goroutines : StartListener(g)
  PROVE  Quiet'
<1>1. ASSUME NEW s \in Sessions, Connect(s) \/ Disconnect(s)
      PROVE  Quiet'
  BY <1>1 DEF Connect, Disconnect, Quiet
<1>2. ASSUME NEW g \in Goroutines, DevSteps(g)
      PROVE  Quiet'
  BY <1>2 DEF DevSteps, DevProceed, StopAccepting, StopListeners, DevClose, Quiet, net, Proceed
<1>3. ASSUME NEW g \in Goroutines, DevEnter(g) \/ DevRows(g)
      PROVE  Quiet'
  BY <1>3 DEF DevEnter, DevRows, net, Quiet
<1>4. ASSUME NEW g \in Goroutines, NEW c, NEW j, DevCall(g, c, j)
      PROVE  Quiet'
  BY <1>4 DEF DevCall, net, Quiet
<1>5. CASE UNCHANGED devVars
  BY <1>5 DEF devVars, Quiet
<1> QED BY <1>1, <1>2, <1>3, <1>4, <1>5 DEF DevNext

LEMMA NetTypes ==
  ASSUME Net, [DevNext]_devVars, JobTypeOK, IInv
  PROVE  listeners' \in SUBSET Protocols /\ sessions' \in SUBSET Sessions
<1> USE DEF Net
<1>1. ASSUME NEW s \in Sessions, Connect(s) \/ Disconnect(s)
      PROVE  listeners' \in SUBSET Protocols /\ sessions' \in SUBSET Sessions
  BY <1>1 DEF Connect, Disconnect
<1>2. ASSUME NEW g \in Goroutines, DevSteps(g)
      PROVE  listeners' \in SUBSET Protocols /\ sessions' \in SUBSET Sessions
  BY <1>2 DEF DevSteps, DevProceed, StartListener, StopAccepting, StopListeners, DevClose, net
<1>3. ASSUME NEW g \in Goroutines, DevEnter(g) \/ DevRows(g)
      PROVE  listeners' \in SUBSET Protocols /\ sessions' \in SUBSET Sessions
  BY <1>3 DEF DevEnter, DevRows, net
<1>4. ASSUME NEW g \in Goroutines, NEW c, NEW j, DevCall(g, c, j)
      PROVE  listeners' \in SUBSET Protocols /\ sessions' \in SUBSET Sessions
  BY <1>4 DEF DevCall, net
<1>5. CASE UNCHANGED devVars
  BY <1>5 DEF devVars
<1> QED BY <1>1, <1>2, <1>3, <1>4, <1>5 DEF DevNext

(* Close stops and drains before it frees the handle, and a Start that has *)
(* found the handle open has the mutex that Close needs.                   *)
LEMMA HandleStep ==
  ASSUME DevInv, IInv', [DevNext]_devVars
  PROVE  NothingOutlivesHandle'
<1> SUFFICES ASSUME handle' = "nil"
             PROVE  Quiet'
  BY DEF NothingOutlivesHandle, Quiet
<1>1. CASE handle = "nil"
  <2>1. Quiet
    BY <1>1 DEF DevInv, Net, NothingOutlivesHandle, Quiet
  <2>2. ~\E g \in Goroutines : StartListener(g)
    BY <1>1 DEF DevInv, IInv, TxShape, StartListener
  <2> QED BY <2>1, <2>2, QuietStaysQuiet
<1>2. CASE handle # "nil"
  <2>1. ASSUME NEW g \in Goroutines, DevSteps(g)
        PROVE  DevClose(g)
    <3>1. CASE DevProceed(g)
      BY <1>2, <3>1, HandleFrame DEF DevProceed, CloseHandle, DevInv, IInv
    <3>2. CASE StartListener(g) \/ StopListeners(g)
      BY <1>2, <3>2 DEF StartListener, StopListeners, ReadCatalog, objects
    <3>3. CASE StopAccepting(g)
      BY <1>2, <3>3 DEF StopAccepting, vars
    <3> QED BY <2>1, <3>1, <3>2, <3>3 DEF DevSteps
  <2>2. ASSUME NEW g \in Goroutines, DevClose(g)
        PROVE  Quiet'
    BY <2>2 DEF DevClose, net, Quiet
  <2>3. ASSUME NEW g \in Goroutines, DevEnter(g) \/ DevRows(g)
        PROVE  FALSE
    <3>1. CASE DevEnter(g)
      BY <1>2, <3>1, Entry DEF DevEnter, DevInv, IInv
    <3>2. CASE DevRows(g)
      BY <1>2, <3>2 DEF DevRows, RowsNext, RowsClose, UseRows, objects
    <3> QED BY <2>3, <3>1, <3>2
  <2>4. ASSUME NEW g \in Goroutines, NEW c \in Calls, NEW j, DevCall(g, c, j)
        PROVE  FALSE
    BY <1>2, <2>4 DEF DevCall, Call, objects
  <2>5. ASSUME NEW s \in Sessions, Connect(s) \/ Disconnect(s)
        PROVE  FALSE
    BY <1>2, <2>5 DEF Connect, Disconnect, vars
  <2>6. ~UNCHANGED devVars
    BY <1>2 DEF devVars, vars
  <2> QED BY <2>1, <2>2, <2>3, <2>4, <2>5, <2>6 DEF DevNext
<1> QED BY <1>1, <1>2

(* StopDevListeners drains with the mutex held: until it has returned no   *)
(* Start gets in.                                                          *)
LEMMA StopStep ==
  ASSUME DevInv, IInv', [DevNext]_devVars
  PROVE  StoppedWhenTold'
<1> SUFFICES ASSUME NEW h \in Goroutines, pc'[h] = "return", job'[h] = "stop",
                    result'[h].err = "nil"
             PROVE  Quiet'
  BY DEF StoppedWhenTold, Quiet
<1> DEFINE Told == pc[h] = "return" /\ job[h] = "stop" /\ result[h].err = "nil"
<1>1. ASSUME Told
      PROVE  Quiet'
  <2>1. Quiet
    BY <1>1 DEF DevInv, Net, StoppedWhenTold, Quiet
  <2>2. ~\E g \in Goroutines : StartListener(g)
    BY <1>1, AloneInside DEF DevInv, StartListener, Inside, PCs
  <2> QED BY <2>1, <2>2, QuietStaysQuiet
<1>2. ASSUME NEW g \in Goroutines, g # h, KeepJob(g),
             \/ EnterCall(g) \/ Proceed(g)
             \/ \E r \in Rowsets : RowsNext(g, r) \/ RowsClose(g, r)
      PROVE  Told
  BY <1>2, CallsOfOthers DEF DevInv, KeepJob, JobTypeOK
<1>3. ASSUME KeepJob(h), ~StopListeners(h),
             \/ DevEnter(h) \/ DevRows(h) \/ DevProceed(h)
             \/ StartListener(h) \/ DevClose(h)
      PROVE  FALSE
  <2>1. job[h] = "stop" /\ call[h].kind = "catalog"
    BY <1>3 DEF DevInv, JobShape, JobTypeOK, KeepJob
  <2>2. \/ EnterCall(h) \/ Proceed(h)
        \/ \E r \in Rowsets : RowsNext(h, r) \/ RowsClose(h, r)
    BY <1>3 DEF DevEnter, DevRows, DevProceed, StartListener, DevClose, Proceed
  <2>3. pc[h] = "catalog" /\ ReadCatalog(h)
    BY <2>1, <2>2, CatalogCall DEF DevInv
  <2>4. ~DevProceed(h) /\ ~StartListener(h) /\ ~DevClose(h)
    BY <2>1, <2>3, NamedProtocols DEF DevProceed, StartListener, DevClose, CloseHandle
  <2>5. ~DevEnter(h) /\ ~DevRows(h)
    BY <2>3, Entry DEF DevEnter, DevRows, RowsNext, RowsClose, UseRows, DevInv, IInv
  <2> QED BY <1>3, <2>4, <2>5
<1>4. ASSUME StopListeners(h)
      PROVE  Quiet'
  BY <1>4 DEF StopListeners, Quiet, net
<1>5. ASSUME NEW g \in Goroutines, NEW c \in Calls, NEW j, DevCall(g, c, j)
      PROVE  Told
  BY <1>5 DEF DevCall, Call, GoTo, DevInv, IInv, TypeOK, JobTypeOK, JobShape
<1>6. CASE UNCHANGED <<vars, job>>
  BY <1>1, <1>6 DEF vars
<1>7. ASSUME NEW g \in Goroutines, DevEnter(g) \/ DevRows(g) \/ DevSteps(g)
      PROVE  Quiet'
  <2>1. CASE StopAccepting(g)
    BY <1>6, <2>1 DEF StopAccepting
  <2>2. CASE ~StopAccepting(g) /\ g # h
    <3>1. KeepJob(g)
      BY <1>7, <2>2 DEF DevEnter, DevRows, DevSteps, DevProceed, StartListener,
         StopListeners, DevClose
    <3>2. \/ EnterCall(g) \/ Proceed(g)
          \/ \E r \in Rowsets : RowsNext(g, r) \/ RowsClose(g, r)
      BY <1>7, <2>2 DEF DevEnter, DevRows, DevSteps, DevProceed, StartListener,
         StopListeners, DevClose, Proceed
    <3> QED BY <1>1, <1>2, <2>2, <3>1, <3>2
  <2>3. CASE ~StopAccepting(g) /\ g = h
    <3>1. KeepJob(h)
      BY <1>7, <2>3 DEF DevEnter, DevRows, DevSteps, DevProceed, StartListener,
         StopListeners, DevClose
    <3> QED BY <1>3, <1>4, <1>7, <2>3, <3>1 DEF DevSteps
  <2> QED BY <2>1, <2>2, <2>3
<1>8. ASSUME NEW s \in Sessions, Connect(s) \/ Disconnect(s)
      PROVE  Quiet'
  BY <1>6, <1>8 DEF Connect, Disconnect
<1>9. CASE UNCHANGED devVars
  BY <1>6, <1>9 DEF devVars
<1> QED BY <1>1, <1>5, <1>7, <1>8, <1>9 DEF DevNext
-----------------------------------------------------------------------------
LEMMA DevInvariance == DevSpec => []DevInv
<1>1. DevInit => DevInv
  <2> SUFFICES ASSUME DevInit
               PROVE  DevInv
    OBVIOUS
  <2>1. IInv
    BY InitInvariant DEF DevInit
  <2>2. JobTypeOK /\ JobShape
    BY DEF DevInit, Init, JobTypeOK, JobShape, NoCall
  <2>3. Net
    BY DEF DevInit, Init, Net, NothingOutlivesHandle, StoppedWhenTold
  <2> QED BY <2>1, <2>2, <2>3 DEF DevInv
<1>2. DevInv /\ [DevNext]_devVars => DevInv'
  <2> SUFFICES ASSUME DevInv, [DevNext]_devVars
               PROVE  DevInv'
    OBVIOUS
  <2>1. IInv'
    BY StepsOfDatabase, StepInvariant DEF DevInv
  <2>2. JobTypeOK' /\ JobShape'
    BY <2>1, JobStep
  <2>3. Net'
    BY <2>1, NetTypes, HandleStep, StopStep DEF DevInv, Net
  <2> QED BY <2>1, <2>2, <2>3 DEF DevInv
<1> QED BY <1>1, <1>2, PTL DEF DevSpec

(* No call leaves a variable of the listeners outside its range.           *)
THEOREM DevTypeCorrect == DevSpec => []DevTypeOK
<1>1. DevInv => DevTypeOK
  BY DEF DevInv, IInv, JobTypeOK, Net, DevTypeOK
<1> QED BY <1>1, DevInvariance, PTL

(* When Close has freed the handle nothing listens, no session is left,    *)
(* and no later Start changes that.                                        *)
THEOREM ListenersDieWithHandle == DevSpec => []NothingOutlivesHandle
<1>1. DevInv => NothingOutlivesHandle
  BY DEF DevInv, Net
<1> QED BY <1>1, DevInvariance, PTL

(* When StopDevListeners answers without an error nothing listens.         *)
THEOREM StopMeansStopped == DevSpec => []StoppedWhenTold
<1>1. DevInv => StoppedWhenTold
  BY DEF DevInv, Net
<1> QED BY <1>1, DevInvariance, PTL

(* A Start or Stop shares the C handle with nobody: calls on a Database    *)
(* with listeners still are made one at a time.                            *)
THEOREM DevMutualExclusion == DevSpec => []OneAtATime
BY StillADatabase, MutualExclusion, PTL DEF StillDatabase
=============================================================================
