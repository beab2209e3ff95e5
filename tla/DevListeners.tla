---------------------------- MODULE DevListeners ----------------------------
(***************************************************************************)
(* The wire listeners for development (devlisten.go, build tag zeta_dev)   *)
(* on top of module Database: StartPgwireDev, StartMysqlwireDev and        *)
(* StopDevListeners are methods of the same Database, take its mutex and   *)
(* make one C call each, as ListTables does; here such a call also has a   *)
(* job and an effect on the listeners.                                     *)
(*                                                                         *)
(* The listeners and the sessions of their clients live in the C library   *)
(* and are external: a session comes and goes whenever its client likes,   *)
(* without the mutex.  zeta_stop_listeners stops the listeners and drains  *)
(* their sessions, and zeta_close does the same first.                     *)
(***************************************************************************)
EXTENDS Database

CONSTANTS
  Protocols,  \* what can be listened for: "pgwire", "mysqlwire"
  Sessions    \* bound: connections of psql and mysql clients at a time

ASSUME NamedProtocols == Protocols \cap {"stop", "catalog", "none"} = {}

VARIABLES
  job,        \* what the C call of a goroutine is, for a call of that shape
  listeners,  \* the protocols the C library listens for
  sessions    \* the sessions that are connected

net == <<listeners, sessions>>
devVars == <<vars, job, listeners, sessions>>
-----------------------------------------------------------------------------
Jobs == Protocols \cup {"stop", "catalog"}

DevTypeOK ==
  /\ TypeOK
  /\ job \in [Goroutines -> Jobs \cup {"none"}]
  /\ listeners \in SUBSET Protocols
  /\ sessions \in SUBSET Sessions

DevInit ==
  /\ Init
  /\ job = [g \in Goroutines |-> "none"]
  /\ listeners = {}
  /\ sessions = {}

(* A job lasts as long as its call.                                        *)
KeepJob(g) == job' = [job EXCEPT ![g] = IF pc'[g] = "idle" THEN "none" ELSE @]

DevCall(g, c, j) ==
  /\ Call(g, c)
  /\ j # "none" <=> c.kind = "catalog"
  /\ job' = [job EXCEPT ![g] = j]
  /\ UNCHANGED net

(* The lock, the check of the handle and the early return of every method. *)
DevEnter(g) == EnterCall(g) /\ KeepJob(g) /\ UNCHANGED net

(* Steps that do not touch the listeners.                                  *)
DevProceed(g) ==
  /\ Proceed(g)
  /\ pc[g] # "close" /\ (pc[g] = "catalog" => job[g] = "catalog")
  /\ KeepJob(g) /\ UNCHANGED net

DevRows(g) ==
  /\ \E r \in Rowsets : RowsNext(g, r) \/ RowsClose(g, r)
  /\ KeepJob(g) /\ UNCHANGED net
-----------------------------------------------------------------------------
(* zeta_start_pgwire, zeta_start_mysqlwire.                                *)
StartListener(g) ==
  /\ pc[g] = "catalog" /\ job[g] \in Protocols
  /\ ReadCatalog(g)
  /\ listeners' = IF result'[g].err = "nil" THEN listeners \cup {job[g]} ELSE listeners
  /\ KeepJob(g) /\ UNCHANGED sessions

Stopping(g) == pc[g] = "close" \/ (pc[g] = "catalog" /\ job[g] = "stop")

(* Mutant: the mutex is released while the sessions drain.                 *)
StopAcceptingUnlocks(g) ==
  /\ Stopping(g) /\ listeners # {}
  /\ listeners' = {} /\ mu' = None
  /\ UNCHANGED <<objects, stmt, pc, call, session, truth, result, job, sessions>>

(* First half of zeta_stop_listeners: no new sessions; they drain.         *)
StopAccepting(g) ==
  /\ Stopping(g) /\ listeners # {}
  /\ listeners' = {}
  /\ UNCHANGED <<vars, job, sessions>>

(* Mutant: StopDevListeners answers without waiting for the sessions.      *)
StopListenersUndrained(g) ==
  /\ pc[g] = "catalog" /\ job[g] = "stop"
  /\ ReadCatalog(g)
  /\ result'[g].err = "nil" => listeners = {}
  /\ KeepJob(g) /\ UNCHANGED net

(* Its second half, once they have ended; a failure may leave anything.    *)
StopListeners(g) ==
  /\ pc[g] = "catalog" /\ job[g] = "stop"
  /\ ReadCatalog(g)
  /\ result'[g].err = "nil" => listeners = {} /\ sessions = {}
  /\ KeepJob(g) /\ UNCHANGED net

(* zeta_close stops and drains, then frees the handle.                     *)
DevClose(g) ==
  /\ CloseHandle(g)
  /\ listeners = {} /\ sessions = {}
  /\ KeepJob(g) /\ UNCHANGED net

DevSteps(g) == \/ DevProceed(g) \/ StartListener(g)
               \/ StopAccepting(g) \/ StopListeners(g) \/ DevClose(g)
-----------------------------------------------------------------------------
(* The clients of the listeners.                                           *)
Connect(s) ==
  /\ s \notin sessions /\ listeners # {}
  /\ sessions' = sessions \cup {s}
  /\ UNCHANGED <<vars, job, listeners>>

Disconnect(s) ==
  /\ s \in sessions
  /\ sessions' = sessions \ {s}
  /\ UNCHANGED <<vars, job, listeners>>

DevNext ==
  \/ \E g \in Goroutines :
       \/ \E c \in Calls, j \in Jobs \cup {"none"} : DevCall(g, c, j)
       \/ DevEnter(g) \/ DevRows(g) \/ DevSteps(g)
  \/ \E s \in Sessions : Connect(s) \/ Disconnect(s)

DevSpec == DevInit /\ [][DevNext]_devVars

(* As in Database; and the library ends the sessions it is draining.       *)
Drained(s) == (\E g \in Goroutines : Stopping(g)) /\ Disconnect(s)
DevFairSpec ==
  /\ DevSpec
  /\ \A g \in Goroutines : WF_devVars(DevSteps(g)) /\ SF_devVars(DevEnter(g))
  /\ \A r \in Rowsets : WF_devVars(\E g \in Goroutines :
                          (RowsNext(g, r) \/ RowsClose(g, r)) /\ DevRows(g))
  /\ \A s \in Sessions : WF_devVars(Drained(s))
-----------------------------------------------------------------------------
(* "Auto-stopped when the Database is Closed": once Close has freed the    *)
(* handle nothing listens and no session is left, and no Start that was    *)
(* waiting for the mutex brings a listener back on the freed handle.       *)
NothingOutlivesHandle == handle = "nil" => listeners = {} /\ sessions = {}

(* "StopDevListeners stops and drains all wire-protocol listeners": when   *)
(* it answers without an error nothing listens and no session is left,     *)
(* whatever Starts were called meanwhile.                                  *)
StoppedWhenTold ==
  \A g \in Goroutines :
    pc[g] = "return" /\ job[g] = "stop" /\ result[g].err = "nil" =>
      listeners = {} /\ sessions = {}

(* A Database with listeners is still the Database of that module: what    *)
(* holds of every behaviour of it holds here too.                          *)
StillDatabase == Spec
=============================================================================
