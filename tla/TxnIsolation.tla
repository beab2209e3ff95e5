---------------------------- MODULE TxnIsolation ----------------------------
(***************************************************************************)
(* Transactions of several clients on one database, at the levels the two  *)
(* APIs offer: BeginWithIsolation and Tx of the native API (txn.go),       *)
(* BeginTx and tx of the database/sql driver (driver.go).  Each client     *)
(* runs the idiom the repository documents: begin, read, write, commit,    *)
(* the rollback deferred, and the whole transaction again when the error   *)
(* is of kind ErrConflict.                                                 *)
(*                                                                         *)
(* A call is one step: calls on a Database are made one at a time (module  *)
(* Database) and the clients of the driver have a connection each.         *)
(*                                                                         *)
(* The engine is external: a transaction reads the snapshot it began with, *)
(* of two concurrent writers of a row one fails, at its write or at its    *)
(* commit, and serializable transactions that would close a cycle of       *)
(* dependencies fail at the commit.  Its conflict detection is coarse: a   *)
(* serializable commit may fail whenever a concurrent transaction has      *)
(* committed.  Any call may fail for a reason of its own.                  *)
(***************************************************************************)
EXTENDS ErrorKinds, FiniteSets

CONSTANTS
  Clients,   \* each runs one transaction, as often as it takes
  Flags,     \* rows that hold 1 until a client clears one
  Counter,   \* a row that clients add one to
  Asked      \* the levels clients ask for, each with its API

ASSUME Rows == Counter \notin Flags /\ IsFiniteSet(Clients) /\ IsFiniteSet(Flags)

VARIABLES
  store,   \* the committed value of each row
  clock,   \* how many transactions have committed
  role,    \* what each client is there to do
  asked,   \* the API and level it asks for
  pc,      \* where it stands
  txn,     \* its C transaction, or NoTxn
  conn,    \* driver: conn.txn is not nil
  code,    \* what the C library answered last; NoCode before that
  told,    \* how its transaction ended, as the client knows it
  log      \* history: the transactions that have been applied

vars == <<store, clock, role, asked, pc, txn, conn, code, told, log>>
-----------------------------------------------------------------------------
Items == Flags \cup {Counter}
Conflict == -4
OtherCodes == {-6}      \* bound: one failure that is not a conflict
Initially == [i \in Items |-> IF i = Counter THEN 0 ELSE 1]
Values == 0..(1 + Cardinality(Clients))
Roles == [does : {"clear"}, item : Flags] \cup [does : {"bump"}, item : {Counter}]

(* reads: the rows read; writes: the new values of the rows written.       *)
Txns == [level : {"snapshot", "serializable"}, from : 0..Cardinality(Clients),
         sees : [Items -> Values], reads : SUBSET Items,
         writes : UNION {[S -> Values] : S \in SUBSET Items}]
NoTxn == [level |-> "none"]
NoWrites == [i \in {} |-> 0]
NotApplied == [at |-> 0]

TypeOK ==
  /\ store \in [Items -> Values]
  /\ clock \in 0..Cardinality(Clients)
  /\ role \in [Clients -> Roles]
  /\ asked \in [Clients -> Asked]
  /\ pc \in [Clients -> {"begin", "read", "write", "commit", "rollback", "done"}]
  /\ \A c \in Clients : txn[c] = NoTxn \/ txn[c] \in Txns
  /\ conn \in [Clients -> BOOLEAN]
  /\ code \in [Clients -> {0, Conflict} \cup OtherCodes]
  /\ told \in [Clients -> {"nothing", "ok", "refused", "nested"} \cup Kinds]
  /\ \A c \in Clients : log[c] = NotApplied \/ log[c].at \in 1..clock

Init ==
  /\ store = Initially
  /\ clock = 0
  /\ role \in [Clients -> Roles]
  /\ asked \in [Clients -> Asked]
  /\ pc = [c \in Clients |-> "begin"]
  /\ txn = [c \in Clients |-> NoTxn]
  /\ conn = [c \in Clients |-> FALSE]
  /\ code = [c \in Clients |-> 0]
  /\ told = [c \in Clients |-> "nothing"]
  /\ log = [c \in Clients |-> NotApplied]
-----------------------------------------------------------------------------
(* Mutants: serializable is run as every other level; a level that has no  *)
(* case is passed on as it is.                                             *)
DriverLevelWeak(level) ==
  IF level = "Linearizable" THEN "refused" ELSE "snapshot"
DriverLevelUnmapped(level) ==
  CASE level \in {"Default", "ReadUncommitted", "ReadCommitted", "WriteCommitted",
                  "RepeatableRead", "Snapshot"} -> "snapshot"
    [] level = "Serializable" -> "serializable"
    [] OTHER -> level

(* BeginTx maps the levels of database/sql onto the two of the engine.     *)
DriverLevel(level) ==
  CASE level \in {"Default", "ReadUncommitted", "ReadCommitted", "WriteCommitted",
                  "RepeatableRead", "Snapshot"} -> "snapshot"
    [] level = "Serializable" -> "serializable"
    [] OTHER -> "refused"

(* zeta_begin_isolation refuses a level it does not know.                  *)
EngineLevel(level) ==
  IF level \in {"snapshot", "serializable"} THEN level ELSE "refused"

Level(c) == IF asked[c].api = "driver" THEN DriverLevel(asked[c].level)
                                       ELSE EngineLevel(asked[c].level)
-----------------------------------------------------------------------------
(* The engine: who was concurrent, and what a commit must or may answer.   *)
Applied(d) == log[d] # NotApplied
Running(d) == txn[d] # NoTxn
Written(t) == DOMAIN t.writes
AppliedSince(c, d) == Applied(d) /\ log[d].at > txn[c].from

WriteConflict(c) ==
  \E d \in Clients \ {c} :
    AppliedSince(c, d) /\ Written(log[d]) \cap Written(txn[c]) # {}

(* a must come before b in every serial order that explains both.          *)
Precedes(a, b) ==
  \/ a.at <= b.from /\ Written(a) \cap (b.reads \cup Written(b)) # {}
  \/ b.at > a.from /\ a.reads \cap Written(b) # {}

(* c as the next transaction to be applied.                                *)
Entry(c) == [at |-> clock + 1, from |-> txn[c].from, level |-> txn[c].level,
             reads |-> txn[c].reads, writes |-> txn[c].writes]

(* c would come before itself: it is in every set of serializable          *)
(* transactions that holds what c precedes and whatever a member precedes. *)
ClosesCycle(c) ==
  LET S == {d \in Clients : Applied(d) /\ log[d].level = "serializable"} \cup {c}
      T(d) == IF d = c THEN Entry(c) ELSE log[d]
      After(a) == {b \in S : a # b /\ Precedes(T(a), T(b))}
  IN /\ txn[c].level = "serializable"
     /\ \A A \in SUBSET S : After(c) \subseteq A /\ (\A a \in A : After(a) \subseteq A) => c \in A

MustFail(c) == WriteConflict(c) \/ ClosesCycle(c)
MayFail(c) == txn[c].level = "serializable" /\ \E d \in Clients \ {c} : AppliedSince(c, d)

(* The writes of c take effect.                                            *)
Apply(c) ==
  /\ clock' = clock + 1
  /\ store' = [i \in Items |-> IF i \in Written(txn[c]) THEN txn[c].writes[i] ELSE store[i]]
  /\ log' = [log EXCEPT ![c] = Entry(c)]
-----------------------------------------------------------------------------
GoTo(c, next) == pc' = [pc EXCEPT ![c] = next]
Answers(c, rc) == code' = [code EXCEPT ![c] = rc]
Tells(c, what) == told' = [told EXCEPT ![c] = what]
fixed == <<role, asked>>

(* BeginWithIsolation; BeginTx and beginTx.  A connection with a           *)
(* transaction open refuses another one.                                   *)
Begin(c) ==
  /\ pc[c] = "begin"
  /\ \/ /\ asked[c].api = "driver" /\ Level(c) # "refused" /\ conn[c]
        /\ Tells(c, "nested") /\ GoTo(c, "done")
        /\ UNCHANGED <<txn, conn, code>>
     \/ /\ Level(c) = "refused"
        /\ Tells(c, "refused") /\ GoTo(c, "done")
        /\ UNCHANGED <<txn, conn, code>>
     \/ /\ Level(c) # "refused" /\ ~conn[c]
        /\ \/ /\ txn' = [txn EXCEPT ![c] =
                  [level |-> Level(c), from |-> clock, sees |-> store,
                   reads |-> {}, writes |-> NoWrites]]
              /\ conn' = [conn EXCEPT ![c] = asked[c].api = "driver"]
              /\ Answers(c, 0) /\ GoTo(c, "read")
              /\ UNCHANGED told
           \/ /\ \E rc \in OtherCodes : Answers(c, rc) /\ Tells(c, KindOf(rc))
              /\ GoTo(c, "done")
              /\ UNCHANGED <<txn, conn>>
  /\ UNCHANGED <<store, clock, fixed, log>>

(* A statement fails: the client leaves through its deferred Rollback.     *)
StatementFails(c, rcs) ==
  /\ \E rc \in rcs : Answers(c, rc)
  /\ GoTo(c, "rollback")
  /\ UNCHANGED txn

(* What the client reads, and whether it then writes: a flag is cleared    *)
(* only while another one is still set.                                    *)
ReadSet(c) == IF role[c].does = "clear" THEN Flags ELSE {Counter}
Writes(c, sees) ==
  role[c].does = "clear" => \E f \in Flags \ {role[c].item} : sees[f] = 1
Update(c, sees) ==
  [i \in {role[c].item} |-> IF role[c].does = "clear" THEN 0 ELSE sees[Counter] + 1]

Read(c) ==
  /\ pc[c] = "read"
  /\ \/ /\ txn' = [txn EXCEPT ![c].reads = ReadSet(c)]
        /\ GoTo(c, IF Writes(c, txn[c].sees) THEN "write" ELSE "commit")
        /\ Answers(c, 0)
     \/ StatementFails(c, OtherCodes)
  /\ UNCHANGED <<store, clock, fixed, conn, told, log>>

(* Of two concurrent writers of a row, the later may learn of the conflict *)
(* at once.                                                                *)
Write(c) ==
  /\ pc[c] = "write"
  /\ \/ /\ txn' = [txn EXCEPT ![c].writes = Update(c, txn[c].sees)]
        /\ GoTo(c, "commit")
        /\ Answers(c, 0)
     \/ /\ \E d \in Clients \ {c} :
             \/ AppliedSince(c, d) /\ role[c].item \in Written(log[d])
             \/ Running(d) /\ role[c].item \in Written(txn[d])
        /\ StatementFails(c, {Conflict})
     \/ StatementFails(c, OtherCodes)
  /\ UNCHANGED <<store, clock, fixed, conn, told, log>>

(* Mutant: conn.txn is cleared only by a commit that succeeds.             *)
CommitKeepsTxn(c) ==
  /\ pc[c] = "commit"
  /\ \/ ~MustFail(c) /\ Answers(c, 0) /\ Apply(c) /\ conn' = [conn EXCEPT ![c] = FALSE]
     \/ /\ (MustFail(c) \/ MayFail(c)) /\ Answers(c, Conflict)
        /\ UNCHANGED <<store, clock, log, conn>>
  /\ txn' = [txn EXCEPT ![c] = NoTxn]
  /\ GoTo(c, "rollback")
  /\ UNCHANGED <<fixed, told>>

(* Mutant: the answer of zeta_commit is not looked at.                     *)
CommitIgnoresAnswer(c) ==
  /\ pc[c] = "commit"
  /\ \/ ~MustFail(c) /\ Apply(c)
     \/ MustFail(c) /\ UNCHANGED <<store, clock, log>>
  /\ Answers(c, 0)
  /\ txn' = [txn EXCEPT ![c] = NoTxn]
  /\ conn' = [conn EXCEPT ![c] = FALSE]
  /\ GoTo(c, "rollback")
  /\ UNCHANGED <<fixed, told>>

(* Tx.Commit, tx.Commit: the C transaction is consumed whatever the        *)
(* answer.  A failure other than a conflict says nothing about whether the *)
(* writes were applied.                                                    *)
Commit(c) ==
  /\ pc[c] = "commit"
  /\ \/ ~MustFail(c) /\ Answers(c, 0) /\ Apply(c)
     \/ (MustFail(c) \/ MayFail(c)) /\ Answers(c, Conflict) /\ UNCHANGED <<store, clock, log>>
     \/ /\ \E rc \in OtherCodes : Answers(c, rc)
        /\ \/ ~MustFail(c) /\ Apply(c)
           \/ UNCHANGED <<store, clock, log>>
  /\ txn' = [txn EXCEPT ![c] = NoTxn]
  /\ conn' = [conn EXCEPT ![c] = FALSE]
  /\ GoTo(c, "rollback")
  /\ UNCHANGED <<fixed, told>>

(* Mutant: the whole transaction is run again after any error.             *)
RollbackRetriesAny(c) ==
  /\ pc[c] = "rollback"
  /\ txn' = [txn EXCEPT ![c] = NoTxn]
  /\ conn' = [conn EXCEPT ![c] = FALSE]
  /\ \/ code[c] = 0 /\ Tells(c, "ok") /\ GoTo(c, "done")
     \/ code[c] # 0 /\ GoTo(c, "begin") /\ UNCHANGED told
  /\ UNCHANGED <<store, clock, fixed, code, log>>

(* The deferred Rollback: it ends a transaction that is still running and  *)
(* does nothing after Commit.  The caller then tests for ErrConflict.      *)
Rollback(c) ==
  /\ pc[c] = "rollback"
  /\ txn' = [txn EXCEPT ![c] = NoTxn]
  /\ conn' = [conn EXCEPT ![c] = conn[c] /\ ~Running(c)]
  /\ \/ code[c] = 0 /\ Tells(c, "ok") /\ GoTo(c, "done")
     \/ KindOf(code[c]) = "ErrConflict" /\ GoTo(c, "begin") /\ UNCHANGED told
     \/ /\ code[c] # 0 /\ KindOf(code[c]) # "ErrConflict"
        /\ Tells(c, KindOf(code[c])) /\ GoTo(c, "done")
  /\ UNCHANGED <<store, clock, fixed, code, log>>

Step(c) == Begin(c) \/ Read(c) \/ Write(c) \/ Commit(c) \/ Rollback(c)
Finished == (\A c \in Clients : pc[c] = "done") /\ UNCHANGED vars

Next == (\E c \in Clients : Step(c)) \/ Finished
Spec == Init /\ [][Next]_vars

(* A client whose call can return goes on.                                 *)
Fairness == \A c \in Clients : WF_vars(Step(c))
FairSpec == Spec /\ Fairness
-----------------------------------------------------------------------------
Ok(c) == told[c] = "ok"

(* What a client is told is what happened to its data, through every       *)
(* failed attempt and retry and at every mix of levels: each increment it  *)
(* was told of is in the counter once (no lost update, nothing applied     *)
(* twice), and one that is there without a success had a Commit fail for   *)
(* another reason than a conflict.                                         *)
ToldIsTrue ==
  LET bumps == {c \in Clients : role[c].does = "bump"}
      over == {c \in bumps : pc[c] = "done"}
      sure == {c \in over : Ok(c)}
      open == {c \in bumps \ over : code[c] # Conflict} \cup
              {c \in over : told[c] \in Kinds}
  IN store[Counter] \in Cardinality(sure)..Cardinality(sure \cup open)

(* A serial run of the clients of S, one after the other.                  *)
RunOf(c, s) ==
  [i \in Items |-> IF Writes(c, s) /\ i = role[c].item THEN Update(c, s)[i] ELSE s[i]]
SerialRun(f, n) ==
  LET after[k \in 0..n] == IF k = 0 THEN Initially ELSE RunOf(f[k], after[k - 1])
  IN after[n]
Orders(S) == {f \in [1..Cardinality(S) -> S] : \A i, j \in DOMAIN f : f[i] = f[j] => i = j}
SerialOutcomes(S) == {SerialRun(f, Cardinality(S)) : f \in Orders(S)}

(* Clients that asked for serializable or for more get it, or an error: if *)
(* all that took effect asked for it, the rows hold what those clients     *)
(* leave when they run one after the other, in some order (no write skew). *)
(* README: "For check-then-write logic use ... IsolationSerializable".     *)
Strict == {"serializable", "Serializable", "Linearizable"}
NoSkewWhenAsked ==
  LET S == {c \in Clients : Applied(c)}
  IN (\A c \in S : asked[c].level \in Strict) => store \in SerialOutcomes(S)

(* A client gives up for a reason that retrying would not cure: never for  *)
(* a conflict, and never because its own earlier attempt is still open on  *)
(* the connection.                                                         *)
ConflictIsRetried ==
  \A c \in Clients : told[c] \notin {"ErrConflict", "nested"}

(* Retrying ends: every client gets its answer.                            *)
EveryoneFinishes == <>(\A c \in Clients : pc[c] = "done")
=============================================================================
