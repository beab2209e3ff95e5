------------------------- MODULE TxnIsolationProofs -------------------------
(***************************************************************************)
(* Proofs about TxnIsolation, for every finite set of clients and flags,   *)
(* every level they ask for and every choice of who does what: a client is *)
(* told what happened to its data, conflicts are retried, and clients that *)
(* ask for serializable leave what they would leave one after the other.   *)
(***************************************************************************)
EXTENDS TxnIsolation, Induction
-----------------------------------------------------------------------------
(* The inductive invariant.                                                *)
PCs == {"begin", "read", "write", "commit", "rollback", "done"}
Codes == {0, Conflict} \cup OtherCodes
Tellings == {"nothing", "ok", "refused", "nested"} \cup Kinds

Functions == /\ txn \in [Clients -> Txns \cup {NoTxn}]
             /\ log = [c \in Clients |-> log[c]]

(* A client has a transaction while it works in one, and is done with it   *)
(* for good once it has been applied.                                      *)
ClientOk(c) ==
  /\ Running(c) => pc[c] \in {"read", "write", "commit", "rollback"}
  /\ pc[c] \in {"read", "write", "commit"} => Running(c)
  /\ conn[c] => Running(c)
  /\ Applied(c) => ~Running(c) /\ pc[c] \in {"rollback", "done"} /\ code[c] # Conflict
  /\ pc[c] = "rollback" /\ code[c] = 0 => Applied(c)
  /\ told[c] # "nothing" => pc[c] = "done"
  /\ told[c] = "ok" => Applied(c)
  /\ Applied(c) /\ pc[c] = "done" => told[c] \in {"ok"} \cup Kinds
  /\ told[c] \notin {"ErrConflict", "nested"}

(* What a transaction saw in the counter is still there, or somebody has   *)
(* written it since, which its commit will find.                           *)
SeesCounter(c) ==
  \/ txn[c].sees[Counter] = store[Counter]
  \/ \E d \in Clients : AppliedSince(c, d) /\ Counter \in Written(log[d])

TxnOk(c) ==
  Running(c) =>
    /\ txn[c].from <= clock
    /\ txn[c].sees[Counter] <= Cardinality(Clients)
    /\ Written(txn[c]) \in {{}, {role[c].item}}
    /\ pc[c] \in {"read", "write"} => Written(txn[c]) = {}
    /\ pc[c] = "commit" /\ role[c].does = "bump" =>
         /\ Written(txn[c]) = {Counter}
         /\ txn[c].writes[Counter] = txn[c].sees[Counter] + 1
    /\ SeesCounter(c)

AppliedSet == {c \in Clients : Applied(c)}
AppliedBumps == {c \in AppliedSet : role[c].does = "bump"}

(* The counter counts the increments that have been applied.               *)
Totals == /\ clock = Cardinality(AppliedSet)
          /\ store[Counter] = Cardinality(AppliedBumps)

IInv ==
  /\ TypeOK /\ Functions /\ Totals
  /\ \A c \in Clients : ClientOk(c) /\ TxnOk(c)
-----------------------------------------------------------------------------
LEMMA CodeTypes ==
  /\ Conflict \in Int /\ Conflict + 4 = 0
  /\ \A rc \in OtherCodes : rc \in Int /\ rc + 6 = 0
BY DEF Conflict, OtherCodes

LEMMA KindTypes ==
  /\ \A rc : KindOf(rc) \in Kinds
  /\ KindOf(Conflict) = "ErrConflict"
  /\ \A rc \in OtherCodes : KindOf(rc) # "ErrConflict"
<1>1. KindOf(Conflict) = "ErrConflict"
  <2>1. \A rc \in Int : rc + 4 = 0 => KindOf(rc) = "ErrConflict"
    BY DEF KindOf, KindTable
  <2> QED BY <2>1, CodeTypes
<1>2. \A rc \in OtherCodes : KindOf(rc) = "ErrStorage"
  <2>1. \A rc \in Int : rc + 6 = 0 => KindOf(rc) = "ErrStorage"
    BY DEF KindOf, KindTable
  <2> QED BY <2>1, CodeTypes
<1>3. ASSUME NEW rc
      PROVE  KindOf(rc) \in Kinds
  <2>1. CASE -rc \in 1..6
    <3>1. \A n \in 1..6 : KindTable[n] \in Kinds
      BY DEF KindTable, Kinds
    <3> QED BY <2>1, <3>1 DEF KindOf
  <2> QED BY <2>1 DEF KindOf, Kinds
<1> QED BY <1>1, <1>2, <1>3

LEMMA NoTxnApart == NoTxn \notin Txns
BY DEF NoTxn, Txns

LEMMA ItemTypes ==
  /\ Counter \in Items
  /\ \A rl \in Roles : /\ rl.does \in {"clear", "bump"} /\ rl.item \in Items
                       /\ rl.does = "bump" <=> rl.item = Counter
BY Rows DEF Items, Roles

LEMMA Counts ==
  /\ Cardinality(Clients) \in Nat
  /\ \A S \in SUBSET Clients : /\ IsFiniteSet(S) /\ Cardinality(S) \in Nat
                               /\ Cardinality(S) <= Cardinality(Clients)
BY Rows, FS_CardinalityType, FS_Subset

LEMMA ValueTypes ==
  /\ Values \subseteq Nat /\ 0 \in Values /\ 1 \in Values
  /\ \A n \in 0..Cardinality(Clients) : n \in Values /\ n + 1 \in Values
BY Counts DEF Values

(* A step of c that applies nothing: what it changes is its own.           *)
LEMMA Quiet ==
  ASSUME IInv, NEW c \in Clients,
         UNCHANGED <<store, clock, role, asked, log>>,
         pc' \in [Clients -> PCs], conn' \in [Clients -> BOOLEAN],
         code' \in [Clients -> Codes], told' \in [Clients -> Tellings],
         txn' \in [Clients -> Txns \cup {NoTxn}],
         \A d \in Clients \ {c} :
           /\ pc'[d] = pc[d] /\ conn'[d] = conn[d] /\ code'[d] = code[d]
           /\ told'[d] = told[d] /\ txn'[d] = txn[d],
         ClientOk(c)', TxnOk(c)'
  PROVE  IInv'
<1>1. TypeOK'
  BY DEF IInv, TypeOK, PCs, Codes, Tellings
<1>2. Functions' /\ Totals'
  BY DEF IInv, Functions, Totals, AppliedSet, AppliedBumps, Applied
<1>3. ASSUME NEW d \in Clients, d # c
      PROVE  ClientOk(d)' /\ TxnOk(d)'
  <2>1. ClientOk(d) /\ TxnOk(d)
    BY DEF IInv
  <2>2. ClientOk(d)'
    BY <1>3, <2>1 DEF ClientOk, Running, Applied
  <2>3. TxnOk(d)'
    BY <1>3, <2>1 DEF TxnOk, Running, Applied, SeesCounter, AppliedSince, Written
  <2> QED BY <2>2, <2>3
<1> QED BY <1>1, <1>2, <1>3 DEF IInv

(* What an EXCEPT at c leaves alone.                                       *)
LEMMA Other ==
  ASSUME NEW c \in Clients, NEW S, NEW f \in [Clients -> S], NEW v \in S
  PROVE  /\ [f EXCEPT ![c] = v] \in [Clients -> S]
         /\ [f EXCEPT ![c] = v][c] = v
         /\ \A d \in Clients \ {c} : [f EXCEPT ![c] = v][d] = f[d]
OBVIOUS

(* The parts of a step of c, and what they make of its state.              *)
LEMMA Parts ==
  ASSUME IInv, NEW c \in Clients
  PROVE  /\ \A next \in PCs : GoTo(c, next) =>
              /\ pc' \in [Clients -> PCs] /\ pc'[c] = next
              /\ \A d \in Clients \ {c} : pc'[d] = pc[d]
         /\ \A rc \in Codes : Answers(c, rc) =>
              /\ code' \in [Clients -> Codes] /\ code'[c] = rc
              /\ \A d \in Clients \ {c} : code'[d] = code[d]
         /\ \A what \in Tellings : Tells(c, what) =>
              /\ told' \in [Clients -> Tellings] /\ told'[c] = what
              /\ \A d \in Clients \ {c} : told'[d] = told[d]
<1>1. /\ pc \in [Clients -> PCs] /\ code \in [Clients -> Codes]
      /\ told \in [Clients -> Tellings]
  BY DEF IInv, TypeOK, PCs, Codes, Tellings
<1> QED BY <1>1 DEF GoTo, Answers, Tells

LEMMA Typed ==
  ASSUME IInv
  PROVE  /\ pc \in [Clients -> PCs] /\ code \in [Clients -> Codes]
         /\ told \in [Clients -> Tellings] /\ conn \in [Clients -> BOOLEAN]
         /\ txn \in [Clients -> Txns \cup {NoTxn}] /\ clock \in Nat
         /\ store \in [Items -> Values] /\ role \in [Clients -> Roles]
         /\ clock \in 0..Cardinality(Clients)
BY Counts DEF IInv, TypeOK, Functions, PCs, Codes, Tellings

LEMMA CodesApart ==
  /\ Conflict \in Codes /\ 0 \in Codes /\ Conflict # 0
  /\ \A rc \in OtherCodes : rc \in Codes /\ rc # 0 /\ rc # Conflict
BY CodeTypes DEF Codes

LEMMA LevelTypes ==
  ASSUME NEW c \in Clients
  PROVE  Level(c) \in {"snapshot", "serializable", "refused"}
BY DEF Level, DriverLevel, EngineLevel

(* The counter fits the snapshot of a transaction that begins now.         *)
LEMMA CounterBound ==
  ASSUME IInv
  PROVE  store[Counter] \in 0..Cardinality(Clients)
<1>1. AppliedBumps \in SUBSET Clients
  BY DEF AppliedBumps, AppliedSet
<1> QED BY <1>1, Counts DEF IInv, Totals
-----------------------------------------------------------------------------
LEMMA BeginOk ==
  ASSUME IInv, NEW c \in Clients, Begin(c)
  PROVE  IInv'
<1>1. UNCHANGED <<store, clock, role, asked, log>> /\ pc[c] = "begin"
  BY DEF Begin, fixed
<1>2. ~Running(c) /\ ~Applied(c) /\ ~conn[c] /\ told[c] = "nothing"
  BY <1>1 DEF IInv, ClientOk
<1>3. ASSUME NEW what \in Tellings \ {"ok", "ErrConflict", "nested"},
             Tells(c, what), GoTo(c, "done"), UNCHANGED <<txn, conn>>,
             code' \in [Clients -> Codes], \A d \in Clients \ {c} : code'[d] = code[d]
      PROVE  IInv'
  <2>1. ClientOk(c)' /\ TxnOk(c)'
    BY <1>1, <1>2, <1>3, Parts DEF ClientOk, TxnOk, Running, Applied, PCs
  <2> QED BY <1>1, <1>3, <2>1, Quiet, Parts, Typed DEF PCs
<1>4. CASE Level(c) = "refused" /\ Tells(c, "refused") /\ GoTo(c, "done")
           /\ UNCHANGED <<txn, conn, code>>
  BY <1>3, <1>4, Typed DEF Tellings, Kinds
<1>5. CASE /\ \E rc \in OtherCodes : Answers(c, rc) /\ Tells(c, KindOf(rc))
           /\ GoTo(c, "done") /\ UNCHANGED <<txn, conn>>
  <2>1. PICK rc \in OtherCodes : Answers(c, rc) /\ Tells(c, KindOf(rc))
    BY <1>5
  <2>2. KindOf(rc) \in Tellings \ {"ok", "ErrConflict", "nested"}
    BY KindTypes DEF Tellings, Kinds
  <2>3. code' \in [Clients -> Codes] /\ \A d \in Clients \ {c} : code'[d] = code[d]
    BY <2>1, Parts, CodesApart
  <2> QED BY <1>3, <1>5, <2>1, <2>2, <2>3
<1>6. CASE /\ Level(c) # "refused"
           /\ txn' = [txn EXCEPT ![c] =
                [level |-> Level(c), from |-> clock, sees |-> store,
                 reads |-> {}, writes |-> NoWrites]]
           /\ conn' = [conn EXCEPT ![c] = asked[c].api = "driver"]
           /\ Answers(c, 0) /\ GoTo(c, "read") /\ UNCHANGED told
  <2> DEFINE t == [level |-> Level(c), from |-> clock, sees |-> store,
                   reads |-> {}, writes |-> NoWrites]
  <2>1. NoWrites \in [{} -> Values] /\ DOMAIN NoWrites = {}
    BY DEF NoWrites
  <2>2. t \in Txns
    <3>1. NoWrites \in UNION {[S -> Values] : S \in SUBSET Items}
      BY <2>1
    <3> QED BY <1>6, <3>1, LevelTypes, Typed DEF Txns
  <2>3. /\ txn' \in [Clients -> Txns \cup {NoTxn}] /\ txn'[c] = t
        /\ \A d \in Clients \ {c} : txn'[d] = txn[d]
    BY <1>6, <2>2, Typed
  <2>4. /\ conn' \in [Clients -> BOOLEAN]
        /\ \A d \in Clients \ {c} : conn'[d] = conn[d]
    BY <1>6, Typed
  <2>5. Running(c)' /\ ~Applied(c)'
    BY <1>1, <1>2, <2>2, <2>3, NoTxnApart DEF Running, Applied
  <2>6. ClientOk(c)'
    BY <1>2, <1>6, <2>5, Parts, CodesApart DEF ClientOk, PCs
  <2>7. TxnOk(c)'
    <3>1. t.from = clock /\ t.sees = store /\ Written(t) = {}
      BY <2>1 DEF Written
    <3> QED BY <1>1, <1>6, <2>3, <3>1, Parts, Typed, CounterBound
            DEF TxnOk, SeesCounter, Written, PCs
  <2> QED BY <1>1, <1>6, <2>3, <2>4, <2>6, <2>7, Quiet, Parts, Typed, CodesApart DEF PCs
<1> QED BY <1>2, <1>4, <1>5, <1>6 DEF Begin

(* Every step that fails a statement, and nothing else.                    *)
LEMMA FailsOk ==
  ASSUME IInv, NEW c \in Clients, pc[c] \in {"read", "write"},
         NEW rcs \in SUBSET (Codes \ {0}), StatementFails(c, rcs),
         UNCHANGED <<store, clock, role, asked, log, conn, told>>
  PROVE  IInv'
<1>1. PICK rc \in rcs : Answers(c, rc)
  BY DEF StatementFails
<1>2. /\ code' \in [Clients -> Codes] /\ code'[c] # 0
      /\ \A d \in Clients \ {c} : code'[d] = code[d]
  BY <1>1, Parts
<1>3. /\ pc' \in [Clients -> PCs] /\ pc'[c] = "rollback"
      /\ \A d \in Clients \ {c} : pc'[d] = pc[d]
  BY Parts DEF StatementFails, PCs
<1>4. txn' = txn
  BY DEF StatementFails
<1>5. ClientOk(c)'
  BY <1>2, <1>3, <1>4 DEF IInv, ClientOk, Running, Applied
<1>6. TxnOk(c)'
  BY <1>3, <1>4 DEF IInv, TxnOk, Running, SeesCounter, AppliedSince, Applied, Written
<1> QED BY <1>2, <1>3, <1>4, <1>5, <1>6, Quiet, Typed

(* Every step that goes on to the next statement or to the commit.         *)
LEMMA GoesOn ==
  ASSUME IInv, NEW c \in Clients, pc[c] \in {"read", "write"},
         NEW next \in {"write", "commit"}, GoTo(c, next), Answers(c, 0),
         UNCHANGED <<store, clock, role, asked, log, conn, told>>,
         NEW t \in Txns, txn' = [txn EXCEPT ![c] = t],
         t.from = txn[c].from, t.sees = txn[c].sees,
         Written(t) \in {{}, {role[c].item}},
         next = "write" => Written(t) = {},
         next = "commit" /\ role[c].does = "bump" =>
           Written(t) = {Counter} /\ t.writes[Counter] = t.sees[Counter] + 1
  PROVE  IInv'
<1>1. /\ txn' \in [Clients -> Txns \cup {NoTxn}] /\ txn'[c] = t
      /\ \A d \in Clients \ {c} : txn'[d] = txn[d]
  BY Typed
<1>2. /\ pc' \in [Clients -> PCs] /\ pc'[c] = next
      /\ \A d \in Clients \ {c} : pc'[d] = pc[d]
  BY Parts DEF PCs
<1>3. Running(c) /\ Running(c)'
  BY <1>1, NoTxnApart DEF IInv, ClientOk, Running
<1>4. ClientOk(c)'
  BY <1>2, <1>3 DEF IInv, ClientOk, Applied
<1>5. TxnOk(c)'
  <2>1. TxnOk(c) /\ clock' = clock /\ role' = role
    BY DEF IInv
  <2>2. SeesCounter(c)'
    BY <1>1, <1>3, <2>1 DEF TxnOk, SeesCounter, AppliedSince, Applied, Written
  <2>3. /\ txn[c]'.from <= clock'
        /\ (txn[c]'.sees)[Counter] <= Cardinality(Clients)
    BY <1>1, <1>3, <2>1 DEF TxnOk
  <2>4. /\ DOMAIN t.writes \in {{}, {role[c].item}}
        /\ next = "write" => DOMAIN t.writes = {}
        /\ next = "commit" /\ role[c].does = "bump" =>
             DOMAIN t.writes = {Counter} /\ t.writes[Counter] = t.sees[Counter] + 1
    BY DEF Written
  <2>5. txn[c]' = t /\ pc[c]' = next /\ role[c]' = role[c]
    BY <1>1, <1>2, <2>1
  <2> QED BY <2>2, <2>3, <2>4, <2>5 DEF TxnOk, Written
<1> QED BY <1>1, <1>2, <1>4, <1>5, Quiet, Parts, CodesApart, Typed

LEMMA ReadOk ==
  ASSUME IInv, NEW c \in Clients, Read(c)
  PROVE  IInv'
<1>1. UNCHANGED <<store, clock, role, asked, log, conn, told>> /\ pc[c] = "read"
  BY DEF Read, fixed
<1>2. CASE StatementFails(c, OtherCodes)
  BY <1>1, <1>2, FailsOk, CodesApart
<1>3. CASE /\ txn' = [txn EXCEPT ![c].reads = ReadSet(c)]
           /\ GoTo(c, IF Writes(c, txn[c].sees) THEN "write" ELSE "commit")
           /\ Answers(c, 0)
  <2> DEFINE t == [txn[c] EXCEPT !.reads = ReadSet(c)]
             next == IF Writes(c, txn[c].sees) THEN "write" ELSE "commit"
  <2>1. Running(c) /\ txn[c] \in Txns /\ Written(txn[c]) = {}
    BY <1>1, Typed DEF IInv, ClientOk, TxnOk, Running
  <2>2. ReadSet(c) \in SUBSET Items
    BY DEF ReadSet, Items
  <2>3. /\ t \in Txns /\ t.from = txn[c].from /\ t.sees = txn[c].sees
        /\ t.writes = txn[c].writes
    BY <2>1, <2>2 DEF Txns
  <2>4. Written(t) = {}
    BY <2>1, <2>3 DEF Written
  <2>5. role[c].does = "bump" => next = "write"
    BY DEF Writes
  <2>6. txn' = [txn EXCEPT ![c] = t]
    BY <1>3
  <2>7. GoTo(c, next) /\ next \in {"write", "commit"}
    BY <1>3
  <2> HIDE DEF t, next
  <2> QED BY <1>1, <1>3, <2>3, <2>4, <2>5, <2>6, <2>7, GoesOn
<1> QED BY <1>2, <1>3 DEF Read

LEMMA WriteOk ==
  ASSUME IInv, NEW c \in Clients, Write(c)
  PROVE  IInv'
<1>1. UNCHANGED <<store, clock, role, asked, log, conn, told>> /\ pc[c] = "write"
  BY DEF Write, fixed
<1>2. CASE StatementFails(c, OtherCodes) \/ StatementFails(c, {Conflict})
  BY <1>1, <1>2, FailsOk, CodesApart
<1>3. CASE /\ txn' = [txn EXCEPT ![c].writes = Update(c, txn[c].sees)]
           /\ GoTo(c, "commit") /\ Answers(c, 0)
  <2> DEFINE w == Update(c, txn[c].sees)
             t == [txn[c] EXCEPT !.writes = w]
  <2>1. Running(c) /\ txn[c] \in Txns /\ txn[c].sees[Counter] \in 0..Cardinality(Clients)
    <3>1. Running(c) /\ txn[c] \in Txns
      BY <1>1, Typed DEF IInv, ClientOk, Running
    <3>2. txn[c].sees[Counter] \in Nat /\ txn[c].sees[Counter] <= Cardinality(Clients)
      BY <3>1, ItemTypes, ValueTypes DEF Txns, IInv, TxnOk
    <3> QED BY <3>1, <3>2, Counts
  <2>2. role[c] \in Roles
    BY Typed
  <2>3. w \in [{role[c].item} -> Values]
    BY <2>1, <2>2, ValueTypes DEF Update
  <2>4. w \in UNION {[S -> Values] : S \in SUBSET Items}
    BY <2>2, <2>3, ItemTypes
  <2>5. role[c].does = "bump" => role[c].item = Counter /\ w[Counter] = txn[c].sees[Counter] + 1
    BY <2>2, ItemTypes DEF Update
  <2> HIDE DEF w
  <2>6. /\ t \in Txns /\ t.from = txn[c].from /\ t.sees = txn[c].sees /\ t.writes = w
    BY <2>1, <2>4 DEF Txns
  <2>7. Written(t) = {role[c].item}
    BY <2>3, <2>6 DEF Written
  <2>8. txn' = [txn EXCEPT ![c] = t]
    BY <1>3 DEF w
  <2> HIDE DEF t
  <2> QED BY <1>1, <1>3, <2>5, <2>6, <2>7, <2>8, GoesOn
<1> QED BY <1>2, <1>3 DEF Write

LEMMA RollbackOk ==
  ASSUME IInv, NEW c \in Clients, Rollback(c)
  PROVE  IInv'
<1>1. /\ UNCHANGED <<store, clock, role, asked, log, code>> /\ pc[c] = "rollback"
      /\ txn' = [txn EXCEPT ![c] = NoTxn]
      /\ conn' = [conn EXCEPT ![c] = conn[c] /\ ~Running(c)]
  BY DEF Rollback, fixed
<1>2. /\ txn' \in [Clients -> Txns \cup {NoTxn}] /\ txn'[c] = NoTxn
      /\ \A d \in Clients \ {c} : txn'[d] = txn[d]
  BY <1>1, Typed
<1>3. /\ conn' \in [Clients -> BOOLEAN] /\ ~conn'[c]
      /\ \A d \in Clients \ {c} : conn'[d] = conn[d]
  BY <1>1, Typed DEF IInv, ClientOk
<1>4. ~Running(c)' /\ TxnOk(c)'
  BY <1>2 DEF Running, TxnOk
<1>5. told[c] = "nothing"
  BY <1>1 DEF IInv, ClientOk
<1>6. CASE code[c] = 0 /\ Tells(c, "ok") /\ GoTo(c, "done")
  <2>1. Applied(c)'
    BY <1>1, <1>6 DEF IInv, ClientOk, Applied
  <2>2. ClientOk(c)'
    BY <1>1, <1>3, <1>4, <1>6, <2>1, Parts, CodesApart DEF ClientOk, PCs, Tellings
  <2> QED BY <1>1, <1>2, <1>3, <1>4, <1>6, <2>2, Quiet, Parts, Typed DEF PCs, Tellings
<1>7. CASE KindOf(code[c]) = "ErrConflict" /\ GoTo(c, "begin") /\ UNCHANGED told
  <2>1. code[c] = Conflict \/ code[c] = 0
    BY <1>7, KindTypes, Typed DEF Codes
  <2>2. KindOf(0) # "ErrConflict"
    BY DEF KindOf, KindTable
  <2>3. ~Applied(c)'
    BY <1>1, <1>7, <2>1, <2>2 DEF IInv, ClientOk, Applied
  <2>4. ClientOk(c)'
    BY <1>1, <1>3, <1>4, <1>5, <1>7, <2>3, Parts DEF ClientOk, PCs
  <2> QED BY <1>1, <1>2, <1>3, <1>4, <1>7, <2>4, Quiet, Parts, Typed DEF PCs
<1>8. CASE /\ code[c] # 0 /\ KindOf(code[c]) # "ErrConflict"
           /\ Tells(c, KindOf(code[c])) /\ GoTo(c, "done")
  <2>1. KindOf(code[c]) \in Kinds \ {"ErrConflict"} /\ KindOf(code[c]) \in Tellings
    BY <1>8, KindTypes DEF Tellings
  <2>2. KindOf(code[c]) \notin {"nothing", "ok", "nested"}
    BY <2>1 DEF Kinds
  <2>3. ClientOk(c)'
    BY <1>1, <1>3, <1>4, <1>8, <2>1, <2>2, Parts DEF IInv, ClientOk, Applied, PCs
  <2> QED BY <1>1, <1>2, <1>3, <1>4, <1>8, <2>1, <2>3, Quiet, Parts, Typed DEF PCs
<1> QED BY <1>6, <1>7, <1>8 DEF Rollback

(* A commit that takes effect: the counter goes up by what c adds to it,   *)
(* because no commit since c began has written it.                         *)
LEMMA ApplyOk ==
  ASSUME IInv, NEW c \in Clients, pc[c] = "commit", ~MustFail(c), Apply(c),
         NEW rc \in Codes \ {Conflict}, Answers(c, rc), GoTo(c, "rollback"),
         txn' = [txn EXCEPT ![c] = NoTxn], conn' = [conn EXCEPT ![c] = FALSE],
         UNCHANGED <<role, asked, told>>
  PROVE  IInv'
<1>1. Running(c) /\ ~Applied(c) /\ txn[c] \in Txns /\ told[c] = "nothing"
  BY Typed DEF IInv, ClientOk, Running
<1>2. /\ Written(txn[c]) \in {{}, {role[c].item}}
      /\ role[c].does = "bump" =>
           Written(txn[c]) = {Counter} /\ txn[c].writes[Counter] = txn[c].sees[Counter] + 1
      /\ SeesCounter(c)
  BY <1>1 DEF IInv, TxnOk
<1>3. /\ txn' \in [Clients -> Txns \cup {NoTxn}] /\ txn'[c] = NoTxn
      /\ \A d \in Clients \ {c} : txn'[d] = txn[d]
  BY Typed
<1>4. /\ conn' \in [Clients -> BOOLEAN] /\ ~conn'[c]
      /\ \A d \in Clients \ {c} : conn'[d] = conn[d]
  BY Typed
<1>5. /\ pc' \in [Clients -> PCs] /\ pc'[c] = "rollback"
      /\ \A d \in Clients \ {c} : pc'[d] = pc[d]
      /\ code' \in [Clients -> Codes] /\ code'[c] = rc
      /\ \A d \in Clients \ {c} : code'[d] = code[d]
  BY Parts DEF PCs
<1>6. /\ log'[c] = Entry(c) /\ \A d \in Clients \ {c} : log'[d] = log[d]
      /\ log' = [d \in Clients |-> log'[d]]
  BY DEF Apply, IInv, Functions
<1>7. /\ Entry(c).at = clock + 1 /\ Written(Entry(c)) = Written(txn[c])
      /\ clock' = clock + 1
  BY DEF Entry, Written, Apply
<1>8. Applied(c)' /\ \A d \in Clients \ {c} : Applied(d)' <=> Applied(d)
  <2>1. NotApplied.at = 0 /\ clock + 1 # 0
    BY Typed DEF NotApplied
  <2> QED BY <1>6, <1>7, <2>1 DEF Applied
<1>9. /\ AppliedSet' = AppliedSet \cup {c} /\ c \notin AppliedSet
      /\ AppliedSet \in SUBSET Clients /\ AppliedSet' \in SUBSET Clients
  BY <1>1, <1>8 DEF AppliedSet
<1>10. clock' = Cardinality(AppliedSet') /\ clock' \in 0..Cardinality(Clients)
  <2>1. Cardinality(AppliedSet') = Cardinality(AppliedSet) + 1
    BY <1>9, Counts, FS_AddElement
  <2> QED BY <1>7, <1>9, <2>1, Counts DEF IInv, Totals
<1>11. store[Counter] \in 0..Cardinality(Clients) /\ store \in [Items -> Values]
  BY CounterBound, Typed
<1>12. store'[Counter] = IF role[c].does = "bump" THEN store[Counter] + 1 ELSE store[Counter]
  <2>1. CASE role[c].does = "bump"
    <3>1. txn[c].sees[Counter] = store[Counter]
      BY <1>1, <1>2, <2>1 DEF SeesCounter, MustFail, WriteConflict, AppliedSince
    <3> QED BY <1>2, <2>1, <3>1, ItemTypes DEF Apply
  <2>2. CASE role[c].does # "bump"
    <3>1. Counter \notin Written(txn[c])
      BY <1>2, <2>2, ItemTypes, Typed
    <3> QED BY <2>2, <3>1, ItemTypes DEF Apply
  <2> QED BY <2>1, <2>2
<1>13. store'[Counter] = Cardinality(AppliedBumps')
  <2>1. AppliedBumps \in SUBSET Clients /\ c \notin AppliedBumps
    BY <1>9 DEF AppliedBumps
  <2>2. CASE role[c].does = "bump"
    <3>1. AppliedBumps' = AppliedBumps \cup {c}
      BY <1>9, <2>2 DEF AppliedBumps
    <3>2. Cardinality(AppliedBumps') = Cardinality(AppliedBumps) + 1
      BY <2>1, <3>1, Counts, FS_AddElement
    <3> QED BY <1>12, <2>2, <3>2 DEF IInv, Totals
  <2>3. CASE role[c].does # "bump"
    <3>1. AppliedBumps' = AppliedBumps
      BY <1>9, <2>3 DEF AppliedBumps
    <3> QED BY <1>12, <2>3, <3>1 DEF IInv, Totals
  <2> QED BY <2>2, <2>3
<1>14. store' \in [Items -> Values]
  <2>1. \A i \in Written(txn[c]) : txn[c].writes[i] \in Values
    BY <1>1 DEF Txns, Written
  <2> QED BY <1>11, <2>1 DEF Apply
<1>15. TypeOK'
  <2>1. \A d \in Clients : log'[d] = NotApplied \/ log'[d].at \in 1..clock'
    BY <1>6, <1>7, Typed DEF IInv, TypeOK
  <2>2. \A d \in Clients : txn'[d] = NoTxn \/ txn'[d] \in Txns
    BY <1>3
  <2>3. told' \in [Clients -> Tellings] /\ role' \in [Clients -> Roles]
        /\ asked' \in [Clients -> Asked]
    BY Typed DEF IInv, TypeOK
  <2> QED BY <1>4, <1>5, <1>10, <1>14, <2>1, <2>2, <2>3
          DEF TypeOK, PCs, Codes, Tellings
<1>16. Functions' /\ Totals'
  BY <1>3, <1>6, <1>10, <1>13 DEF Functions, Totals
<1>17. ClientOk(c)' /\ TxnOk(c)'
  BY <1>1, <1>3, <1>4, <1>5, <1>8 DEF ClientOk, TxnOk, Running
<1>18. ASSUME NEW d \in Clients, d # c
       PROVE  ClientOk(d)' /\ TxnOk(d)'
  <2>1. ClientOk(d) /\ TxnOk(d)
    BY DEF IInv
  <2>2. ClientOk(d)'
    BY <1>3, <1>4, <1>5, <1>8, <1>18, <2>1 DEF ClientOk, Running
  <2>3. ASSUME Running(d)
        PROVE  SeesCounter(d)'
    <3>1. SeesCounter(d) /\ txn[d].from <= clock /\ txn[d].from \in Nat
      BY <2>1, <2>3, Typed, Counts DEF TxnOk, Running, Txns
    <3>2. txn'[d] = txn[d]
      BY <1>3, <1>18
    <3>3. CASE Counter \in Written(txn[c])
      <4>1. Applied(c)' /\ log'[c].at > txn'[d].from /\ Counter \in Written(log'[c])
        BY <1>6, <1>7, <1>8, <3>1, <3>2, <3>3, Typed
      <4> QED BY <4>1 DEF SeesCounter, AppliedSince, Applied, Written
    <3>4. CASE Counter \notin Written(txn[c])
      <4>1. store'[Counter] = store[Counter]
        BY <3>4, ItemTypes DEF Apply
      <4>2. \A e \in Clients : Applied(e) => log'[e] = log[e] /\ Applied(e)'
        BY <1>1, <1>6, <1>8
      <4> QED BY <3>1, <3>2, <4>1, <4>2 DEF SeesCounter, AppliedSince, Applied, Written
    <3> QED BY <3>3, <3>4
  <2>4. txn'[d] = txn[d] /\ pc'[d] = pc[d] /\ role' = role /\ clock' = clock + 1
    BY <1>3, <1>5, <1>7, <1>18
  <2>5. ASSUME Running(d)
        PROVE  txn[d].from <= clock + 1
    BY <2>1, <2>5, Typed, Counts DEF TxnOk, Running, Txns
  <2>6. TxnOk(d)'
    BY <2>1, <2>3, <2>4, <2>5 DEF TxnOk, Running, Written
  <2> QED BY <2>2, <2>6
<1> QED BY <1>15, <1>16, <1>17, <1>18 DEF IInv

(* A commit that fails and applies nothing.                                *)
LEMMA RefusedOk ==
  ASSUME IInv, NEW c \in Clients, pc[c] = "commit",
         NEW rc \in Codes \ {0}, Answers(c, rc), GoTo(c, "rollback"),
         txn' = [txn EXCEPT ![c] = NoTxn], conn' = [conn EXCEPT ![c] = FALSE],
         UNCHANGED <<store, clock, role, asked, log, told>>
  PROVE  IInv'
<1>1. Running(c) /\ ~Applied(c) /\ told[c] = "nothing"
  BY DEF IInv, ClientOk
<1>2. /\ txn' \in [Clients -> Txns \cup {NoTxn}] /\ txn'[c] = NoTxn
      /\ \A d \in Clients \ {c} : txn'[d] = txn[d]
  BY Typed
<1>3. /\ conn' \in [Clients -> BOOLEAN] /\ ~conn'[c]
      /\ \A d \in Clients \ {c} : conn'[d] = conn[d]
  BY Typed
<1>4. ClientOk(c)' /\ TxnOk(c)'
  BY <1>1, <1>2, <1>3, Parts DEF ClientOk, TxnOk, Running, Applied, PCs
<1> QED BY <1>2, <1>3, <1>4, Quiet, Parts, Typed DEF PCs

LEMMA CommitOk ==
  ASSUME IInv, NEW c \in Clients, Commit(c)
  PROVE  IInv'
<1>1. /\ pc[c] = "commit" /\ GoTo(c, "rollback")
      /\ txn' = [txn EXCEPT ![c] = NoTxn] /\ conn' = [conn EXCEPT ![c] = FALSE]
      /\ UNCHANGED <<role, asked, told>>
  BY DEF Commit, fixed
<1>2. PICK rc \in Codes :
        /\ Answers(c, rc)
        /\ \/ rc # Conflict /\ ~MustFail(c) /\ Apply(c)
           \/ rc # 0 /\ UNCHANGED <<store, clock, log>>
  BY CodesApart DEF Commit
<1> QED BY <1>1, <1>2, ApplyOk, RefusedOk
-----------------------------------------------------------------------------
LEMMA InitOk ==
  ASSUME Init
  PROVE  IInv
<1>1. \A c \in Clients : ~Applied(c) /\ ~Running(c)
  BY DEF Init, Applied, Running
<1>2. AppliedSet = {} /\ AppliedBumps = {} /\ Cardinality({}) = 0
  BY <1>1, FS_EmptySet DEF AppliedSet, AppliedBumps
<1>3. store[Counter] = 0 /\ store \in [Items -> Values]
  BY ItemTypes, ValueTypes DEF Init, Initially
<1>4. TypeOK
  BY <1>3, Counts DEF Init, TypeOK
<1>5. Functions /\ Totals
  BY <1>2, <1>3 DEF Init, Functions, Totals
<1>6. ASSUME NEW c \in Clients
      PROVE  ClientOk(c) /\ TxnOk(c)
  <2>1. pc[c] = "begin" /\ ~conn[c] /\ told[c] = "nothing"
    BY DEF Init
  <2> QED BY <1>1, <2>1 DEF ClientOk, TxnOk
<1> QED BY <1>4, <1>5, <1>6 DEF IInv

LEMMA StepOk ==
  ASSUME IInv, [Next]_vars
  PROVE  IInv'
<1>1. ASSUME NEW c \in Clients, Step(c)
      PROVE  IInv'
  BY <1>1, BeginOk, ReadOk, WriteOk, CommitOk, RollbackOk DEF Step
<1>2. CASE UNCHANGED vars
  <2>1. UNCHANGED <<store, clock, role, asked, pc, txn, conn, code, told, log>>
    BY <1>2 DEF vars
  <2>2. TypeOK' /\ Functions' /\ Totals'
    BY <2>1 DEF IInv, TypeOK, Functions, Totals, AppliedSet, AppliedBumps, Applied
  <2>3. ASSUME NEW c \in Clients
        PROVE  ClientOk(c)' /\ TxnOk(c)'
    <3>1. ClientOk(c) /\ TxnOk(c)
      BY DEF IInv
    <3>2. ClientOk(c)'
      BY <2>1, <3>1 DEF ClientOk, Running, Applied
    <3>3. SeesCounter(c)' <=> SeesCounter(c)
      BY <2>1 DEF SeesCounter, AppliedSince, Applied, Written
    <3>4. TxnOk(c)'
      BY <2>1, <3>1, <3>3 DEF TxnOk, Running, Written
    <3> QED BY <3>2, <3>4
  <2> QED BY <2>2, <2>3 DEF IInv
<1> QED BY <1>1, <1>2 DEF Next, Finished

(* The invariant holds in every state the clients and the engine reach.    *)
THEOREM Inductive == Spec => []IInv
<1>1. Init => IInv
  BY InitOk
<1>2. IInv /\ [Next]_vars => IInv'
  BY StepOk
<1> QED BY <1>1, <1>2, PTL DEF Spec

(* The state of the clients, their transactions and the rows stays within  *)
(* its types; Tx and conn never hold anything else.                        *)
THEOREM TypeCorrect == Spec => []TypeOK
<1>1. IInv => TypeOK
  BY DEF IInv
<1> QED BY <1>1, Inductive, PTL

(* No lost update and nothing applied twice, through every failure and     *)
(* retry of Commit: the counter is between the increments that clients     *)
(* were told of and those that may have been applied besides.              *)
THEOREM ToldWhatHappened == Spec => []ToldIsTrue
<1>1. ASSUME IInv
      PROVE  ToldIsTrue
  <2> DEFINE bumps == {c \in Clients : role[c].does = "bump"}
             over == {c \in bumps : pc[c] = "done"}
             sure == {c \in over : Ok(c)}
             open == {c \in bumps \ over : code[c] # Conflict} \cup
                     {c \in over : told[c] \in Kinds}
  <2>1. sure \subseteq AppliedBumps
    BY <1>1 DEF IInv, ClientOk, Ok, AppliedBumps, AppliedSet
  <2>2. AppliedBumps \subseteq sure \cup open
    BY <1>1 DEF IInv, ClientOk, Ok, AppliedBumps, AppliedSet
  <2>3. /\ sure \in SUBSET Clients /\ sure \cup open \in SUBSET Clients
        /\ AppliedBumps \in SUBSET Clients
    BY DEF AppliedBumps, AppliedSet
  <2>4. store[Counter] = Cardinality(AppliedBumps)
    BY <1>1 DEF IInv, Totals
  <2> HIDE DEF bumps, over, sure, open
  <2>5. /\ Cardinality(sure) <= Cardinality(AppliedBumps)
        /\ Cardinality(AppliedBumps) <= Cardinality(sure \cup open)
    BY <2>1, <2>2, <2>3, Counts, FS_Subset
  <2>6. store[Counter] \in Cardinality(sure)..Cardinality(sure \cup open)
    BY <2>3, <2>4, <2>5, Counts
  <2> QED BY <2>6 DEF ToldIsTrue, bumps, over, sure, open
<1> QED BY <1>1, Inductive, PTL

(* No client gives up for a conflict, which the documented idiom retries,  *)
(* nor because the connection still holds its own earlier attempt.         *)
THEOREM ConflictsRetried == Spec => []ConflictIsRetried
<1>1. IInv => ConflictIsRetried
  BY DEF IInv, ClientOk, ConflictIsRetried
<1> QED BY <1>1, Inductive, PTL
-----------------------------------------------------------------------------
(***************************************************************************)
(* Serializability.  Latest: v is what the last of the transactions W that *)
(* wrote the row i wrote there.  Saw: s is the snapshot at clock k.        *)
(***************************************************************************)
Wrote(d, i) == i \in Written(log[d])
Latest(W, i, v) ==
  \/ v = Initially[i] /\ \A d \in W : ~Wrote(d, i)
  \/ \E d \in W : /\ Wrote(d, i) /\ v = log[d].writes[i]
                  /\ \A e \in W : Wrote(e, i) => log[e].at <= log[d].at
Until(k) == {d \in Clients : Applied(d) /\ log[d].at <= k}
Saw(k, s) == s \in [Items -> Values] /\ \A i \in Items : Latest(Until(k), i, s[i])

(* What c does on what it sees.                                            *)
Did(c, s) == IF Writes(c, s) THEN Update(c, s) ELSE NoWrites

(* A transaction under way works on the snapshot it began with.            *)
Attempt(c) ==
  Running(c) =>
    /\ txn[c].level = Level(c) /\ Saw(txn[c].from, txn[c].sees)
    /\ pc[c] \in {"read", "write"} => txn[c].writes = NoWrites
    /\ pc[c] \in {"write", "commit"} => txn[c].reads = ReadSet(c)
    /\ pc[c] = "write" => Writes(c, txn[c].sees)
    /\ pc[c] = "commit" => txn[c].writes = Did(c, txn[c].sees)

(* One that took effect did what its client does on the snapshot it had.   *)
Effect(c) ==
  Applied(c) =>
    /\ log[c].at \in 1..clock /\ log[c].from \in 0..(log[c].at - 1)
    /\ log[c].level = Level(c) /\ Level(c) # "refused" /\ log[c].reads = ReadSet(c)
    /\ \E s \in [Items -> Values] : Saw(log[c].from, s) /\ log[c].writes = Did(c, s)

(* Of two that wrote a row, one had been applied when the other began.     *)
Apart ==
  \A c, d \in AppliedSet :
    c # d => /\ log[c].at # log[d].at
             /\ \A i \in Items : Wrote(c, i) /\ Wrote(d, i) =>
                  log[c].at <= log[d].from \/ log[d].at <= log[c].from

(* The serializable transactions have ranks that agree with Precedes.      *)
Serializable == {c \in AppliedSet : log[c].level = "serializable"}
Ranked(rank) ==
  \A c, d \in Serializable : c # d => /\ rank[c] # rank[d]
                                      /\ Precedes(log[c], log[d]) => rank[c] < rank[d]

(* The inductive invariant, relative to IInv.                              *)
HistoryInv ==
  /\ \A c \in Clients : Attempt(c) /\ Effect(c)
  /\ \A i \in Items : Latest(AppliedSet, i, store[i])
  /\ Apart
  /\ \E m \in Nat : \E rank \in [Clients -> 0..m] : Ranked(rank)

LEMMA ReadsDecide ==
  ASSUME NEW c \in Clients, role[c] \in Roles, NEW s, NEW g, \A i \in ReadSet(c) : s[i] = g[i]
  PROVE  /\ ReadSet(c) \in SUBSET Items /\ role[c].item \in ReadSet(c)
         /\ Writes(c, s) <=> Writes(c, g)
         /\ Update(c, s) = Update(c, g)
<1>1. CASE role[c].does = "clear"
  <2>1. ReadSet(c) = Flags /\ role[c].item \in Flags
    BY <1>1 DEF ReadSet, Roles
  <2>2. Writes(c, s) <=> Writes(c, g)
    BY <1>1, <2>1 DEF Writes
  <2> QED BY <1>1, <2>1, <2>2 DEF Update, Items
<1>2. CASE role[c].does = "bump"
  <2>1. ReadSet(c) = {Counter} /\ role[c].item = Counter
    BY <1>2 DEF ReadSet, Roles
  <2>2. s[Counter] = g[Counter]
    BY <2>1
  <2> QED BY <1>2, <2>1, <2>2 DEF Update, Items, Writes
<1> QED BY <1>1, <1>2 DEF Roles

LEMMA Times ==
  ASSUME IInv, HistoryInv
  PROVE  /\ clock \in Nat
         /\ \A c \in AppliedSet : /\ c \in Clients /\ Applied(c)
                                  /\ log[c].at \in 1..clock /\ log[c].from \in 0..(log[c].at - 1)
                                  /\ log[c].reads = ReadSet(c)
BY Typed DEF HistoryInv, Effect, AppliedSet

(* What was last written in a row is one value, whoever else is counted.   *)
LEMMA LatestSame ==
  ASSUME IInv, HistoryInv, NEW i \in Items,
         NEW W \in SUBSET AppliedSet, NEW P \in SUBSET AppliedSet,
         \A d \in AppliedSet : Wrote(d, i) => (d \in W <=> d \in P),
         NEW v, NEW u, Latest(W, i, v), Latest(P, i, u)
  PROVE  v = u
<1>1. \A c, d \in AppliedSet : c # d => log[c].at # log[d].at
  BY DEF HistoryInv, Apart
<1>2. \A c \in AppliedSet : log[c].at \in Nat
  BY Times
<1>3. CASE \A d \in W : ~Wrote(d, i)
  BY <1>3 DEF Latest
<1>4. ASSUME NEW d \in W, Wrote(d, i)
      PROVE  v = u
  <2>1. PICK a \in W : /\ Wrote(a, i) /\ v = log[a].writes[i]
                       /\ \A e \in W : Wrote(e, i) => log[e].at <= log[a].at
    BY <1>4 DEF Latest
  <2>2. d \in P
    BY <1>4
  <2>3. PICK b \in P : /\ Wrote(b, i) /\ u = log[b].writes[i]
                       /\ \A e \in P : Wrote(e, i) => log[e].at <= log[b].at
    BY <1>4, <2>2 DEF Latest
  <2>4. log[b].at <= log[a].at /\ log[a].at <= log[b].at
    BY <2>1, <2>3
  <2>5. a = b
    BY <1>1, <1>2, <2>4
  <2> QED BY <2>1, <2>3, <2>5
<1> QED BY <1>3, <1>4

LEMMA SawKept ==
  ASSUME log' = log, NEW k, NEW s, Saw(k, s)
  PROVE  Saw(k, s)'
BY DEF Saw, Until, Latest, Wrote, Written, Applied

(* A step of c that applies nothing.                                       *)
LEMMA HistoryQuiet ==
  ASSUME IInv, HistoryInv, NEW c \in Clients,
         UNCHANGED <<store, clock, role, asked, log>>,
         \A d \in Clients \ {c} : pc'[d] = pc[d] /\ txn'[d] = txn[d],
         Attempt(c)'
  PROVE  HistoryInv'
<1>1. /\ AppliedSet' = AppliedSet
      /\ \A d \in Clients : Applied(d)' <=> Applied(d)
  BY DEF AppliedSet, Applied
<1>2. ASSUME NEW d \in Clients, d # c
      PROVE  Attempt(d)'
  <2>1. txn'[d] = txn[d] /\ pc'[d] = pc[d] /\ Attempt(d)
    BY <1>2 DEF HistoryInv
  <2>2. Level(d)' = Level(d) /\ ReadSet(d)' = ReadSet(d)
    BY DEF Level, ReadSet
  <2>3. \A s : (Writes(d, s)' <=> Writes(d, s)) /\ Did(d, s)' = Did(d, s)
    BY DEF Writes, Did, Update
  <2> QED BY <2>1, <2>2, <2>3, SawKept DEF Attempt, Running
<1>3. ASSUME NEW d \in Clients
      PROVE  Effect(d)'
  <2>1. Effect(d)
    BY DEF HistoryInv
  <2>2. Level(d)' = Level(d) /\ ReadSet(d)' = ReadSet(d)
    BY DEF Level, ReadSet
  <2>3. \A s : Did(d, s)' = Did(d, s)
    BY DEF Writes, Did, Update
  <2> QED BY <1>1, <2>1, <2>2, <2>3, SawKept DEF Effect
<1>4. \A i \in Items : Latest(AppliedSet, i, store[i])'
  BY <1>1 DEF HistoryInv, Latest, Wrote, Written
<1>5. Apart'
  BY <1>1 DEF HistoryInv, Apart, Wrote, Written
<1>6. (\E m \in Nat : \E rank \in [Clients -> 0..m] : Ranked(rank))'
  <2>1. PICK m \in Nat : \E rank \in [Clients -> 0..m] : Ranked(rank)
    BY DEF HistoryInv
  <2>2. PICK rank \in [Clients -> 0..m] : Ranked(rank)
    BY <2>1
  <2>3. Ranked(rank)'
    BY <1>1, <2>2 DEF Ranked, Serializable, Precedes, Written
  <2> QED BY <2>3
<1> QED BY <1>2, <1>3, <1>4, <1>5, <1>6 DEF HistoryInv

LEMMA BeginKeeps ==
  ASSUME IInv, HistoryInv, NEW c \in Clients, Begin(c)
  PROVE  HistoryInv'
<1>1. UNCHANGED <<store, clock, role, asked, log>> /\ pc[c] = "begin"
  BY DEF Begin, fixed
<1>2. ASSUME NEW next \in PCs, GoTo(c, next)
      PROVE  pc'[c] = next /\ \A d \in Clients \ {c} : pc'[d] = pc[d]
  BY <1>2, Parts
<1>3. ASSUME UNCHANGED txn, GoTo(c, "done")
      PROVE  HistoryInv'
  <2>1. ~Running(c)'
    BY <1>1, <1>3 DEF IInv, ClientOk, Running
  <2> QED BY <1>1, <1>2, <1>3, <2>1, HistoryQuiet DEF Attempt, PCs
<1>4. ASSUME txn' = [txn EXCEPT ![c] =
               [level |-> Level(c), from |-> clock, sees |-> store,
                reads |-> {}, writes |-> NoWrites]],
             GoTo(c, "read")
      PROVE  HistoryInv'
  <2>1. /\ txn'[c].level = Level(c) /\ txn'[c].from = clock /\ txn'[c].sees = store
        /\ txn'[c].writes = NoWrites /\ \A d \in Clients \ {c} : txn'[d] = txn[d]
    BY <1>4, Typed
  <2>2. pc'[c] = "read" /\ \A d \in Clients \ {c} : pc'[d] = pc[d]
    BY <1>2, <1>4 DEF PCs
  <2>3. Saw(clock, store)
    <3>1. \A d \in Clients : Applied(d) => log[d].at <= clock
      BY Times DEF AppliedSet
    <3>2. Until(clock) = AppliedSet
      BY <3>1 DEF Until, AppliedSet
    <3> QED BY <3>2, Typed DEF HistoryInv, Saw
  <2>4. Saw(clock, store)'
    BY <1>1, <2>3, SawKept
  <2>5. Level(c)' = Level(c) /\ clock' = clock /\ store' = store /\ NoWrites' = NoWrites
    BY <1>1 DEF Level, NoWrites
  <2>6. Attempt(c)'
    BY <2>1, <2>2, <2>4, <2>5 DEF Attempt
  <2> QED BY <1>1, <2>1, <2>2, <2>6, HistoryQuiet
<1> QED BY <1>3, <1>4 DEF Begin

LEMMA FailKeeps ==
  ASSUME IInv, HistoryInv, NEW c \in Clients, NEW rcs, StatementFails(c, rcs),
         UNCHANGED <<store, clock, role, asked, log>>
  PROVE  HistoryInv'
<1>1. pc'[c] = "rollback" /\ \A d \in Clients \ {c} : pc'[d] = pc[d]
  BY Parts DEF StatementFails, PCs
<1>2. txn' = txn
  BY DEF StatementFails
<1>3. Level(c)' = Level(c)
  BY DEF Level
<1>4. Attempt(c)'
  BY <1>1, <1>2, <1>3, SawKept DEF HistoryInv, Attempt, Running
<1> QED BY <1>1, <1>2, <1>4, HistoryQuiet

LEMMA ReadKeeps ==
  ASSUME IInv, HistoryInv, NEW c \in Clients, Read(c)
  PROVE  HistoryInv'
<1>1. UNCHANGED <<store, clock, role, asked, log>> /\ pc[c] = "read" /\ Running(c)
  BY DEF Read, fixed, IInv, ClientOk
<1>2. CASE StatementFails(c, OtherCodes)
  BY <1>1, <1>2, FailKeeps
<1>3. CASE /\ txn' = [txn EXCEPT ![c].reads = ReadSet(c)]
           /\ GoTo(c, IF Writes(c, txn[c].sees) THEN "write" ELSE "commit")
  <2> DEFINE next == IF Writes(c, txn[c].sees) THEN "write" ELSE "commit"
  <2>1. txn[c] \in Txns
    BY <1>1, Typed DEF Running
  <2>2. /\ txn'[c].reads = ReadSet(c) /\ txn'[c].level = txn[c].level
        /\ txn'[c].from = txn[c].from /\ txn'[c].sees = txn[c].sees
        /\ txn'[c].writes = txn[c].writes
        /\ \A d \in Clients \ {c} : txn'[d] = txn[d]
    BY <1>3, <2>1, Typed DEF Txns
  <2>3. pc'[c] = next /\ \A d \in Clients \ {c} : pc'[d] = pc[d]
    BY <1>3, Parts DEF PCs
  <2>4. Attempt(c)
    BY DEF HistoryInv
  <2>5. Level(c)' = Level(c) /\ ReadSet(c)' = ReadSet(c)
    BY <1>1 DEF Level, ReadSet
  <2>6. \A s : (Writes(c, s)' <=> Writes(c, s)) /\ Did(c, s)' = Did(c, s)
    BY <1>1 DEF Writes, Did, Update
  <2>7. pc'[c] = "commit" => Did(c, txn[c].sees) = NoWrites
    BY <2>3 DEF Did
  <2>8. txn[c].level = Level(c) /\ Saw(txn[c].from, txn[c].sees) /\ txn[c].writes = NoWrites
    BY <1>1, <2>4 DEF Attempt
  <2>9. pc'[c] \in {"write", "commit"} /\ (pc'[c] = "write" => Writes(c, txn[c].sees))
    BY <2>3
  <2>10. NoWrites' = NoWrites
    BY DEF NoWrites
  <2>11. Saw(txn[c].from, txn[c].sees)'
    BY <1>1, <2>2, <2>8, SawKept
  <2> HIDE DEF next
  <2>12. Attempt(c)'
    BY <2>2, <2>5, <2>6, <2>7, <2>8, <2>9, <2>10, <2>11 DEF Attempt
  <2> QED BY <1>1, <2>2, <2>3, <2>12, HistoryQuiet
<1> QED BY <1>2, <1>3 DEF Read

LEMMA WriteKeeps ==
  ASSUME IInv, HistoryInv, NEW c \in Clients, Write(c)
  PROVE  HistoryInv'
<1>1. UNCHANGED <<store, clock, role, asked, log>> /\ pc[c] = "write" /\ Running(c)
  BY DEF Write, fixed, IInv, ClientOk
<1>2. CASE StatementFails(c, OtherCodes) \/ StatementFails(c, {Conflict})
  BY <1>1, <1>2, FailKeeps
<1>3. CASE txn' = [txn EXCEPT ![c].writes = Update(c, txn[c].sees)] /\ GoTo(c, "commit")
  <2>1. txn[c] \in Txns
    BY <1>1, Typed DEF Running
  <2>2. /\ txn'[c].reads = txn[c].reads /\ txn'[c].level = txn[c].level
        /\ txn'[c].from = txn[c].from /\ txn'[c].sees = txn[c].sees
        /\ txn'[c].writes = Update(c, txn[c].sees)
        /\ \A d \in Clients \ {c} : txn'[d] = txn[d]
    BY <1>3, <2>1, Typed DEF Txns
  <2>3. pc'[c] = "commit" /\ \A d \in Clients \ {c} : pc'[d] = pc[d]
    BY <1>3, Parts DEF PCs
  <2>4. /\ txn[c].level = Level(c) /\ Saw(txn[c].from, txn[c].sees)
        /\ txn[c].reads = ReadSet(c) /\ Writes(c, txn[c].sees)
    BY <1>1 DEF HistoryInv, Attempt
  <2>5. Level(c)' = Level(c) /\ ReadSet(c)' = ReadSet(c)
    BY <1>1 DEF Level, ReadSet
  <2>6. \A s : Did(c, s)' = Did(c, s)
    BY <1>1 DEF Writes, Did, Update
  <2>7. Did(c, txn[c].sees) = Update(c, txn[c].sees)
    BY <2>4 DEF Did
  <2>8. Saw(txn[c].from, txn[c].sees)'
    BY <1>1, <2>2, <2>4, SawKept
  <2>9. Attempt(c)'
    BY <2>2, <2>3, <2>4, <2>5, <2>6, <2>7, <2>8 DEF Attempt
  <2> QED BY <1>1, <2>2, <2>3, <2>9, HistoryQuiet
<1> QED BY <1>2, <1>3 DEF Write

(* Rollback, and a commit that applies nothing: the transaction is gone.   *)
LEMMA EndKeeps ==
  ASSUME IInv, HistoryInv, NEW c \in Clients, txn' = [txn EXCEPT ![c] = NoTxn],
         NEW next \in PCs, GoTo(c, next), UNCHANGED <<store, clock, role, asked, log>>
  PROVE  HistoryInv'
<1>1. /\ txn'[c] = NoTxn /\ \A d \in Clients \ {c} : txn'[d] = txn[d]
      /\ \A d \in Clients \ {c} : pc'[d] = pc[d]
  BY Parts, Typed
<1>2. Attempt(c)'
  BY <1>1 DEF Attempt, Running
<1> QED BY <1>1, <1>2, HistoryQuiet

(* No set of serializable transactions brings c before itself, so those    *)
(* that have to follow c can be told from the others.                      *)
LEMMA NoCycle ==
  ASSUME NEW c \in Clients, ~Applied(c), txn[c].level = "serializable", ~ClosesCycle(c)
  PROVE  \E A \in SUBSET Serializable :
           /\ \A d \in Serializable : Precedes(Entry(c), log[d]) => d \in A
           /\ \A a \in A, d \in Serializable : a # d /\ Precedes(log[a], log[d]) => d \in A
           /\ \A a \in A : ~Precedes(log[a], Entry(c))
<1> DEFINE S == {d \in Clients : Applied(d) /\ log[d].level = "serializable"} \cup {c}
           T(d) == IF d = c THEN Entry(c) ELSE log[d]
           After(a) == {b \in S : a # b /\ Precedes(T(a), T(b))}
<1>1. S = Serializable \cup {c} /\ c \notin Serializable
  BY DEF Serializable, AppliedSet
<1>2. PICK A \in SUBSET S : /\ After(c) \subseteq A /\ c \notin A
                            /\ \A a \in A : After(a) \subseteq A
  BY DEF ClosesCycle
<1>3. A \in SUBSET Serializable
  BY <1>1, <1>2
<1>4. T(c) = Entry(c) /\ \A d \in Serializable : T(d) = log[d]
  BY <1>1
<1> HIDE DEF S, T
<1>5. ASSUME NEW d \in Serializable, Precedes(Entry(c), log[d])
      PROVE  d \in A
  <2>1. d \in After(c)
    BY <1>1, <1>4, <1>5
  <2> QED BY <1>2, <2>1
<1>6. ASSUME NEW a \in A, NEW d \in Serializable, a # d, Precedes(log[a], log[d])
      PROVE  d \in A
  <2>1. d \in After(a)
    BY <1>1, <1>3, <1>4, <1>6
  <2> QED BY <1>2, <2>1
<1>7. ASSUME NEW a \in A, Precedes(log[a], Entry(c))
      PROVE  FALSE
  <2>1. c \in After(a)
    BY <1>1, <1>3, <1>4, <1>7
  <2> QED BY <1>2, <2>1
<1> QED BY <1>3, <1>5, <1>6, <1>7

(* A commit that takes effect.                                             *)
LEMMA ApplyKeeps ==
  ASSUME IInv, HistoryInv, NEW c \in Clients, pc[c] = "commit", ~MustFail(c), Apply(c),
         GoTo(c, "rollback"), txn' = [txn EXCEPT ![c] = NoTxn], UNCHANGED <<role, asked>>
  PROVE  HistoryInv'
<1>1. /\ Running(c) /\ ~Applied(c) /\ txn[c] \in Txns /\ txn[c].from \in 0..clock
      /\ txn[c].level # "refused"
  <2>1. ClientOk(c) /\ TxnOk(c) /\ clock \in Nat /\ txn[c] \in Txns \cup {NoTxn}
    BY Typed DEF IInv
  <2>2. Running(c) /\ ~Applied(c) /\ txn[c].from <= clock
    BY <2>1 DEF ClientOk, TxnOk
  <2>3. txn[c] \in Txns
    BY <2>1, <2>2 DEF Running
  <2>4. txn[c].from \in Nat /\ txn[c].level # "refused"
    BY <2>3, Counts DEF Txns
  <2> QED BY <2>1, <2>2, <2>3, <2>4
<1>2. /\ txn'[c] = NoTxn /\ \A d \in Clients \ {c} : txn'[d] = txn[d]
      /\ \A d \in Clients \ {c} : pc'[d] = pc[d]
  BY Parts, Typed DEF PCs
<1>3. /\ log'[c] = Entry(c) /\ \A d \in Clients \ {c} : log'[d] = log[d]
  BY DEF Apply, IInv, Functions
<1>4. /\ Entry(c).at = clock + 1 /\ Entry(c).from = txn[c].from /\ Entry(c).level = txn[c].level
      /\ Entry(c).reads = txn[c].reads /\ Entry(c).writes = txn[c].writes
      /\ Written(Entry(c)) = Written(txn[c])
      /\ clock' = clock + 1 /\ clock \in Nat
  BY Typed DEF Entry, Written, Apply
<1>5. Applied(c)' /\ \A d \in Clients \ {c} : Applied(d)' <=> Applied(d)
  <2>1. NotApplied.at = 0 /\ clock + 1 # 0 /\ NotApplied' = NotApplied
    BY Typed DEF NotApplied
  <2> QED BY <1>3, <1>4, <2>1 DEF Applied
<1>6. AppliedSet' = AppliedSet \cup {c} /\ c \notin AppliedSet
  BY <1>1, <1>5 DEF AppliedSet
<1>7. \A d \in AppliedSet : d # c /\ d \in Clients /\ log'[d] = log[d]
  BY <1>3, <1>6 DEF AppliedSet
<1>8. ASSUME NEW k \in 0..clock, NEW s, Saw(k, s)
      PROVE  Saw(k, s)'
  <2>1. Until(k)' = Until(k) /\ Until(k) \in SUBSET AppliedSet
    BY <1>1, <1>3, <1>4, <1>5 DEF Until, AppliedSet
  <2>2. \A d \in Until(k) : log'[d] = log[d]
    BY <1>7, <2>1
  <2>3. ASSUME NEW i \in Items, Latest(Until(k), i, s[i])
        PROVE  Latest(Until(k), i, s[i])'
    BY <2>1, <2>2, <2>3 DEF Latest, Wrote, Written
  <2>4. Items' = Items /\ Values' = Values
    BY DEF Items, Values
  <2> QED BY <1>8, <2>3, <2>4 DEF Saw
<1>9. \A d \in Clients : Level(d)' = Level(d) /\ ReadSet(d)' = ReadSet(d)
  BY DEF Level, ReadSet
<1>10. \A d \in Clients : \A s : (Writes(d, s)' <=> Writes(d, s)) /\ Did(d, s)' = Did(d, s)
  BY DEF Writes, Did, Update
<1>11. ASSUME NEW d \in Clients
       PROVE  Attempt(d)'
  <2>1. CASE d = c
    BY <1>2, <2>1 DEF Attempt, Running
  <2>2. CASE d # c
    <3>1. txn'[d] = txn[d] /\ pc'[d] = pc[d] /\ Attempt(d)
      BY <1>2, <2>2 DEF HistoryInv
    <3>2. Running(d) => txn[d].from \in 0..clock
      <4>1. Running(d) => txn[d].from \in Nat
        BY Typed, Counts DEF Running, Txns
      <4>2. Running(d) => txn[d].from <= clock
        BY DEF IInv, TxnOk
      <4> QED BY <1>4, <4>1, <4>2
    <3> QED BY <1>8, <1>9, <1>10, <3>1, <3>2 DEF Attempt, Running
  <2> QED BY <2>1, <2>2
<1>12. /\ txn[c].level = Level(c) /\ txn[c].reads = ReadSet(c)
       /\ Saw(txn[c].from, txn[c].sees) /\ txn[c].writes = Did(c, txn[c].sees)
  BY <1>1 DEF HistoryInv, Attempt
<1>13. Effect(c)'
  <2> DEFINE s == txn[c].sees
             k == txn[c].from
  <2>1. s \in [Items -> Values] /\ k \in 0..clock /\ Saw(k, s) /\ txn[c].writes = Did(c, s)
    BY <1>1, <1>12 DEF Saw
  <2>2. /\ log'[c].at \in 1..clock' /\ log'[c].from = k /\ k \in 0..(log'[c].at - 1)
        /\ log'[c].level = Level(c) /\ log'[c].reads = ReadSet(c) /\ log'[c].writes = Did(c, s)
        /\ Level(c) # "refused"
    BY <1>1, <1>3, <1>4, <1>12, <2>1
  <2> HIDE DEF s, k
  <2>3. \E r \in [Items -> Values] : Saw(k, r) /\ Did(c, s) = Did(c, r)
    BY <2>1
  <2>4. PICK r \in [Items -> Values] : Saw(k, r) /\ Did(c, s) = Did(c, r)
    BY <2>3
  <2>5. Saw(k, r) => \A q : q = k => Saw(q, r)
    OBVIOUS
  <2>6. \A q \in 0..clock : Saw(q, r) => Saw(q, r)'
    BY <1>8
  <2> QED BY <1>9, <1>10, <2>1, <2>2, <2>4, <2>5, <2>6 DEF Effect
<1>14. ASSUME NEW d \in Clients, d # c
       PROVE  Effect(d)'
  <2>1. Effect(d) /\ log'[d] = log[d]
    BY <1>3, <1>14 DEF HistoryInv
  <2>2. CASE Applied(d)
    <3>1. PICK s \in [Items -> Values] : Saw(log[d].from, s) /\ log[d].writes = Did(d, s)
      BY <2>1, <2>2 DEF Effect
    <3>2. log[d].at \in 1..clock /\ log[d].from \in 0..(log[d].at - 1)
      BY <2>1, <2>2 DEF Effect
    <3>3. log[d].at \in 1..clock' /\ log[d].from \in 0..clock
      BY <1>4, <3>2
    <3> QED BY <1>8, <1>9, <1>10, <2>1, <2>2, <3>1, <3>2, <3>3 DEF Effect
  <2>3. CASE ~Applied(d)
    BY <1>5, <1>14, <2>3 DEF Effect
  <2> QED BY <2>2, <2>3
<1>15. ASSUME NEW i \in Items
       PROVE  Latest(AppliedSet, i, store[i])'
  <2>1. Latest(AppliedSet, i, store[i])
    BY DEF HistoryInv
  <2>2. CASE i \in Written(txn[c])
    <3>1. store'[i] = log'[c].writes[i] /\ i \in Written(log'[c])
      BY <1>3, <1>4, <2>2 DEF Apply
    <3>2. \A d \in AppliedSet' : log'[d].at <= log'[c].at
      BY <1>3, <1>4, <1>6, <1>7, Times
    <3> QED BY <1>6, <3>1, <3>2 DEF Latest, Wrote, Written
  <2>3. CASE i \notin Written(txn[c])
    <3>1. store'[i] = store[i] /\ i \notin Written(log'[c])
      BY <1>3, <1>4, <2>3 DEF Apply
    <3> QED BY <1>6, <1>7, <2>1, <3>1 DEF Latest, Wrote, Written
  <2> QED BY <2>2, <2>3
<1>16. Apart'
  <2>1. ASSUME NEW d \in AppliedSet
        PROVE  /\ log'[c].at # log'[d].at
               /\ \A i \in Items : i \in Written(log'[c]) /\ i \in Written(log'[d]) =>
                     log'[d].at <= log'[c].from
    <3>1. log'[d] = log[d] /\ log[d].at \in 1..clock /\ log'[c].at = clock + 1
          /\ log'[c].from = txn[c].from /\ d # c /\ d \in Clients /\ Applied(d)
      BY <1>3, <1>4, <1>7, Times
    <3>2. log[d].at > txn[c].from => Written(log[d]) \cap Written(txn[c]) = {}
      BY <3>1 DEF MustFail, WriteConflict, AppliedSince
    <3> QED BY <1>1, <1>3, <1>4, <3>1, <3>2
  <2>2. Apart
    BY DEF HistoryInv
  <2>3. \A d, e \in AppliedSet : d # e => /\ log'[e].at # log'[d].at
               /\ \A i \in Items : i \in Written(log'[e]) /\ i \in Written(log'[d]) =>
                     log'[e].at <= log'[d].from \/ log'[d].at <= log'[e].from
    BY <1>7, <2>2 DEF Apart, Wrote
  <2>4. \A i \in Items, d \in Clients : Wrote(d, i)' <=> i \in Written(log'[d])
    BY DEF Wrote, Written
  <2> QED BY <1>6, <2>1, <2>3, <2>4, <1>7 DEF Apart, AppliedSet
<1>17. PICK m \in Nat : \E rank \in [Clients -> 0..m] : Ranked(rank)
  BY DEF HistoryInv
<1>18. PICK rank \in [Clients -> 0..m] : Ranked(rank)
  BY <1>17
<1>19. /\ \A d \in Serializable : d # c /\ d \in Clients /\ log'[d] = log[d]
       /\ Serializable' = IF txn[c].level = "serializable" THEN Serializable \cup {c}
                                                           ELSE Serializable
  BY <1>3, <1>4, <1>6, <1>7 DEF Serializable
<1>20. CASE txn[c].level # "serializable"
  <2>1. Ranked(rank)'
    BY <1>18, <1>19, <1>20 DEF Ranked, Precedes, Written
  <2> QED BY <1>11, <1>13, <1>14, <1>15, <1>16, <2>1 DEF HistoryInv
<1>21. CASE txn[c].level = "serializable"
  <2>1. PICK A \in SUBSET Serializable :
           /\ \A d \in Serializable : Precedes(Entry(c), log[d]) => d \in A
           /\ \A a \in A, d \in Serializable : a # d /\ Precedes(log[a], log[d]) => d \in A
           /\ \A a \in A : ~Precedes(log[a], Entry(c))
    BY <1>1, <1>21, NoCycle DEF MustFail
  <2> DEFINE new == [d \in Clients |-> IF d = c THEN m + 1
                                       ELSE IF d \in A THEN rank[d] + m + 2 ELSE rank[d]]
  <2>2. new \in [Clients -> 0..(m + m + 2)]
    OBVIOUS
  <2>3. new[c] = m + 1 /\ \A d \in Serializable :
           /\ d \in A => new[d] = rank[d] + m + 2
           /\ d \notin A => new[d] = rank[d]
           /\ rank[d] \in 0..m
    BY <1>19
  <2> HIDE DEF new
  <2>4. ASSUME NEW d \in Serializable
        PROVE  /\ new[d] # new[c]
               /\ Precedes(Entry(c), log[d]) => new[c] < new[d]
               /\ Precedes(log[d], Entry(c)) => new[d] < new[c]
    BY <2>1, <2>3
  <2>5. ASSUME NEW d \in Serializable, NEW e \in Serializable, d # e
        PROVE  /\ new[d] # new[e]
               /\ Precedes(log[d], log[e]) => new[d] < new[e]
    <3>1. rank[d] # rank[e] /\ (Precedes(log[d], log[e]) => rank[d] < rank[e])
      BY <1>18, <2>5 DEF Ranked
    <3>2. d \in A /\ Precedes(log[d], log[e]) => e \in A
      BY <2>1, <2>5
    <3> QED BY <2>3, <3>1, <3>2
  <2>6. \A d, e \in Clients : Precedes(log[d], log[e])' <=> Precedes(log'[d], log'[e])
    BY DEF Precedes, Written
  <2>7. ASSUME NEW d \in Serializable', NEW e \in Serializable', d # e
        PROVE  new[d] # new[e] /\ (Precedes(log'[d], log'[e]) => new[d] < new[e])
    BY <1>3, <1>19, <1>21, <2>4, <2>5, <2>7
  <2>8. Ranked(new)'
    <3>1. Serializable' \subseteq Clients
      BY <1>19
    <3> QED BY <2>6, <2>7, <3>1 DEF Ranked
  <2>9. (\E k \in Nat : \E r \in [Clients -> 0..k] : Ranked(r))'
    <3>1. m + m + 2 \in Nat
      OBVIOUS
    <3> QED BY <2>2, <2>8, <3>1
  <2> QED BY <1>11, <1>13, <1>14, <1>15, <1>16, <2>9 DEF HistoryInv
<1> QED BY <1>20, <1>21

LEMMA HistoryStep ==
  ASSUME IInv, HistoryInv, [Next]_vars
  PROVE  HistoryInv'
<1>1. ASSUME NEW c \in Clients, Commit(c)
      PROVE  HistoryInv'
  <2>1. /\ pc[c] = "commit" /\ txn' = [txn EXCEPT ![c] = NoTxn]
        /\ GoTo(c, "rollback") /\ UNCHANGED <<role, asked>>
    BY <1>1 DEF Commit, fixed
  <2>2. CASE ~MustFail(c) /\ Apply(c)
    BY <2>1, <2>2, ApplyKeeps
  <2>3. CASE UNCHANGED <<store, clock, log>>
    BY <2>1, <2>3, EndKeeps DEF PCs
  <2> QED BY <1>1, <2>2, <2>3 DEF Commit
<1>2. ASSUME NEW c \in Clients, Rollback(c)
      PROVE  HistoryInv'
  <2>1. txn' = [txn EXCEPT ![c] = NoTxn] /\ UNCHANGED <<store, clock, role, asked, log>>
    BY <1>2 DEF Rollback, fixed
  <2>2. GoTo(c, "done") \/ GoTo(c, "begin")
    BY <1>2 DEF Rollback
  <2> QED BY <2>1, <2>2, EndKeeps DEF PCs
<1>3. CASE UNCHANGED vars
  <2>1. UNCHANGED <<store, clock, role, asked, log>> /\ pc' = pc /\ txn' = txn
    BY <1>3 DEF vars
  <2>2. ASSUME NEW c \in Clients
        PROVE  HistoryInv'
    <3>1. Level(c)' = Level(c) /\ ReadSet(c)' = ReadSet(c)
      BY <2>1 DEF Level, ReadSet
    <3>2. \A s : (Writes(c, s)' <=> Writes(c, s)) /\ Did(c, s)' = Did(c, s)
      BY <2>1 DEF Writes, Did, Update
    <3>3. Attempt(c)
      BY DEF HistoryInv
    <3>4. Attempt(c)'
      BY <2>1, <3>1, <3>2, <3>3, SawKept DEF Attempt, Running
    <3> QED BY <2>1, <3>4, HistoryQuiet
  <2>3. CASE Clients = {}
    <3>1. AppliedSet = {} /\ AppliedSet' = {} /\ Serializable' = {}
      BY <2>3 DEF AppliedSet, Serializable
    <3>2. \A i \in Items : Latest(AppliedSet, i, store[i])'
      BY <2>1, <3>1 DEF HistoryInv, Latest
    <3>3. (\E m \in Nat : \E rank \in [Clients -> 0..m] : Ranked(rank))'
      <4>1. PICK m \in Nat : \E rank \in [Clients -> 0..m] : Ranked(rank)
        BY DEF HistoryInv
      <4>2. PICK rank \in [Clients -> 0..m] : Ranked(rank)
        BY <4>1
      <4>3. Ranked(rank)'
        BY <3>1 DEF Ranked
      <4> QED BY <4>3
    <3> QED BY <2>3, <3>1, <3>2, <3>3 DEF HistoryInv, Apart
  <2> QED BY <2>2, <2>3
<1> QED BY <1>1, <1>2, <1>3, BeginKeeps, ReadKeeps, WriteKeeps DEF Next, Step, Finished

LEMMA HistoryInit ==
  ASSUME Init
  PROVE  HistoryInv
<1>1. \A c \in Clients : ~Applied(c) /\ ~Running(c)
  BY DEF Init, Applied, Running
<1>2. AppliedSet = {} /\ Serializable = {}
  BY <1>1 DEF AppliedSet, Serializable
<1>3. \A c \in Clients : Attempt(c) /\ Effect(c)
  BY <1>1 DEF Attempt, Effect
<1>4. \A i \in Items : Latest(AppliedSet, i, store[i])
  BY <1>2 DEF Init, Latest
<1>5. Ranked([c \in Clients |-> 0])
  BY <1>2 DEF Ranked
<1>6. [c \in Clients |-> 0] \in [Clients -> 0..0] /\ 0 \in Nat
  OBVIOUS
<1> QED BY <1>2, <1>3, <1>4, <1>5, <1>6 DEF HistoryInv, Apart

(* Every transaction that took effect can be explained by what it read and *)
(* by the order in which they did.                                         *)
THEOREM Explained == Spec => []HistoryInv
<1>1. Init => HistoryInv
  BY HistoryInit
<1>2. IInv /\ HistoryInv /\ [Next]_vars => HistoryInv'
  BY HistoryStep
<1> QED BY <1>1, <1>2, Inductive, PTL DEF Spec
-----------------------------------------------------------------------------
(* What a client leaves depends on the rows it reads alone.                *)
LEMMA RunTypes ==
  ASSUME NEW c \in Clients, role[c] \in Roles, NEW s \in [Items -> Nat]
  PROVE  RunOf(c, s) \in [Items -> Nat]
<1>1. s[Counter] + 1 \in Nat
  BY DEF Items
<1>2. \A i \in {role[c].item} : Update(c, s)[i] \in Nat
  BY <1>1 DEF Update
<1> QED BY <1>2 DEF RunOf

(* A serial run is the last of the states the clients of f leave in turn.  *)
LEMMA SerialFn ==
  ASSUME \A c \in Clients : role[c] \in Roles, NEW n \in Nat, NEW f \in [1..n -> Clients]
  PROVE  \E g \in [0..n -> [Items -> Nat]] :
           /\ g[0] = Initially /\ SerialRun(f, n) = g[n]
           /\ \A k \in 1..n : g[k] = RunOf(f[k], g[k - 1])
<1> DEFINE D == [Items -> Nat]
           next == [k \in 1..n |-> [s \in D |-> RunOf(f[k], s)]]
           IsAfter(h) == h = [k \in 0..n |-> IF k = 0 THEN Initially ELSE RunOf(f[k], h[k - 1])]
           after == CHOOSE h : IsAfter(h)
<1>1. Initially \in D
  BY DEF Initially
<1>2. next \in [1..n -> [D -> D]]
  BY RunTypes
<1>3. \A k \in 1..n : \A s \in D : next[k][s] = RunOf(f[k], s)
  OBVIOUS
<1> HIDE DEF D, next
<1>4. PICK g : Follows(g, D, Initially, n, next)
  BY <1>1, <1>2, Recursion
<1>5. g \in [0..n -> D] /\ g[0] = Initially /\ \A k \in 1..n : g[k] = next[k][g[k - 1]]
  BY <1>4 DEF Follows
<1>6. \A k \in 1..n : g[k] = RunOf(f[k], g[k - 1])
  <2>1. \A k \in 1..n : k - 1 \in 0..n
    OBVIOUS
  <2> QED BY <1>3, <1>5, <2>1
<1>7. IsAfter(g)
  <2>1. ASSUME NEW k \in 0..n
        PROVE  g[k] = IF k = 0 THEN Initially ELSE RunOf(f[k], g[k - 1])
    BY <1>5, <1>6
  <2> QED BY <1>5, <2>1
<1>8. IsAfter(after)
  BY <1>7, Zenon
<1>9. SerialRun(f, n) = after[n]
  BY DEF SerialRun
<1> HIDE DEF after
<1>10. after[0] = Initially /\ \A k \in 1..n : after[k] = RunOf(f[k], after[k - 1])
  BY <1>8
<1>11. Agree(after, g, n)
  BY <1>5, <1>6, <1>10 DEF Agree
<1>12. after[n] = g[n]
  BY <1>11, SameRecursion
<1> QED BY <1>5, <1>6, <1>9, <1>12 DEF D

(* In the order of the ranks c sees what it saw, and so does what it did.  *)
LEMMA SerialStep ==
  ASSUME IInv, HistoryInv, Serializable = AppliedSet,
         NEW rank, \A d \in AppliedSet : rank[d] \in Int, Ranked(rank),
         NEW c \in AppliedSet, NEW W \in SUBSET AppliedSet,
         \A d \in AppliedSet : d \in W <=> rank[d] < rank[c],
         NEW s \in [Items -> Nat], \A i \in Items : Latest(W, i, s[i])
  PROVE  \A i \in Items : Latest(W \cup {c}, i, RunOf(c, s)[i])
<1>1. c \in Clients /\ role[c] \in Roles /\ Applied(c) /\ c \notin W
  BY Typed DEF AppliedSet
<1>2. PICK seen \in [Items -> Values] :
        Saw(log[c].from, seen) /\ log[c].writes = Did(c, seen)
  BY <1>1 DEF HistoryInv, Effect
<1>3. /\ log[c].from \in Int /\ log[c].at \in Int /\ log[c].from < log[c].at
      /\ log[c].reads = ReadSet(c) /\ \A d \in AppliedSet : log[d].at \in Int
  BY Times
<1> DEFINE P == Until(log[c].from)
<1>4. P \in SUBSET AppliedSet /\ \A d \in AppliedSet : d \in P <=> log[d].at <= log[c].from
  BY DEF Until, AppliedSet
<1>5. ASSUME NEW i \in ReadSet(c), NEW d \in AppliedSet, Wrote(d, i)
      PROVE  d \in W <=> d \in P
  <2>1. CASE d \in P
    <3>1. log[d].at <= log[c].from /\ d # c
      BY <1>3, <1>4, <2>1
    <3>2. Precedes(log[d], log[c])
      BY <1>3, <1>5, <3>1 DEF Precedes, Wrote
    <3>3. rank[d] < rank[c]
      BY <3>1, <3>2 DEF Ranked
    <3> QED BY <2>1, <3>3
  <2>2. CASE d \notin P /\ d \in W
    <3>1. log[d].at > log[c].from /\ d # c
      BY <1>1, <1>3, <1>4, <2>2
    <3>2. Precedes(log[c], log[d])
      BY <1>3, <1>5, <3>1 DEF Precedes, Wrote
    <3>3. rank[c] < rank[d]
      BY <3>1, <3>2 DEF Ranked
    <3> QED BY <2>2, <3>3
  <2> QED BY <2>1, <2>2
<1>6. ASSUME NEW i \in ReadSet(c), i \in Items
      PROVE  s[i] = seen[i]
  <2>1. Latest(W, i, s[i]) /\ Latest(P, i, seen[i])
    BY <1>2, <1>6 DEF Saw
  <2> HIDE DEF P
  <2> QED BY <1>4, <1>5, <1>6, <2>1, LatestSame
<1>7. ReadSet(c) \in SUBSET Items /\ role[c].item \in ReadSet(c)
  BY <1>1, ReadsDecide
<1>8. (Writes(c, s) <=> Writes(c, seen)) /\ Update(c, s) = Update(c, seen)
  BY <1>1, <1>6, <1>7, ReadsDecide
<1> HIDE DEF P
<1>9. ASSUME NEW i \in Items, Writes(c, s), i = role[c].item
      PROVE  Latest(W \cup {c}, i, RunOf(c, s)[i])
  <2>1. RunOf(c, s)[i] = log[c].writes[i] /\ Wrote(c, i)
    BY <1>2, <1>8, <1>9 DEF RunOf, Did, Wrote, Written, Update
  <2>2. \A e \in W : Wrote(e, i) => log[e].at <= log[c].at
    BY <1>3, <1>4, <1>5, <1>7, <1>9
  <2>3. \A e \in W \cup {c} : Wrote(e, i) => log[e].at <= log[c].at
    BY <1>3, <2>2
  <2> QED BY <2>1, <2>3 DEF Latest
<1>10. ASSUME NEW i \in Items, ~(Writes(c, s) /\ i = role[c].item)
       PROVE  Latest(W \cup {c}, i, RunOf(c, s)[i])
  <2>1. RunOf(c, s)[i] = s[i]
    BY <1>10 DEF RunOf
  <2>2. ~Wrote(c, i)
    BY <1>2, <1>8, <1>10 DEF Did, Wrote, Written, Update, NoWrites
  <2> QED BY <2>1, <2>2 DEF Latest
<1> QED BY <1>9, <1>10

LEMMA OnlySerializable ==
  ASSUME IInv, HistoryInv, \A c \in AppliedSet : asked[c].level \in Strict
  PROVE  Serializable = AppliedSet
<1>1. ASSUME NEW c \in AppliedSet
      PROVE  log[c].level = "serializable"
  <2>1. log[c].level = Level(c) /\ Level(c) # "refused" /\ asked[c].level \in Strict
    BY DEF HistoryInv, Effect, AppliedSet
  <2> QED BY <2>1 DEF Level, DriverLevel, EngineLevel, Strict
<1> QED BY <1>1 DEF Serializable

(* Clients listed in the order of their ranks, run one after the other,    *)
(* leave the rows as they are.                                             *)
LEMMA InOrder ==
  ASSUME IInv, HistoryInv, Serializable = AppliedSet,
         NEW rank, \A d \in AppliedSet : rank[d] \in Int, Ranked(rank),
         NEW n \in Nat, NEW f \in [1..n -> AppliedSet],
         \A c \in AppliedSet : \E k \in 1..n : f[k] = c,
         \A j, k \in 1..n : j < k => rank[f[j]] < rank[f[k]]
  PROVE  store = SerialRun(f, n)
<1>1. f \in [1..n -> Clients] /\ \A c \in Clients : role[c] \in Roles
  BY Typed DEF AppliedSet
<1>2. PICK g \in [0..n -> [Items -> Nat]] :
        /\ g[0] = Initially /\ SerialRun(f, n) = g[n]
        /\ \A k \in 1..n : g[k] = RunOf(f[k], g[k - 1])
  BY <1>1, SerialFn
<1> DEFINE Upto(k) == {f[j] : j \in 1..k}
           Right(k) == \A i \in Items : Latest(Upto(k), i, g[k][i])
           T == {k \in Nat : k <= n => Right(k)}
<1>3. 0 \in T
  <2>1. Upto(0) = {}
    OBVIOUS
  <2> HIDE DEF Upto
  <2>2. \A i \in Items : Latest(Upto(0), i, g[0][i])
    BY <1>2, <2>1 DEF Latest
  <2> QED BY <2>2
<1>4. ASSUME NEW k \in Nat, k + 1 <= n, Right(k)
      PROVE  Right(k + 1)
  <2>1. /\ k + 1 \in 1..n /\ k \in 0..n /\ (k + 1) - 1 = k
        /\ f[k + 1] \in AppliedSet /\ Upto(k) \in SUBSET AppliedSet
    BY <1>4
  <2>2. Upto(k + 1) = Upto(k) \cup {f[k + 1]}
    <3>1. 1..(k + 1) = (1..k) \cup {k + 1}
      OBVIOUS
    <3> QED BY <3>1
  <2>3. ASSUME NEW d \in AppliedSet
        PROVE  d \in Upto(k) <=> rank[d] < rank[f[k + 1]]
    <3>1. PICK j \in 1..n : f[j] = d
      OBVIOUS
    <3>2. CASE j <= k
      <4>1. j \in 1..k /\ j < k + 1
        BY <3>2
      <4> QED BY <2>1, <3>1, <4>1
    <3>3. CASE j > k
      <4>1. j = k + 1 \/ k + 1 < j
        BY <3>3
      <4>2. ~(rank[d] < rank[f[k + 1]])
        BY <2>1, <3>1, <4>1
      <4>3. \A l \in 1..k : l \in 1..n /\ l < j
        BY <2>1, <3>3
      <4>4. d \notin Upto(k)
        <5> SUFFICES ASSUME NEW l \in 1..k, d = f[l]
                     PROVE  FALSE
          OBVIOUS
        <5>1. rank[f[l]] < rank[f[j]] /\ rank[f[l]] \in Int
          BY <4>3
        <5> QED BY <3>1, <5>1
      <4> QED BY <4>2, <4>4
    <3> QED BY <3>2, <3>3
  <2>4. g[k + 1] = RunOf(f[k + 1], g[k]) /\ g[k] \in [Items -> Nat]
    BY <1>2, <2>1
  <2>5. \A i \in Items : Latest(Upto(k), i, g[k][i])
    BY <1>4
  <2> DEFINE c == f[k + 1]
             W == Upto(k)
             s == g[k]
  <2>6. /\ c \in AppliedSet /\ W \in SUBSET AppliedSet /\ s \in [Items -> Nat]
        /\ \A d \in AppliedSet : d \in W <=> rank[d] < rank[c]
        /\ \A i \in Items : Latest(W, i, s[i])
    BY <2>1, <2>3, <2>4, <2>5
  <2> HIDE DEF Upto, c, W, s
  <2>7. \A i \in Items : Latest(W \cup {c}, i, RunOf(c, s)[i])
    BY <2>6, SerialStep
  <2> QED BY <2>2, <2>4, <2>7 DEF c, W, s
<1>5. Right(n)
  <2> HIDE DEF Right
  <2>1. \A k \in Nat : k \in T => k + 1 \in T
    BY <1>4
  <2> HIDE DEF T
  <2>2. Nat \subseteq T
    BY <1>3, <2>1, NatSetInduction
  <2> QED BY <2>2 DEF T
<1>6. Upto(n) = AppliedSet
  OBVIOUS
<1> HIDE DEF Upto
<1>7. ASSUME NEW i \in Items
      PROVE  store[i] = g[n][i]
  <2>1. Latest(AppliedSet, i, store[i]) /\ Latest(AppliedSet, i, g[n][i])
    BY <1>5, <1>6 DEF HistoryInv
  <2> QED BY <2>1, LatestSame
<1>8. g[n] \in [Items -> Nat] /\ store \in [Items -> Values]
  BY <1>2, Typed
<1> QED BY <1>2, <1>7, <1>8

LEMMA SomeOrder ==
  ASSUME IInv, HistoryInv, Serializable = AppliedSet
  PROVE  store \in SerialOutcomes(AppliedSet)
<1>1. PICK m \in Nat : \E rank \in [Clients -> 0..m] : Ranked(rank)
  BY DEF HistoryInv
<1>2. PICK rank \in [Clients -> 0..m] : Ranked(rank)
  BY <1>1
<1>3. \A d \in AppliedSet : rank[d] \in Int
  BY DEF AppliedSet
<1>4. \A c, d \in AppliedSet : c = d \/ rank[c] < rank[d] \/ rank[d] < rank[c]
  BY <1>2, <1>3 DEF Ranked
<1> DEFINE n == Cardinality(AppliedSet)
           R == {p \in AppliedSet \X AppliedSet : rank[p[1]] < rank[p[2]]}
<1>5. IsFiniteSet(AppliedSet) /\ n \in Nat
  BY Rows, FS_Subset, FS_CardinalityType DEF AppliedSet
<1>6. \A c, d \in AppliedSet : <<c, d>> \in R <=> rank[c] < rank[d]
  OBVIOUS
<1> HIDE DEF R
<1>7. PICK f \in [1..n -> AppliedSet] :
        /\ \A c \in AppliedSet : \E k \in 1..n : f[k] = c
        /\ \A j, k \in 1..n : j < k => <<f[j], f[k]>> \in R
  <2>1. /\ \A a \in AppliedSet : <<a, a>> \notin R
        /\ \A a, b, c \in AppliedSet : <<a, b>> \in R /\ <<b, c>> \in R => <<a, c>> \in R
        /\ \A a, b \in AppliedSet : a = b \/ <<a, b>> \in R \/ <<b, a>> \in R
    BY <1>3, <1>4, <1>6
  <2> QED BY <1>5, <2>1, Enumeration
<1>8. \A j, k \in 1..n : j < k => rank[f[j]] < rank[f[k]]
  BY <1>6, <1>7
<1> HIDE DEF n
<1>9. store = SerialRun(f, n)
  BY <1>2, <1>3, <1>5, <1>7, <1>8, InOrder
<1>10. \A j, k \in 1..n : f[j] = f[k] => j = k
  <2> SUFFICES ASSUME NEW j \in 1..n, NEW k \in 1..n, f[j] = f[k], j < k \/ k < j
               PROVE  FALSE
    BY <1>5
  <2>1. rank[f[j]] \in Int /\ rank[f[k]] \in Int
    BY <1>3
  <2> QED BY <1>8, <2>1
<1>11. f \in Orders(AppliedSet)
  BY <1>10 DEF Orders, n
<1> QED BY <1>9, <1>11 DEF SerialOutcomes, n

(* No write skew for those who ask not to have it: if all the clients      *)
(* whose transactions took effect asked for serializable or more, at       *)
(* either API, the rows hold what these clients leave one after the other, *)
(* in some order.                                                          *)
THEOREM NoWriteSkew == Spec => []NoSkewWhenAsked
<1>1. ASSUME IInv, HistoryInv
      PROVE  NoSkewWhenAsked
  <2>1. {c \in Clients : Applied(c)} = AppliedSet
    BY DEF AppliedSet
  <2>2. (\A c \in AppliedSet : asked[c].level \in Strict) => store \in SerialOutcomes(AppliedSet)
    BY <1>1, OnlySerializable, SomeOrder
  <2> QED BY <2>1, <2>2 DEF NoSkewWhenAsked
<1> QED BY <1>1, Inductive, Explained, PTL
=============================================================================
