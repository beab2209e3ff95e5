---------------------------- MODULE DriverProofs ----------------------------
(***************************************************************************)
(* Proofs about Driver, for every set of statements, transactions, Rows    *)
(* and handles and every size of a result set.                             *)
(***************************************************************************)
EXTENDS Driver, TLAPS
-----------------------------------------------------------------------------
(* The inductive invariant.                                                *)

(* The connection's transaction is the one of the driver.Tx that is open.  *)
TxShape ==
  /\ txn # None => handle = "open"
  /\ TxOwnsTransaction
  /\ \A t \in Txs : txs[t] = "unborn" => ctxn[t] = "none"

(* inTxn says of the C statement a stmt holds whether it was prepared in a *)
(* transaction; only open stmts hold one, and each live one has a holder.  *)
StmtShape ==
  /\ HandlesAccounted
  /\ \A s \in Stmts :
       /\ stmts[s].st = "open" => handle = "open"
       /\ stmts[s].h # None =>
            /\ stmts[s].st = "open"
            /\ stmts[s].inTxn <=> cstmt[stmts[s].h].ctx # None

(* A Rows that is alone with its statement is where the statement is: on   *)
(* the row it will deliver next, or delivered last.                        *)
FollowsQuery(w, r, c) ==
  /\ w.own
  /\ w.end # "no" => w.done
  /\ w.done => ~w.pending /\ (w.end # "err" => w.got = w.size)
  /\ ~w.done => /\ w.end = "no"
                /\ c.phase = "row" /\ c.run = r /\ c.size = w.size
                /\ w.pending => c.at = 1 /\ w.got = 0 /\ w.size > 0
                /\ ~w.pending => c.at = w.got

RowOk(r) ==
  /\ rows[r].st = "unborn" => rows[r] = NoRows
  /\ rows[r].st = "closed" => rows[r].own /\ rows[r].end = "no"
  /\ rows[r].st = "open" =>
       /\ rows[r].s \in Stmts
       /\ ~rows[r].shared =>
            /\ Source(r) # None /\ FollowsQuery(rows[r], r, cstmt[Source(r)])
            /\ \A q \in Rowsets :
                 rows[q].st = "open" /\ rows[q].s = rows[r].s => q = r

RowShape == \A r \in Rowsets : RowOk(r)

IInv == TypeOK /\ TxShape /\ StmtShape /\ RowShape /\ InOwnContext
-----------------------------------------------------------------------------
(* Typing of what the actions are made of.                                 *)
LEMMA FreedTyped == Freed \in CStatements /\ Freed.phase = "freed"
BY Bounds DEF Freed, CStatements, Contexts

LEMMA Typed ==
  ASSUME NEW ctx \in Contexts, NEW c \in CStatements
  PROVE  /\ Prepared(ctx) \in CStatements /\ Prepared(ctx).ctx = ctx
         /\ Prepared(ctx).phase = "ready"
         /\ Rewound(c) \in CStatements /\ Rewound(c).ctx = c.ctx
         /\ Rewound(c).phase = "ready"
         /\ Ended(c) \in CStatements /\ Ended(c).ctx = c.ctx
         /\ Ended(c).phase = "done"
         /\ c.ctx \in Contexts
<1>2. \A x \in Contexts : /\ Prepared(x) \in CStatements /\ Prepared(x).ctx = x
                          /\ Prepared(x).phase = "ready"
  BY FreedTyped DEF Prepared, Freed, CStatements
<1>3. c.ctx \in Contexts
  BY DEF CStatements
<1>4. Rewound(c) \in CStatements /\ Rewound(c).ctx = c.ctx /\ Rewound(c).phase = "ready"
  BY <1>2, <1>3 DEF Rewound
<1>5. Ended(c) \in CStatements /\ Ended(c).ctx = c.ctx /\ Ended(c).phase = "done"
  BY <1>4 DEF Ended, CStatements
<1> QED BY <1>2, <1>3, <1>4, <1>5

LEMMA TypedRun ==
  ASSUME NEW c \in CStatements
  PROVE  /\ Rewound(c) \in CStatements /\ Rewound(c).ctx = c.ctx
         /\ Rewound(c).phase = "ready"
         /\ Ended(c) \in CStatements /\ Ended(c).ctx = c.ctx
         /\ Ended(c).phase = "done" /\ c.ctx \in Contexts
<1>1. None \in Contexts
  BY DEF Contexts
<1> QED BY <1>1, Typed

LEMMA FinalizedIs ==
  ASSUME TypeOK, NEW s \in Stmts
  PROVE  /\ Finalized(s) \in [Handles -> CStatements]
         /\ \A h \in Handles : Finalized(s)[h] = IF h = stmts[s].h THEN Freed ELSE cstmt[h]
BY FreedTyped, NilIsNothing DEF TypeOK, Finalized

LEMMA SharedIs ==
  ASSUME TypeOK, NEW s \in Stmts
  PROVE  /\ Shared(s) \in [Rowsets -> Cursors]
         /\ \A r \in Rowsets :
              /\ r \in OpenOn(s) => Shared(s)[r] = [rows[r] EXCEPT !.shared = TRUE]
              /\ r \notin OpenOn(s) => Shared(s)[r] = rows[r]
<1>1. \A r \in Rowsets : [rows[r] EXCEPT !.shared = TRUE] \in Cursors
  <2>1. \A w \in Cursors : [w EXCEPT !.shared = TRUE] \in Cursors
    BY DEF Cursors
  <2> QED BY <2>1 DEF TypeOK
<1>2. rows \in [Rowsets -> Cursors] /\ OpenOn(s) \subseteq Rowsets
  BY DEF TypeOK, OpenOn
<1> QED BY <1>1, <1>2 DEF Shared

(* The C statement a stmt runs: live, of the context of the connection in  *)
(* kind, and of the very context if it can run at all.                     *)
LEMMA Ensured ==
  ASSUME IInv, NEW s \in Stmts, NEW p \in EnsurePrepared(s)
  PROVE  /\ p.h \in Handles /\ p.live \in [Handles -> CStatements]
         /\ p.live[p.h].phase # "freed"
         /\ p.live[p.h].ctx # None <=> txn # None
         /\ CanRun(p.live[p.h]) => p.live[p.h].ctx = txn
         /\ cstmt[p.h].phase = "freed" \/ p.h = stmts[s].h
         /\ \A h \in Handles : h # p.h =>
              p.live[h] = IF h = stmts[s].h THEN Freed ELSE cstmt[h]
<1>1. CASE Kept(s)
  <2>1. p.h = stmts[s].h /\ p.live = cstmt /\ stmts[s].h \in Handles
    BY <1>1 DEF EnsurePrepared, Kept, IInv, TypeOK
  <2>2. cstmt[p.h].ctx # None <=> txn # None
    BY <1>1, <2>1 DEF Kept, IInv, StmtShape
  <2>3. cstmt[p.h].ctx \in Contexts /\ txn \in Contexts
    BY <2>1 DEF IInv, TypeOK, CStatements
  <2>4. CanRun(cstmt[p.h]) => cstmt[p.h].ctx = txn
    BY <2>2, <2>3 DEF CanRun, IInv, TxShape, TxOwnsTransaction, Contexts
  <2> QED BY <1>1, <2>1, <2>2, <2>4 DEF IInv, TypeOK, StmtShape, HandlesAccounted, Kept
<1>2. CASE ~Kept(s)
  <2>1. PICK h \in FreeIn(Finalized(s)) :
          p = [h |-> h, live |-> [Finalized(s) EXCEPT ![h] = Prepared(txn)]]
    BY <1>2 DEF EnsurePrepared
  <2>2. h \in Handles /\ Finalized(s)[h].phase = "freed"
    BY <2>1 DEF FreeIn
  <2>3. txn \in Contexts /\ Prepared(txn) \in CStatements /\ Prepared(txn).ctx = txn
        /\ Prepared(txn).phase = "ready"
    BY Typed, <2>2 DEF IInv, TypeOK
  <2>4. p.h = h /\ p.live[h] = Prepared(txn) /\ p.live \in [Handles -> CStatements]
        /\ \A g \in Handles : g # h => p.live[g] = Finalized(s)[g]
    BY <2>1, <2>2, <2>3, FinalizedIs DEF IInv
  <2>5. cstmt[h].phase = "freed" \/ h = stmts[s].h
    BY <2>2, FinalizedIs DEF IInv
  <2> QED BY <2>2, <2>3, <2>4, <2>5, FinalizedIs DEF IInv
<1> QED BY <1>1, <1>2
-----------------------------------------------------------------------------
(* A step that uses s leaves the other stmts and their C statements alone. *)
StmtTypes == [Stmts -> [st : {"unborn", "open", "closed"},
                        h : Handles \cup {None}, inTxn : BOOLEAN]]
Typing == stmts' \in StmtTypes /\ cstmt' \in [Handles -> CStatements]

OnlyOn(s) ==
  /\ \A u \in Stmts : u # s => stmts'[u] = stmts[u]
  /\ stmts'[s].st = "open" => handle = "open"
  /\ stmts'[s].h # None =>
       /\ stmts'[s].st = "open"
       /\ cstmt'[stmts'[s].h].phase # "freed"
       /\ stmts'[s].inTxn <=> cstmt'[stmts'[s].h].ctx # None
       /\ cstmt[stmts'[s].h].phase = "freed" \/ stmts'[s].h = stmts[s].h
  /\ \A h \in Handles : h # stmts'[s].h =>
       cstmt'[h] = IF h = stmts[s].h THEN Freed ELSE cstmt[h]

LEMMA OthersKept ==
  ASSUME IInv, NEW s \in Stmts, Typing, OnlyOn(s),
         NEW u \in Stmts, u # s, stmts[u].h # None
  PROVE  /\ stmts'[u].h = stmts[u].h /\ stmts[u].h \in Handles
         /\ cstmt'[stmts[u].h] = cstmt[stmts[u].h]
         /\ stmts[u].h # stmts'[s].h /\ stmts[u].h # stmts[s].h
<1>1. stmts[u].h \in Handles /\ cstmt[stmts[u].h].phase # "freed"
  BY DEF IInv, TypeOK, StmtShape, HandlesAccounted
<1>2. stmts[u].h # stmts[s].h
  BY DEF IInv, StmtShape, HandlesAccounted
<1>3. stmts[u].h # stmts'[s].h
  BY <1>1, <1>2 DEF OnlyOn
<1> QED BY <1>1, <1>2, <1>3 DEF OnlyOn

LEMMA StmtStep ==
  ASSUME IInv, NEW s \in Stmts, Typing, OnlyOn(s), handle' = handle
  PROVE  StmtShape'
<1>1. ASSUME NEW u \in Stmts
      PROVE  /\ stmts'[u].st = "open" => handle' = "open"
             /\ stmts'[u].h # None =>
                  /\ stmts'[u].st = "open"
                  /\ stmts'[u].inTxn <=> cstmt'[stmts'[u].h].ctx # None
                  /\ cstmt'[stmts'[u].h].phase # "freed" /\ handle' = "open"
  <2>1. CASE u = s
    BY <2>1 DEF OnlyOn
  <2>2. CASE u # s
    <3>1. stmts'[u] = stmts[u]
      BY <2>2 DEF OnlyOn
    <3>2. CASE stmts[u].h = None
      BY <3>1, <3>2 DEF IInv, StmtShape
    <3>3. CASE stmts[u].h # None
      BY <2>2, <3>1, <3>3, OthersKept DEF IInv, StmtShape, HandlesAccounted
    <3> QED BY <3>2, <3>3
  <2> QED BY <2>1, <2>2
<1>2. ASSUME NEW u \in Stmts, NEW v \in Stmts, stmts'[u].h # None,
             stmts'[u].h = stmts'[v].h
      PROVE  u = v
  <2>1. CASE u # s /\ v # s
    BY <1>2, <2>1 DEF OnlyOn, IInv, StmtShape, HandlesAccounted
  <2>2. CASE u = s /\ v # s
    BY <1>2, <2>2, OthersKept DEF OnlyOn
  <2>3. CASE u # s /\ v = s
    BY <1>2, <2>3, OthersKept DEF OnlyOn
  <2> QED BY <2>1, <2>2, <2>3
<1>3. ASSUME NEW h \in Handles, cstmt'[h].phase # "freed"
      PROVE  \E u \in Stmts : stmts'[u].st = "open" /\ stmts'[u].h = h
  <2>0. h # None
    BY NilIsNothing
  <2>1. CASE h = stmts'[s].h
    BY <2>0, <2>1 DEF OnlyOn
  <2>2. CASE h # stmts'[s].h
    <3>1. h # stmts[s].h /\ cstmt[h].phase # "freed"
      BY <1>3, <2>2, FreedTyped DEF OnlyOn
    <3>2. PICK u \in Stmts : stmts[u].st = "open" /\ stmts[u].h = h
      BY <3>1 DEF IInv, StmtShape, HandlesAccounted
    <3>3. stmts'[u] = stmts[u]
      BY <3>1, <3>2 DEF OnlyOn
    <3> QED BY <3>2, <3>3
  <2> QED BY <2>1, <2>2
<1> QED BY <1>1, <1>2, <1>3 DEF StmtShape, HandlesAccounted

(* The Rows of other stmts go on as before, those of s are now shared.     *)
LEMMA RowKept ==
  ASSUME IInv, NEW s \in Stmts, Typing, OnlyOn(s), NEW r \in Rowsets,
         rows'[r] = rows[r],
         rows[r].st = "open" /\ ~rows[r].shared => rows[r].s # s,
         \A q \in Rowsets : rows'[q].st = "open" /\ rows'[q].s # s => rows'[q] = rows[q]
  PROVE  RowOk(r)'
<1>1. RowOk(r)
  BY DEF IInv, RowShape
<1>2. CASE rows[r].st # "open" \/ rows[r].shared
  BY <1>1, <1>2 DEF RowOk
<1>3. CASE rows[r].st = "open" /\ ~rows[r].shared
  <2>1. rows[r].s \in Stmts /\ rows[r].s # s /\ stmts[rows[r].s].h # None
    BY <1>1, <1>3 DEF RowOk, Source
  <2>2. /\ stmts'[rows[r].s].h = stmts[rows[r].s].h
        /\ cstmt'[stmts[rows[r].s].h] = cstmt[stmts[rows[r].s].h]
    BY <2>1, OthersKept
  <2>3. ASSUME NEW q \in Rowsets, rows'[q].st = "open", rows'[q].s = rows'[r].s
        PROVE  q = r
    <3>1. rows'[q] = rows[q]
      BY <2>1, <2>3
    <3> QED BY <1>1, <1>3, <2>3, <3>1 DEF RowOk
  <2>4. Source(r)' = Source(r) /\ cstmt'[Source(r)'] = cstmt[Source(r)]
    BY <2>2 DEF Source
  <2>5. FollowsQuery(rows'[r], r, cstmt'[Source(r)'])
    BY <1>1, <1>3, <2>4 DEF RowOk
  <2> QED BY <1>3, <2>1, <2>2, <2>3, <2>4, <2>5 DEF RowOk, Source
<1> QED BY <1>2, <1>3

LEMMA RowsUnderUse ==
  ASSUME IInv, NEW s \in Stmts, Typing, OnlyOn(s), NEW r \in Rowsets,
         rows'[r] = Shared(s)[r],
         \A q \in Rowsets : rows'[q].st = "open" /\ rows'[q].s # s => rows'[q] = rows[q]
  PROVE  RowOk(r)'
<1>1. CASE r \in OpenOn(s)
  <2>1. rows[r] \in Cursors /\ rows'[r] = [rows[r] EXCEPT !.shared = TRUE]
    BY <1>1, SharedIs DEF IInv, TypeOK
  <2>2. rows'[r].shared /\ rows'[r].st = "open" /\ rows'[r].s = s
    BY <1>1, <2>1 DEF OpenOn, Cursors
  <2> QED BY <2>2 DEF RowOk
<1>2. CASE r \notin OpenOn(s)
  <2>1. rows'[r] = rows[r] /\ (rows[r].st = "open" => rows[r].s # s)
    BY <1>2, SharedIs DEF IInv, OpenOn
  <2> QED BY <2>1, RowKept
<1> QED BY <1>1, <1>2

(* Under a use of s that opens no Rows.                                    *)
LEMMA SharedStep ==
  ASSUME IInv, NEW s \in Stmts, Typing, OnlyOn(s), rows' = Shared(s)
  PROVE  rows' \in [Rowsets -> Cursors] /\ RowShape'
<1>1. ASSUME NEW q \in Rowsets, rows'[q].st = "open", rows'[q].s # s
      PROVE  rows'[q] = rows[q]
  <2>1. rows[q] \in Cursors
    BY DEF IInv, TypeOK
  <2>2. CASE q \in OpenOn(s)
    <3>1. rows'[q] = [rows[q] EXCEPT !.shared = TRUE] /\ rows[q].s = s
      BY <2>2, SharedIs DEF IInv, OpenOn
    <3>2. rows'[q].s = s
      BY <2>1, <3>1 DEF Cursors
    <3> QED BY <1>1, <3>2
  <2>3. CASE q \notin OpenOn(s)
    BY <2>3, SharedIs DEF IInv
  <2> QED BY <2>2, <2>3
<1> QED BY <1>1, SharedIs, RowsUnderUse DEF IInv, RowShape

(* Running the statement s holds after ensurePrepared leaves it in some    *)
(* live state c.                                                           *)
LEMMA RunEffect ==
  ASSUME IInv, NEW s \in Stmts, stmts[s].st = "open", NEW p \in EnsurePrepared(s),
         Holds(s, p), NEW c \in CStatements, c.phase # "freed",
         c.ctx = p.live[p.h].ctx, cstmt' = [p.live EXCEPT ![p.h] = c]
  PROVE  /\ Typing /\ OnlyOn(s)
         /\ stmts'[s].h = p.h /\ p.h # None /\ cstmt'[p.h] = c
<1>1. /\ p.h \in Handles /\ p.live \in [Handles -> CStatements]
      /\ p.live[p.h].ctx # None <=> txn # None
      /\ cstmt[p.h].phase = "freed" \/ p.h = stmts[s].h
      /\ \A h \in Handles : h # p.h =>
           p.live[h] = IF h = stmts[s].h THEN Freed ELSE cstmt[h]
  BY Ensured
<1>2. p.h # None /\ handle = "open"
  BY <1>1, NilIsNothing DEF IInv, StmtShape
<1>3. /\ stmts' \in StmtTypes
      /\ \A u \in Stmts : u # s => stmts'[u] = stmts[u]
      /\ stmts'[s].st = "open" /\ stmts'[s].h = p.h
      /\ stmts'[s].inTxn = (txn # None)
  <2>1. stmts \in StmtTypes
    BY DEF IInv, TypeOK, StmtTypes
  <2>2. stmts' = [stmts EXCEPT ![s] = [stmts[s] EXCEPT !.h = p.h, !.inTxn = txn # None]]
    BY <2>1 DEF Holds, StmtTypes
  <2>3. /\ [stmts[s] EXCEPT !.h = p.h, !.inTxn = txn # None] \in
             [st : {"unborn", "open", "closed"}, h : Handles \cup {None}, inTxn : BOOLEAN]
        /\ [stmts[s] EXCEPT !.h = p.h, !.inTxn = txn # None].st = "open"
        /\ [stmts[s] EXCEPT !.h = p.h, !.inTxn = txn # None].h = p.h
        /\ [stmts[s] EXCEPT !.h = p.h, !.inTxn = txn # None].inTxn = (txn # None)
    BY <1>1, <2>1 DEF StmtTypes
  <2> QED BY <2>1, <2>2, <2>3 DEF StmtTypes
<1>4. /\ cstmt' \in [Handles -> CStatements] /\ cstmt'[p.h] = c
      /\ \A h \in Handles : h # p.h => cstmt'[h] = p.live[h]
  BY <1>1
<1>5. Typing
  BY <1>3, <1>4 DEF Typing
<1>6. OnlyOn(s)
  BY <1>1, <1>2, <1>3, <1>4 DEF OnlyOn
<1> QED BY <1>2, <1>3, <1>4, <1>5, <1>6

LEMMA RunFailsEffect ==
  ASSUME IInv, NEW s \in Stmts, stmts[s].st = "open", NEW p \in EnsurePrepared(s),
         Holds(s, p), RunFails(p)
  PROVE  Typing /\ OnlyOn(s) /\ latest' = [err |-> "error", want |-> txn, ctx |-> p.live[p.h].ctx]
         /\ p.live[p.h].ctx \in Contexts
<1>1. /\ p.h \in Handles /\ p.live \in [Handles -> CStatements]
      /\ p.live[p.h] \in CStatements /\ p.live[p.h].phase # "freed"
  BY Ensured
<1>2. PICK c \in {p.live[p.h], Rewound(p.live[p.h]), Ended(p.live[p.h])} :
        cstmt' = [p.live EXCEPT ![p.h] = c]
  BY <1>1 DEF RunFails
<1>3. c \in CStatements /\ c.phase # "freed" /\ c.ctx = p.live[p.h].ctx
      /\ p.live[p.h].ctx \in Contexts
  <2>1. CASE c = p.live[p.h]
    BY <1>1, <2>1, TypedRun
  <2>2. CASE c = Rewound(p.live[p.h])
    BY <1>1, <2>2, TypedRun
  <2>3. CASE c = Ended(p.live[p.h])
    BY <1>1, <2>3, TypedRun
  <2> QED BY <1>2, <2>1, <2>2, <2>3
<1> QED BY <1>2, <1>3, RunEffect DEF RunFails, AnswersRun

(* A use of s that leaves it without a C statement.                        *)
LEMMA NoneHeld ==
  ASSUME IInv, NEW s \in Stmts, stmts[s].st = "open", cstmt' = Finalized(s),
         NEW st \in {"open", "closed"},
         stmts' = [stmts EXCEPT ![s] = [stmts[s] EXCEPT !.st = st, !.h = None]]
  PROVE  Typing /\ OnlyOn(s)
<1>1. stmts \in StmtTypes /\ handle = "open"
  BY DEF IInv, TypeOK, StmtTypes, StmtShape
<1>2. /\ [stmts[s] EXCEPT !.st = st, !.h = None] \in
           [st : {"unborn", "open", "closed"}, h : Handles \cup {None}, inTxn : BOOLEAN]
      /\ [stmts[s] EXCEPT !.st = st, !.h = None].h = None
  BY <1>1 DEF StmtTypes
<1>3. /\ stmts' \in StmtTypes /\ stmts'[s].h = None
      /\ \A u \in Stmts : u # s => stmts'[u] = stmts[u]
  BY <1>1, <1>2 DEF StmtTypes
<1>4. /\ cstmt' \in [Handles -> CStatements]
      /\ \A h \in Handles : cstmt'[h] = IF h = stmts[s].h THEN Freed ELSE cstmt[h]
  BY FinalizedIs DEF IInv
<1> QED BY <1>1, <1>3, <1>4 DEF Typing, OnlyOn

LEMMA PrepareFailsEffect ==
  ASSUME IInv, NEW s \in Stmts, stmts[s].st = "open", PrepareFails(s)
  PROVE  Typing /\ OnlyOn(s)
<1>1. stmts \in StmtTypes
  BY DEF IInv, TypeOK, StmtTypes
<1>2. stmts' = [stmts EXCEPT ![s] = [stmts[s] EXCEPT !.st = "open", !.h = None]]
  BY <1>1 DEF PrepareFails, StmtTypes
<1> QED BY <1>2, NoneHeld DEF PrepareFails
-----------------------------------------------------------------------------
(* One lemma per group of actions: each preserves the invariant.           *)
Told == latest' \in [err : {"nil", "error"}, want : Contexts, ctx : Contexts]

LEMMA AnswersTold ==
  ASSUME IInv, NEW err \in {"nil", "error"}, Answers(err)
  PROVE  Told /\ InOwnContext'
BY DEF Answers, Told, InOwnContext, Contexts

LEMMA TxKept ==
  ASSUME IInv, UNCHANGED <<handle, txn, txs, ctxn>>
  PROVE  TxShape'
BY DEF IInv, TxShape, TxOwnsTransaction

LEMMA StmtAction ==
  ASSUME IInv, NEW s \in Stmts, Typing, OnlyOn(s), Told, InOwnContext',
         rows' \in [Rowsets -> Cursors] /\ RowShape',
         UNCHANGED <<handle, txn, txs, ctxn>>
  PROVE  IInv'
<1>1. StmtShape'
  BY StmtStep
<1>2. TxShape'
  BY TxKept
<1>3. TypeOK'
  BY DEF IInv, TypeOK, Typing, StmtTypes, Told
<1> QED BY <1>1, <1>2, <1>3 DEF IInv

LEMMA PrepareStep ==
  ASSUME IInv, NEW s \in Stmts, Prepare(s)
  PROVE  IInv'
<1>1. stmts \in StmtTypes /\ cstmt \in [Handles -> CStatements]
      /\ txn \in Contexts /\ rows \in [Rowsets -> Cursors] /\ stmts[s].h = None
      /\ stmts[s].st = "unborn"
  BY DEF IInv, TypeOK, StmtTypes, StmtShape, Prepare
<1>2. Told /\ InOwnContext'
  BY AnswersTold DEF Prepare
<1>3. Typing /\ OnlyOn(s)
  <2>1. CASE UNCHANGED <<stmts, cstmt>>
    BY <1>1, <2>1, NilIsNothing DEF Typing, OnlyOn
  <2>2. CASE ~UNCHANGED <<stmts, cstmt>>
    <3>1. PICK h \in FreeIn(cstmt) :
            /\ cstmt' = [cstmt EXCEPT ![h] = Prepared(txn)]
            /\ stmts' = [stmts EXCEPT ![s] = [st |-> "open", h |-> h, inTxn |-> txn # None]]
            /\ handle = "open"
      BY <2>2 DEF Prepare
    <3>2. h \in Handles /\ cstmt[h].phase = "freed" /\ h # None
      BY <3>1, NilIsNothing DEF FreeIn
    <3>3. /\ Prepared(txn) \in CStatements /\ Prepared(txn).ctx = txn
          /\ Prepared(txn).phase = "ready"
      BY <1>1, <3>2, Typed
    <3>4. /\ stmts' \in StmtTypes /\ stmts'[s].h = h /\ stmts'[s].st = "open"
          /\ stmts'[s].inTxn = (txn # None)
          /\ \A u \in Stmts : u # s => stmts'[u] = stmts[u]
      BY <1>1, <3>1, <3>2 DEF StmtTypes
    <3>5. /\ cstmt' \in [Handles -> CStatements] /\ cstmt'[h] = Prepared(txn)
          /\ \A g \in Handles : g # h => cstmt'[g] = cstmt[g]
      BY <1>1, <3>1, <3>2, <3>3
    <3> QED BY <1>1, <3>1, <3>2, <3>3, <3>4, <3>5, NilIsNothing DEF Typing, OnlyOn
  <2> QED BY <2>1, <2>2
<1>4. rows' = rows
  BY DEF Prepare
<1>5. ASSUME NEW r \in Rowsets PROVE RowOk(r)'
  <2>1. rows[r].st = "open" /\ ~rows[r].shared => rows[r].s # s
    BY <1>1 DEF IInv, RowShape, RowOk, Source
  <2> QED BY <1>3, <1>4, <2>1, RowKept
<1> QED BY <1>1, <1>2, <1>3, <1>4, <1>5, StmtAction DEF Prepare, RowShape

LEMMA ExecStep ==
  ASSUME IInv, NEW s \in Stmts, Exec(s)
  PROVE  IInv'
<1>0. stmts[s].st = "open" /\ txn \in Contexts
  BY DEF Exec, IInv, TypeOK
<1>1. Typing /\ OnlyOn(s) /\ Told /\ InOwnContext'
  <2>1. CASE PrepareFails(s)
    BY <1>0, <2>1, PrepareFailsEffect, AnswersTold DEF PrepareFails
  <2>2. ASSUME NEW p \in EnsurePrepared(s), Holds(s, p), RunFails(p)
        PROVE  Typing /\ OnlyOn(s) /\ Told /\ InOwnContext'
    BY <1>0, <2>2, RunFailsEffect DEF Told, InOwnContext
  <2>3. ASSUME NEW p \in EnsurePrepared(s), Holds(s, p), CanRun(p.live[p.h]),
               cstmt' = [p.live EXCEPT ![p.h] = Ended(p.live[p.h])],
               AnswersRun("nil", p.live[p.h].ctx)
        PROVE  Typing /\ OnlyOn(s) /\ Told /\ InOwnContext'
    <3>1. p.live[p.h] \in CStatements /\ p.live[p.h].ctx = txn
      BY <2>3, Ensured
    <3>2. /\ Ended(p.live[p.h]) \in CStatements /\ Ended(p.live[p.h]).phase = "done"
          /\ Ended(p.live[p.h]).ctx = p.live[p.h].ctx
      BY <3>1, TypedRun
    <3>3. Typing /\ OnlyOn(s)
      BY <1>0, <2>3, <3>2, RunEffect
    <3> QED BY <1>0, <2>3, <3>1, <3>3 DEF AnswersRun, Told, InOwnContext
  <2>4. \/ PrepareFails(s)
        \/ \E p \in EnsurePrepared(s) : Holds(s, p) /\ RunFails(p)
        \/ \E p \in EnsurePrepared(s) :
             /\ Holds(s, p) /\ CanRun(p.live[p.h])
             /\ cstmt' = [p.live EXCEPT ![p.h] = Ended(p.live[p.h])]
             /\ AnswersRun("nil", p.live[p.h].ctx)
    <3>1. \A p \in EnsurePrepared(s) : p.h \in Handles /\ p.live \in [Handles -> CStatements]
      BY Ensured
    <3> QED BY <3>1 DEF Exec
  <2> QED BY <2>1, <2>2, <2>3, <2>4
<1>2. rows' \in [Rowsets -> Cursors] /\ RowShape'
  BY <1>1, SharedStep DEF Exec
<1> QED BY <1>1, <1>2, StmtAction DEF Exec

LEMMA StmtCloseStep ==
  ASSUME IInv, NEW s \in Stmts, StmtClose(s)
  PROVE  IInv'
<1>1. Told /\ InOwnContext'
  BY AnswersTold DEF StmtClose
<1>2. Typing /\ OnlyOn(s)
  <2>1. stmts \in StmtTypes
    BY DEF IInv, TypeOK, StmtTypes
  <2>2. stmts' = [stmts EXCEPT ![s] = [stmts[s] EXCEPT !.st = "closed", !.h = None]]
    BY <2>1 DEF StmtClose, StmtTypes
  <2> QED BY <2>2, NoneHeld DEF StmtClose
<1>3. rows' \in [Rowsets -> Cursors] /\ RowShape'
  BY <1>2, SharedStep DEF StmtClose
<1> QED BY <1>1, <1>2, <1>3, StmtAction DEF StmtClose

(* A Query that hands out Rows r: s is run anew for r, on its first row.   *)
LEMMA QueryOpens ==
  ASSUME IInv, NEW s \in Stmts, NEW r \in Rowsets, stmts[s].st = "open",
         rows[r].st = "unborn", NEW p \in EnsurePrepared(s), Holds(s, p),
         CanRun(p.live[p.h]), NEW k \in 0..MaxRows,
         cstmt' = [p.live EXCEPT ![p.h] =
                     [ctx |-> p.live[p.h].ctx, run |-> r, size |-> k,
                      phase |-> IF k > 0 THEN "row" ELSE "done",
                      at |-> IF k > 0 THEN 1 ELSE 0]],
         rows' = [Shared(s) EXCEPT ![r] = Opened(s, k)],
         AnswersRun("nil", p.live[p.h].ctx)
  PROVE  /\ Typing /\ OnlyOn(s) /\ Told /\ InOwnContext'
         /\ rows' \in [Rowsets -> Cursors] /\ RowShape'
<1> DEFINE c == [ctx |-> p.live[p.h].ctx, run |-> r, size |-> k,
                 phase |-> IF k > 0 THEN "row" ELSE "done",
                 at |-> IF k > 0 THEN 1 ELSE 0]
           w == Opened(s, k)
<1>1. p.live[p.h] \in CStatements /\ p.live[p.h].ctx = txn /\ txn \in Contexts
  BY Ensured DEF IInv, TypeOK
<1>2. c \in CStatements /\ c.phase # "freed" /\ c.ctx = p.live[p.h].ctx
  BY <1>1, Bounds DEF CStatements
<1>3. cstmt' = [p.live EXCEPT ![p.h] = c]
  OBVIOUS
<1>4. Typing /\ OnlyOn(s) /\ stmts'[s].h = p.h /\ p.h # None /\ cstmt'[p.h] = c
  <2> HIDE DEF c
  <2> QED BY <1>2, <1>3, RunEffect
<1>5. Told /\ InOwnContext'
  BY <1>1 DEF AnswersRun, Told, InOwnContext
<1>7. w \in Cursors /\ w.st = "open" /\ w.s = s /\ w.shared = (OpenOn(s) # {})
  BY Bounds DEF Opened, Cursors
<1>8. rows' \in [Rowsets -> Cursors] /\ rows'[r] = w
      /\ \A q \in Rowsets : q # r => rows'[q] = Shared(s)[q]
  BY <1>7, SharedIs DEF IInv
<1>9. ASSUME NEW q \in Rowsets, rows'[q].st = "open", rows'[q].s # s
      PROVE  rows'[q] = rows[q]
  <2>1. q # r /\ rows'[q] = Shared(s)[q] /\ rows[q] \in Cursors
    BY <1>7, <1>8, <1>9 DEF IInv, TypeOK
  <2>2. q \in OpenOn(s) => rows'[q].s = s
    <3>1. SUFFICES ASSUME q \in OpenOn(s) PROVE rows'[q].s = s
      OBVIOUS
    <3>2. rows'[q] = [rows[q] EXCEPT !.shared = TRUE] /\ rows[q].s = s
      BY <2>1, <3>1, SharedIs DEF IInv, OpenOn
    <3> QED BY <2>1, <3>2 DEF Cursors
  <2> QED BY <1>9, <2>1, <2>2, SharedIs DEF IInv
<1>10. ASSUME NEW q \in Rowsets PROVE RowOk(q)'
  <2>1. CASE q # r
    BY <1>4, <1>8, <1>9, <2>1, RowsUnderUse
  <2>2. CASE q = r
    <3>1. Source(r)' = p.h
      BY <1>4, <1>7, <1>8 DEF Source
    <3>2. FollowsQuery(w, r, c)
      <4>1. /\ w.own /\ w.end = "no" /\ w.got = 0 /\ w.size = k
            /\ w.done <=> k = 0
            /\ w.pending <=> k > 0
        BY DEF Opened
      <4>2. /\ c.run = r /\ c.size = k
            /\ k > 0 => c.phase = "row" /\ c.at = 1
        OBVIOUS
      <4>3. k \in Nat
        BY Bounds
      <4> HIDE DEF w, c
      <4> QED BY <4>1, <4>2, <4>3 DEF FollowsQuery
    <3>3. ASSUME ~w.shared, NEW v \in Rowsets, rows'[v].st = "open", rows'[v].s = s
          PROVE  v = r
      <4>1. SUFFICES ASSUME v # r PROVE FALSE
        OBVIOUS
      <4>2. rows'[v] = rows[v] /\ v \notin OpenOn(s)
        <5> HIDE DEF w
        <5>1. OpenOn(s) = {}
          BY <1>7, <3>3
        <5> QED BY <1>8, <3>3, <4>1, <5>1, SharedIs DEF IInv
      <4> QED BY <3>3, <4>2 DEF OpenOn
    <3> QED
      <4> HIDE DEF w, c
      <4> QED BY <1>4, <1>7, <1>8, <2>2, <3>1, <3>2, <3>3 DEF RowOk
  <2> QED BY <2>1, <2>2
<1> QED BY <1>4, <1>5, <1>8, <1>10 DEF RowShape

LEMMA QueryStep ==
  ASSUME IInv, NEW s \in Stmts, NEW r \in Rowsets, Query(s, r)
  PROVE  IInv'
<1>0. stmts[s].st = "open" /\ rows[r].st = "unborn" /\ txn \in Contexts
  BY DEF Query, IInv, TypeOK
<1> DEFINE Done == /\ Typing /\ OnlyOn(s) /\ Told /\ InOwnContext'
                   /\ rows' \in [Rowsets -> Cursors] /\ RowShape'
<1>1. ASSUME PrepareFails(s), rows' = Shared(s) PROVE Done
  BY <1>0, <1>1, PrepareFailsEffect, AnswersTold, SharedStep DEF PrepareFails
<1>2. ASSUME NEW p \in EnsurePrepared(s), Holds(s, p), RunFails(p), rows' = Shared(s)
      PROVE  Done
  <2>1. Typing /\ OnlyOn(s) /\ Told /\ InOwnContext'
    BY <1>0, <1>2, RunFailsEffect DEF Told, InOwnContext
  <2> QED BY <1>2, <2>1, SharedStep
<1>3. ASSUME NEW p \in EnsurePrepared(s), Holds(s, p), NEW k \in 0..MaxRows,
             CanRun(p.live[p.h]),
             cstmt' = [p.live EXCEPT ![p.h] =
                       [ctx |-> @.ctx, run |-> r, size |-> k,
                        phase |-> IF k > 0 THEN "row" ELSE "done",
                        at |-> IF k > 0 THEN 1 ELSE 0]],
             rows' = [Shared(s) EXCEPT ![r] = Opened(s, k)],
             AnswersRun("nil", p.live[p.h].ctx)
      PROVE  Done
  BY <1>0, <1>3, QueryOpens
<1>4. Done
  BY <1>1, <1>2, <1>3 DEF Query
<1> QED BY <1>4, StmtAction DEF Query
-----------------------------------------------------------------------------
(* Reading from r moves the statement under it to some live state c of the *)
(* same context, or leaves all of them alone, and changes no other Rows.   *)
Moves(r, c) ==
  /\ c \in CStatements /\ c.phase # "freed" /\ c.ctx = cstmt[Source(r)].ctx
  /\ cstmt' = [cstmt EXCEPT ![Source(r)] = c]

ReadsOnly(r) ==
  /\ \/ cstmt' = cstmt
     \/ Source(r) # None /\ \E c \in CStatements : Moves(r, c)
  /\ \E w \in Cursors : /\ rows' = [rows EXCEPT ![r] = w]
                        /\ w.st = "open" => w.s = rows[r].s /\ w.shared = rows[r].shared

LEMMA SourceLive ==
  ASSUME IInv, NEW r \in Rowsets, rows[r].st = "open", Source(r) # None
  PROVE  /\ rows[r].s \in Stmts /\ Source(r) = stmts[rows[r].s].h
         /\ Source(r) \in Handles /\ cstmt[Source(r)] \in CStatements
         /\ cstmt[Source(r)].phase # "freed"
<1>1. rows[r].s \in Stmts
  BY DEF IInv, RowShape, RowOk
<1> QED BY <1>1 DEF Source, IInv, TypeOK, StmtShape, HandlesAccounted

LEMMA ReadStmts ==
  ASSUME IInv, NEW r \in Rowsets, rows[r].st = "open", ReadsOnly(r),
         UNCHANGED <<handle, txn, stmts, txs, ctxn>>
  PROVE  StmtShape' /\ cstmt' \in [Handles -> CStatements]
<1>1. CASE cstmt' = cstmt
  BY <1>1 DEF IInv, TypeOK, StmtShape, HandlesAccounted
<1>2. ASSUME Source(r) # None, NEW c \in CStatements, Moves(r, c)
      PROVE  StmtShape' /\ cstmt' \in [Handles -> CStatements]
  <2>1. Source(r) \in Handles /\ cstmt[Source(r)].phase # "freed"
    BY <1>2, SourceLive
  <2>2. cstmt' \in [Handles -> CStatements]
        /\ \A h \in Handles : /\ cstmt'[h].ctx = cstmt[h].ctx
                              /\ cstmt'[h].phase = "freed" <=> cstmt[h].phase = "freed"
    BY <1>2, <2>1 DEF Moves, IInv, TypeOK
  <2>3. \A s \in Stmts : stmts[s].h # None => stmts[s].h \in Handles
    BY DEF IInv, TypeOK
  <2> QED BY <2>2, <2>3 DEF IInv, StmtShape, HandlesAccounted
<1> QED BY <1>1, <1>2 DEF ReadsOnly

LEMMA OtherRows ==
  ASSUME IInv, NEW r \in Rowsets, rows[r].st = "open", ReadsOnly(r),
         UNCHANGED <<handle, txn, stmts, txs, ctxn>>,
         NEW q \in Rowsets, q # r
  PROVE  RowOk(q)'
<1>1. rows'[q] = rows[q] /\ RowOk(q)
  BY DEF ReadsOnly, IInv, TypeOK, RowShape
<1>2. CASE rows[q].st # "open" \/ rows[q].shared
  BY <1>1, <1>2 DEF RowOk
<1>3. CASE rows[q].st = "open" /\ ~rows[q].shared
  <2>1. rows[r].s # rows[q].s /\ Source(q) # None
    BY <1>1, <1>3 DEF RowOk
  <2>2. Source(q)' = Source(q)
    BY <1>1 DEF Source
  <2>3. cstmt'[Source(q)] = cstmt[Source(q)]
    <3>1. CASE cstmt' = cstmt
      BY <3>1
    <3>2. ASSUME Source(r) # None, NEW c \in CStatements, Moves(r, c)
          PROVE  cstmt'[Source(q)] = cstmt[Source(q)]
      <4>1. Source(q) # Source(r)
        BY <1>3, <2>1, <3>2, SourceLive DEF IInv, StmtShape, HandlesAccounted
      <4> QED BY <1>3, <2>1, <3>2, <4>1, SourceLive DEF Moves, IInv, TypeOK
    <3> QED BY <3>1, <3>2 DEF ReadsOnly
  <2>4. FollowsQuery(rows'[q], q, cstmt'[Source(q)'])
    BY <1>1, <1>3, <2>2, <2>3 DEF RowOk
  <2>5. ASSUME NEW v \in Rowsets, rows'[v].st = "open", rows'[v].s = rows'[q].s
        PROVE  v = q
    <3>1. CASE v = r
      BY <1>1, <2>1, <2>5, <3>1 DEF ReadsOnly, IInv, TypeOK
    <3>2. CASE v # r
      <4>1. rows'[v] = rows[v]
        BY <3>2 DEF ReadsOnly, IInv, TypeOK
      <4> QED BY <1>1, <1>3, <2>5, <4>1 DEF RowOk
    <3> QED BY <3>1, <3>2
  <2> QED BY <1>1, <1>3, <2>1, <2>2, <2>4, <2>5 DEF RowOk
<1> QED BY <1>2, <1>3

LEMMA ReadAction ==
  ASSUME IInv, NEW r \in Rowsets, rows[r].st = "open", ReadsOnly(r),
         Answers("nil"), RowOk(r)', UNCHANGED <<handle, txn, stmts, txs, ctxn>>
  PROVE  IInv'
<1>1. RowShape'
  BY OtherRows DEF RowShape
<1>2. StmtShape' /\ cstmt' \in [Handles -> CStatements]
  BY ReadStmts
<1>3. TxShape' /\ Told /\ InOwnContext'
  BY TxKept, AnswersTold
<1>4. TypeOK'
  BY <1>2, <1>3 DEF IInv, TypeOK, ReadsOnly, Told
<1> QED BY <1>1, <1>2, <1>3, <1>4 DEF IInv

LEMMA RowsCloseStep ==
  ASSUME IInv, NEW r \in Rowsets, RowsClose(r)
  PROVE  IInv'
<1> DEFINE w == [NoRows EXCEPT !.st = "closed", !.done = TRUE]
<1>1. w \in Cursors /\ w.st = "closed" /\ w.own /\ w.end = "no"
  <2>1. NoRows \in Cursors /\ NoRows.own /\ NoRows.end = "no"
    BY Bounds DEF NoRows, Cursors
  <2>2. \A v \in Cursors : LET u == [v EXCEPT !.st = "closed", !.done = TRUE] IN
          u \in Cursors /\ u.st = "closed" /\ u.own = v.own /\ u.end = v.end
    BY DEF Cursors
  <2> QED BY <2>1, <2>2
<1>2. rows' = [rows EXCEPT ![r] = w] /\ rows[r].st = "open"
  BY DEF RowsClose
<1>3. RowOk(r)'
  <2>1. rows'[r] = w
    BY <1>2 DEF IInv, TypeOK
  <2> QED BY <1>1, <2>1 DEF RowOk
<1>4. ReadsOnly(r)
  <2> HIDE DEF w
  <2>0. \E v \in Cursors : /\ rows' = [rows EXCEPT ![r] = v]
                           /\ v.st = "open" => v.s = rows[r].s /\ v.shared = rows[r].shared
    <3>1. w.st # "open"
      BY <1>1
    <3> QED BY <1>1, <1>2, <3>1, Zenon
  <2>1. CASE Source(r) = None
    <3>1. cstmt' = cstmt
      BY <2>1 DEF RowsClose
    <3> QED BY <2>0, <3>1 DEF ReadsOnly
  <2>2. CASE Source(r) # None
    <3>1. cstmt[Source(r)] \in CStatements
      BY <1>2, <2>2, SourceLive
    <3>2. Moves(r, Rewound(cstmt[Source(r)]))
      BY <2>2, <3>1, TypedRun DEF RowsClose, Moves
    <3>3. \E c \in CStatements : Moves(r, c)
      BY <3>2 DEF Moves
    <3> QED BY <2>0, <2>2, <3>3 DEF ReadsOnly
  <2> QED BY <2>1, <2>2
<1> QED BY <1>2, <1>3, <1>4, ReadAction DEF RowsClose

(* What a reader is told of r: a row of c, or the end.                     *)
LEMMA Delivered ==
  ASSUME IInv, NEW r \in Rowsets, Reading(r), NEW c, Deliver(r, c)
  PROVE  \E w \in Cursors :
           /\ rows' = [rows EXCEPT ![r] = w]
           /\ w.st = "open" /\ w.s = rows[r].s /\ w.shared = rows[r].shared
           /\ w.done = rows[r].done /\ w.end = "no" /\ ~w.pending
           /\ w.got = rows[r].got + 1 /\ w.size = rows[r].size
           /\ w.own <=> (rows[r].own /\ c.run = r /\ c.at = rows[r].got + 1)
<1> DEFINE own == rows[r].own /\ c.run = r /\ c.at = rows[r].got + 1
           w == [rows[r] EXCEPT !.pending = FALSE, !.got = rows[r].got + 1, !.own = own]
<1>1. rows[r] \in Cursors /\ rows[r].st = "open" /\ rows[r].got + 1 \in 0..(MaxRows + 1)
      /\ rows[r].end = "no"
  <2>1. rows[r] \in Cursors /\ rows[r].st = "open" /\ rows[r].got <= MaxRows /\ rows[r].end = "no"
    BY DEF IInv, TypeOK, Reading
  <2>2. rows[r].got \in 0..(MaxRows + 1)
    BY <2>1 DEF Cursors
  <2> QED BY <2>1, <2>2, Bounds
<1>2. rows' = [rows EXCEPT ![r] = w]
  BY DEF Deliver
<1>3. own \in BOOLEAN
  OBVIOUS
<1>4. /\ w \in Cursors /\ w.st = "open" /\ w.s = rows[r].s /\ w.shared = rows[r].shared
      /\ w.done = rows[r].done /\ w.end = "no" /\ ~w.pending
      /\ w.got = rows[r].got + 1 /\ w.size = rows[r].size
      /\ w.own <=> own
  <2> HIDE DEF own
  <2>1. w \in Cursors
    BY <1>1, <1>3 DEF Cursors
  <2>2. /\ w.st = "open" /\ w.s = rows[r].s /\ w.shared = rows[r].shared
        /\ w.done = rows[r].done /\ w.end = "no" /\ ~w.pending
        /\ w.got = rows[r].got + 1 /\ w.size = rows[r].size
    BY <1>1 DEF Cursors
  <2>3. w.own <=> own
    BY <1>1 DEF Cursors
  <2> QED BY <2>1, <2>2, <2>3
<1> QED
  <2> HIDE DEF w
  <2> QED BY <1>2, <1>4

LEMMA Finished ==
  ASSUME IInv, NEW r \in Rowsets, Reading(r), NEW how \in {"eof", "err"}, Ends(r, how)
  PROVE  \E w \in Cursors :
           /\ rows' = [rows EXCEPT ![r] = w]
           /\ w.st = "open" /\ w.s = rows[r].s /\ w.shared = rows[r].shared
           /\ w.done /\ w.end = how /\ w.pending = rows[r].pending
           /\ w.got = rows[r].got /\ w.size = rows[r].size /\ w.own = rows[r].own
<1> DEFINE w == [rows[r] EXCEPT !.done = TRUE, !.end = how]
<1>1. rows[r] \in Cursors /\ rows[r].st = "open"
  BY DEF IInv, TypeOK, Reading
<1>2. \A v \in Cursors :
        LET u == [v EXCEPT !.done = TRUE, !.end = how] IN
          /\ u \in Cursors /\ u.st = v.st /\ u.s = v.s /\ u.shared = v.shared
          /\ u.done /\ u.end = how /\ u.pending = v.pending /\ u.got = v.got
          /\ u.size = v.size /\ u.own = v.own
  BY DEF Cursors
<1>3. rows' = [rows EXCEPT ![r] = w]
  BY <1>1 DEF Ends, IInv, TypeOK
<1>4. /\ w \in Cursors /\ w.st = "open" /\ w.s = rows[r].s /\ w.shared = rows[r].shared
      /\ w.done /\ w.end = how /\ w.pending = rows[r].pending
      /\ w.got = rows[r].got /\ w.size = rows[r].size /\ w.own = rows[r].own
  BY <1>1, <1>2
<1> QED
  <2> HIDE DEF w
  <2> QED BY <1>3, <1>4

LEMMA ReaderOk ==
  ASSUME IInv, NEW r \in Rowsets, rows[r].st = "open", stmts' = stmts,
         NEW w \in Cursors, rows' = [rows EXCEPT ![r] = w],
         w.st = "open", w.s = rows[r].s, w.shared = rows[r].shared,
         ~rows[r].shared => FollowsQuery(w, r, cstmt'[Source(r)])
  PROVE  RowOk(r)'
<1>1. RowOk(r) /\ rows'[r] = w /\ \A q \in Rowsets : q # r => rows'[q] = rows[q]
  BY DEF IInv, TypeOK, RowShape
<1>2. Source(r)' = Source(r)
  BY <1>1 DEF Source
<1>3. ASSUME ~w.shared, NEW q \in Rowsets, rows'[q].st = "open", rows'[q].s = w.s
      PROVE  q = r
  BY <1>1, <1>3 DEF RowOk
<1> QED BY <1>1, <1>2, <1>3 DEF RowOk

LEMMA NextRowsStep ==
  ASSUME IInv, NEW r \in Rowsets, stmts' = stmts,
         \/ NextNoStmt(r) \/ NextPending(r) \/ NextDone(r)
         \/ NextRow(r) \/ NextRunsAgain(r) \/ NextFails(r)
  PROVE  ReadsOnly(r) /\ RowOk(r)' /\ rows[r].st = "open"
<1> DEFINE c == cstmt[Source(r)]
<1>1. Reading(r) /\ rows[r] \in Cursors /\ rows[r].st = "open" /\ RowOk(r)
  BY DEF NextNoStmt, NextPending, NextDone, Steps, NextRow, NextRunsAgain, NextFails,
         Reading, IInv, TypeOK, RowShape
<1>2. ~rows[r].shared => Source(r) # None /\ FollowsQuery(rows[r], r, c)
  BY <1>1 DEF RowOk
<1>3. ASSUME NEW w \in Cursors, rows' = [rows EXCEPT ![r] = w],
             w.st = "open", w.s = rows[r].s, w.shared = rows[r].shared,
             \/ cstmt' = cstmt
             \/ Source(r) # None /\ \E d \in CStatements : Moves(r, d),
             ~rows[r].shared => FollowsQuery(w, r, cstmt'[Source(r)])
      PROVE  ReadsOnly(r) /\ RowOk(r)'
  BY <1>1, <1>3, ReaderOk DEF ReadsOnly
<1>4. ASSUME Source(r) # None
      PROVE  /\ Source(r) \in Handles /\ c \in CStatements /\ c.phase # "freed"
             /\ \A d \in CStatements : /\ d.phase # "freed" /\ d.ctx = c.ctx
                                       /\ cstmt' = [cstmt EXCEPT ![Source(r)] = d]
                                       => Moves(r, d) /\ cstmt'[Source(r)] = d
  BY <1>1, <1>4, SourceLive DEF Moves, IInv, TypeOK
<1>5. CASE NextNoStmt(r)
  <2> DEFINE w == [rows[r] EXCEPT !.end = "eof"]
  <2>1. w \in Cursors /\ w.st = "open" /\ w.s = rows[r].s /\ w.shared = rows[r].shared
    BY <1>1 DEF Cursors
  <2>2. rows' = [rows EXCEPT ![r] = w] /\ cstmt' = cstmt /\ rows[r].shared
    BY <1>2, <1>5 DEF NextNoStmt
  <2> HIDE DEF w
  <2> QED BY <1>1, <1>3, <2>1, <2>2
<1>6. CASE NextPending(r)
  <2>1. Source(r) # None /\ rows[r].pending /\ cstmt' = cstmt /\ Deliver(r, c)
    BY <1>6 DEF NextPending
  <2>2. PICK w \in Cursors :
          /\ rows' = [rows EXCEPT ![r] = w]
          /\ w.st = "open" /\ w.s = rows[r].s /\ w.shared = rows[r].shared
          /\ w.done = rows[r].done /\ w.end = "no" /\ ~w.pending
          /\ w.got = rows[r].got + 1 /\ w.size = rows[r].size
          /\ w.own <=> (rows[r].own /\ c.run = r /\ c.at = rows[r].got + 1)
    BY <1>1, <2>1, Delivered
  <2>3. ~rows[r].shared => FollowsQuery(w, r, c)
    BY <1>2, <2>1, <2>2 DEF FollowsQuery
  <2> QED BY <1>1, <1>3, <2>1, <2>2, <2>3
<1>7. CASE NextDone(r)
  <2>1. /\ Source(r) # None /\ ~rows[r].pending /\ Ends(r, "eof") /\ rows[r].end = "no"
        /\ \/ rows[r].done /\ cstmt' = cstmt
           \/ /\ ~rows[r].done /\ (c.phase = "row" => c.at = c.size)
              /\ cstmt' = [cstmt EXCEPT ![Source(r)] = Ended(c)]
    BY <1>1, <1>4, <1>7 DEF NextDone, Steps, Reading, IInv, TypeOK
  <2>2. PICK w \in Cursors :
          /\ rows' = [rows EXCEPT ![r] = w]
          /\ w.st = "open" /\ w.s = rows[r].s /\ w.shared = rows[r].shared
          /\ w.done /\ w.end = "eof" /\ w.pending = rows[r].pending
          /\ w.got = rows[r].got /\ w.size = rows[r].size /\ w.own = rows[r].own
    BY <1>1, <2>1, Finished
  <2>3. \/ cstmt' = cstmt
        \/ Source(r) # None /\ \E d \in CStatements : Moves(r, d)
    BY <1>4, <2>1, TypedRun
  <2>4. ~rows[r].shared => FollowsQuery(w, r, cstmt'[Source(r)])
    BY <1>2, <2>1, <2>2 DEF FollowsQuery
  <2> QED BY <1>1, <1>3, <2>2, <2>3, <2>4
<1>8. CASE NextRow(r)
  <2> DEFINE d == [c EXCEPT !.at = c.at + 1]
  <2>1. /\ Source(r) # None /\ ~rows[r].pending /\ ~rows[r].done
        /\ c.phase = "row" /\ c.at < c.size
        /\ cstmt' = [cstmt EXCEPT ![Source(r)] = d]
        /\ Deliver(r, cstmt'[Source(r)])
    BY <1>8 DEF NextRow, Steps
  <2>2. d \in CStatements /\ d.phase = "row" /\ d.ctx = c.ctx /\ d.run = c.run
        /\ d.size = c.size /\ d.at = c.at + 1
    BY <1>4, <2>1, Bounds DEF CStatements
  <2>3. Moves(r, d) /\ cstmt'[Source(r)] = d
    <3> HIDE DEF d
    <3> QED BY <1>4, <2>1, <2>2
  <2>4. PICK w \in Cursors :
          /\ rows' = [rows EXCEPT ![r] = w]
          /\ w.st = "open" /\ w.s = rows[r].s /\ w.shared = rows[r].shared
          /\ w.done = rows[r].done /\ w.end = "no" /\ ~w.pending
          /\ w.got = rows[r].got + 1 /\ w.size = rows[r].size
          /\ w.own <=> (rows[r].own /\ d.run = r /\ d.at = rows[r].got + 1)
    <3>1. Deliver(r, d)
      BY <2>1, <2>3
    <3> HIDE DEF d
    <3> QED BY <1>1, <3>1, Delivered
  <2> HIDE DEF c, d
  <2>5. ~rows[r].shared => FollowsQuery(w, r, d)
    BY <1>2, <2>1, <2>2, <2>4 DEF FollowsQuery
  <2> QED BY <1>1, <1>3, <2>1, <2>2, <2>3, <2>4, <2>5
<1>9. CASE NextRunsAgain(r)
  <2>1. PICK k \in 1..MaxRows :
          cstmt' = [cstmt EXCEPT ![Source(r)] = [c EXCEPT !.phase = "row", !.at = 1, !.size = k]]
    BY <1>9 DEF NextRunsAgain
  <2> DEFINE d == [c EXCEPT !.phase = "row", !.at = 1, !.size = k]
  <2>2. /\ Source(r) # None /\ ~rows[r].pending /\ ~rows[r].done
        /\ c.phase = "ready" /\ Deliver(r, cstmt'[Source(r)])
    BY <1>9 DEF NextRunsAgain, Steps
  <2>3. d \in CStatements /\ d.phase = "row" /\ d.ctx = c.ctx
    <3>1. 1 \in 0..MaxRows /\ k \in 0..MaxRows /\ c \in CStatements
      BY <1>4, <2>2, Bounds
    <3> HIDE DEF c
    <3> QED BY <3>1 DEF CStatements
  <2>4. PICK w \in Cursors :
          /\ rows' = [rows EXCEPT ![r] = w]
          /\ w.st = "open" /\ w.s = rows[r].s /\ w.shared = rows[r].shared
    BY <1>1, <2>2, Delivered
  <2>5. Moves(r, d)
    <3> HIDE DEF d
    <3> QED BY <1>4, <2>1, <2>2, <2>3 DEF d
  <2>6. rows[r].shared
    BY <1>2, <2>2 DEF FollowsQuery
  <2> HIDE DEF d
  <2> QED BY <1>1, <1>3, <2>2, <2>3, <2>4, <2>5, <2>6
<1>10. CASE NextFails(r)
  <2>1. /\ Source(r) # None /\ Ends(r, "err") /\ ~rows[r].pending /\ rows[r].end = "no"
        /\ cstmt' = [cstmt EXCEPT ![Source(r)] = Ended(c)]
    BY <1>10 DEF NextFails, Steps, Reading
  <2>2. PICK w \in Cursors :
          /\ rows' = [rows EXCEPT ![r] = w]
          /\ w.st = "open" /\ w.s = rows[r].s /\ w.shared = rows[r].shared
          /\ w.done /\ w.end = "err" /\ w.pending = rows[r].pending
          /\ w.got = rows[r].got /\ w.size = rows[r].size /\ w.own = rows[r].own
    BY <1>1, <2>1, Finished
  <2>3. \E d \in CStatements : Moves(r, d)
    BY <1>4, <2>1, TypedRun
  <2>4. ~rows[r].shared => FollowsQuery(w, r, cstmt'[Source(r)])
    BY <1>2, <2>1, <2>2 DEF FollowsQuery
  <2> QED BY <1>1, <1>3, <2>1, <2>2, <2>3, <2>4
<1> QED BY <1>1, <1>5, <1>6, <1>7, <1>8, <1>9, <1>10

LEMMA RowsNextStep ==
  ASSUME IInv, NEW r \in Rowsets, RowsNext(r)
  PROVE  IInv'
<1>1. ReadsOnly(r) /\ RowOk(r)' /\ rows[r].st = "open"
  BY NextRowsStep DEF RowsNext
<1> QED BY <1>1, ReadAction DEF RowsNext

(* Transactions leave statements and Rows alone.                           *)
LEMMA TxAction ==
  ASSUME IInv, TxShape', txn' \in Contexts,
         txs' \in [Txs -> {"unborn", "open", "committed", "rolledback"}],
         ctxn' \in [Txs -> {"none", "active", "committed", "rolledback", "failed"}],
         NEW err \in {"nil", "error"}, Answers(err),
         UNCHANGED <<handle, stmts, rows, cstmt>>
  PROVE  IInv'
<1>1. Told /\ InOwnContext'
  BY AnswersTold
<1>2. RowShape'
  BY DEF IInv, RowShape, RowOk, Source
<1>3. StmtShape'
  BY DEF IInv, StmtShape, HandlesAccounted
<1> QED BY <1>1, <1>2, <1>3 DEF IInv, TypeOK, Told

LEMMA BeginTxStep ==
  ASSUME IInv, NEW t \in Txs, BeginTx(t)
  PROVE  IInv'
<1>1. CASE UNCHANGED <<txn, txs, ctxn>>
  <2>1. TxShape' /\ txn' \in Contexts
        /\ txs' \in [Txs -> {"unborn", "open", "committed", "rolledback"}]
        /\ ctxn' \in [Txs -> {"none", "active", "committed", "rolledback", "failed"}]
    BY <1>1 DEF BeginTx, IInv, TypeOK, TxShape, TxOwnsTransaction
  <2> QED BY <2>1, TxAction DEF BeginTx
<1>2. CASE ~UNCHANGED <<txn, txs, ctxn>>
  <2>1. /\ handle = "open" /\ txn = None /\ Answers("nil") /\ txn' = t
        /\ txs' = [txs EXCEPT ![t] = "open"] /\ ctxn' = [ctxn EXCEPT ![t] = "active"]
        /\ txs[t] = "unborn" /\ UNCHANGED <<handle, stmts, rows, cstmt>>
    BY <1>2 DEF BeginTx
  <2>2. txn' \in Contexts
        /\ txs' \in [Txs -> {"unborn", "open", "committed", "rolledback"}]
        /\ ctxn' \in [Txs -> {"none", "active", "committed", "rolledback", "failed"}]
    BY <2>1 DEF IInv, TypeOK, Contexts
  <2>3. TxShape'
    BY <2>1, NilIsNothing DEF IInv, TypeOK, TxShape, TxOwnsTransaction
  <2> QED BY <2>1, <2>2, <2>3, TxAction
<1> QED BY <1>1, <1>2

LEMMA EndTxStep ==
  ASSUME IInv, NEW t \in Txs, NEW told \in {"committed", "rolledback"}, EndTx(t, told)
  PROVE  IInv'
<1>1. /\ txs[t] = "open" /\ txs' = [txs EXCEPT ![t] = told]
      /\ UNCHANGED <<handle, stmts, rows, cstmt>>
      /\ \E err \in {"nil", "error"} : Answers(err)
  BY DEF EndTx
<1>2. \/ /\ txn = None /\ UNCHANGED <<txn, ctxn>>
      \/ /\ txn # None /\ txn' = None
         /\ \E how \in {told, "failed"} : ctxn' = [ctxn EXCEPT ![txn] = how]
  BY DEF EndTx
<1>3. txn # None => txn = t /\ handle = "open"
  BY <1>1 DEF IInv, TxShape, TxOwnsTransaction
<1>4. txn' \in Contexts
      /\ txs' \in [Txs -> {"unborn", "open", "committed", "rolledback"}]
      /\ ctxn' \in [Txs -> {"none", "active", "committed", "rolledback", "failed"}]
  BY <1>1, <1>2, <1>3 DEF IInv, TypeOK, Contexts
<1>5. TxShape'
  <2>1. CASE txn = None
    BY <1>1, <1>2, <2>1, NilIsNothing DEF IInv, TypeOK, TxShape, TxOwnsTransaction
  <2>2. CASE txn # None
    BY <1>1, <1>2, <1>3, <2>2, NilIsNothing DEF IInv, TypeOK, TxShape, TxOwnsTransaction
  <2> QED BY <2>1, <2>2
<1> QED BY <1>1, <1>4, <1>5, TxAction

LEMMA ConnCloseStep ==
  ASSUME IInv, ConnClose
  PROVE  IInv'
<1>1. Told /\ InOwnContext'
  BY AnswersTold DEF ConnClose
<1>2. RowShape'
  BY DEF ConnClose, IInv, RowShape, RowOk, Source
<1>3. StmtShape'
  BY DEF ConnClose, IInv, StmtShape, HandlesAccounted
<1>4. ctxn' \in [Txs -> {"none", "active", "committed", "rolledback", "failed"}]
      /\ \A t \in Txs : ctxn'[t] = IF t = txn THEN "rolledback" ELSE ctxn[t]
  BY NilIsNothing DEF ConnClose, IInv, TypeOK, Contexts
<1>5. TxShape'
  BY <1>4, NilIsNothing DEF ConnClose, IInv, TypeOK, TxShape, TxOwnsTransaction
<1>6. TypeOK'
  BY <1>1, <1>4 DEF ConnClose, IInv, TypeOK, Told, Contexts
<1> QED BY <1>1, <1>2, <1>3, <1>5, <1>6 DEF IInv

LEMMA RefusedStep ==
  ASSUME IInv, Refused
  PROVE  IInv'
<1>1. TxShape' /\ txn' \in Contexts
      /\ txs' \in [Txs -> {"unborn", "open", "committed", "rolledback"}]
      /\ ctxn' \in [Txs -> {"none", "active", "committed", "rolledback", "failed"}]
  BY DEF Refused, IInv, TypeOK, TxShape, TxOwnsTransaction
<1> QED BY <1>1, TxAction DEF Refused
-----------------------------------------------------------------------------
LEMMA Initially == Init => IInv
<1> SUFFICES ASSUME Init PROVE IInv
  OBVIOUS
<1>1. TypeOK
  <2>1. NoRows \in Cursors
    BY Bounds DEF NoRows, Cursors
  <2> QED BY <2>1, FreedTyped DEF Init, TypeOK, Contexts
<1>2. TxShape
  BY NilIsNothing DEF Init, TxShape, TxOwnsTransaction
<1>3. StmtShape
  BY FreedTyped DEF Init, StmtShape, HandlesAccounted
<1>4. RowShape
  BY DEF Init, RowShape, RowOk, NoRows
<1> QED BY <1>1, <1>2, <1>3, <1>4 DEF IInv, Init, InOwnContext

LEMMA Inductive == IInv /\ [Next]_vars => IInv'
<1> SUFFICES ASSUME IInv, [Next]_vars PROVE IInv'
  OBVIOUS
<1>1. CASE Refused
  BY <1>1, RefusedStep
<1>2. ASSUME NEW s \in Stmts, Prepare(s) \/ Exec(s) \/ StmtClose(s) PROVE IInv'
  BY <1>2, PrepareStep, ExecStep, StmtCloseStep
<1>3. ASSUME NEW s \in Stmts, NEW r \in Rowsets, Query(s, r) PROVE IInv'
  BY <1>3, QueryStep
<1>4. ASSUME NEW r \in Rowsets, RowsNext(r) \/ RowsClose(r) PROVE IInv'
  BY <1>4, RowsNextStep, RowsCloseStep
<1>5. ASSUME NEW t \in Txs, BeginTx(t) \/ TxCommit(t) \/ TxRollback(t) PROVE IInv'
  BY <1>5, BeginTxStep, EndTxStep DEF TxCommit, TxRollback
<1>6. CASE ConnClose
  BY <1>6, ConnCloseStep
<1>7. CASE UNCHANGED vars
  BY <1>7 DEF vars, IInv, TypeOK, TxShape, TxOwnsTransaction, StmtShape,
              HandlesAccounted, RowShape, RowOk, Source, InOwnContext
<1> QED BY <1>1, <1>2, <1>3, <1>4, <1>5, <1>6, <1>7 DEF Next

LEMMA Invariance == Spec => []IInv
BY Initially, Inductive, PTL DEF Spec

(* Every field of the connection, its statements and its Rows keeps its    *)
(* type (driver.go).                                                       *)
THEOREM TypeCorrect == Spec => []TypeOK
<1>1. IInv => TypeOK
  BY DEF IInv
<1> QED BY <1>1, Invariance, PTL

(* A statement that ran without error ran in the context the connection    *)
(* was in (ensurePrepared), for any number of statements and transactions. *)
THEOREM RunsInOwnContext == Spec => []InOwnContext
<1>1. IInv => InOwnContext
  BY DEF IInv
<1> QED BY <1>1, Invariance, PTL

(* C statements have exactly one holder, and none is left at the close of  *)
(* the connection (ensurePrepared, stmt.Close).                            *)
THEOREM HandlesHaveHolders == Spec => []HandlesAccounted
<1>1. IInv => HandlesAccounted
  BY DEF IInv, StmtShape
<1> QED BY <1>1, Invariance, PTL

(* A driver.Tx ends its own C transaction and no other, although it only   *)
(* names its connection (BeginTx, tx.Commit, tx.Rollback, conn.Close).     *)
THEOREM TxEndsItsOwn == Spec => []TxOwnsTransaction
<1>1. IInv => TxOwnsTransaction
  BY DEF IInv, TxShape
<1> QED BY <1>1, Invariance, PTL

(* A Rows whose statement was left alone delivers its own rows, in order,  *)
(* for result sets of every size (stmt.Query, rows.Next).                  *)
THEOREM DeliversOwnRows == Spec => []OwnRows
<1>1. IInv => OwnRows
  <2> SUFFICES ASSUME IInv, NEW r \in Rowsets, ~rows[r].shared PROVE rows[r].own
    BY DEF OwnRows
  <2>1. RowOk(r) /\ rows[r] \in Cursors
    BY DEF IInv, RowShape, TypeOK
  <2> QED BY <2>1 DEF RowOk, FollowsQuery, NoRows, Cursors
<1> QED BY <1>1, Invariance, PTL

(* And io.EOF comes after the last of them (rows.Next).                    *)
THEOREM EofAfterLast == Spec => []NoSilentTruncation
<1>1. IInv => NoSilentTruncation
  <2> SUFFICES ASSUME IInv, NEW r \in Rowsets, ~rows[r].shared, rows[r].end = "eof"
               PROVE  rows[r].got = rows[r].size
    BY DEF NoSilentTruncation
  <2>1. RowOk(r) /\ rows[r] \in Cursors
    BY DEF IInv, RowShape, TypeOK
  <2> QED BY <2>1 DEF RowOk, FollowsQuery, NoRows, Cursors
<1> QED BY <1>1, Invariance, PTL
-----------------------------------------------------------------------------
(***************************************************************************)
(* Driver implements SerialConnection.                                     *)
(***************************************************************************)
States == [s \in Stmts |-> stmts[s].st]
Sets == [r \in Rowsets |-> SetOf(r)]

(* What a call is told.                                                    *)
LEMMA TellsIs ==
  /\ Answers("nil") => Serial!Tells("nil")
  /\ Answers("error") => Serial!Tells("error")
  /\ \A ctx : AnswersRun("error", ctx) => Serial!Tells("error")
BY DEF Serial!Tells, Answers, AnswersRun

LEMMA RanIs ==
  ASSUME AnswersRun("nil", txn)
  PROVE  Serial!Ran
BY DEF Serial!Ran, AnswersRun

(* A Rows that is open is a result set in use, of the same statement.      *)
LEMMA SetIs ==
  ASSUME TypeOK, NEW r \in Rowsets
  PROVE  /\ Sets[r] = SetOf(r)
         /\ Serial!InUse(r) <=> rows[r].st = "open"
         /\ rows[r].st = "open" => SetOf(r).of = rows[r].s
         /\ SetOf(r).st = "unborn" <=> rows[r].st = "unborn"
         /\ rows[r].st = "open" /\ rows[r].shared => SetOf(r) = Serial!Disturbed(rows[r].s)
         /\ rows[r].st = "open" /\ ~rows[r].shared =>
              SetOf(r) = [st |-> "open", of |-> rows[r].s, size |-> rows[r].size,
                          got |-> rows[r].got, end |-> rows[r].end]
<1>1. rows[r].st \in {"unborn", "open", "closed"}
  BY DEF TypeOK, Cursors
<1> QED BY <1>1 DEF Sets, SetOf, Serial!InUse, Serial!Disturbed, Serial!ResultSet

LEMMA SetsOfIs ==
  ASSUME TypeOK, NEW s
  PROVE  Serial!SetsOf(s) = OpenOn(s)
<1>1. ASSUME NEW r \in Rowsets
      PROVE  r \in Serial!SetsOf(s) <=> r \in OpenOn(s)
  <2>1. r \in Serial!SetsOf(s) <=> Serial!InUse(r) /\ SetOf(r).of = s
    BY DEF Serial!SetsOf
  <2> QED BY <2>1, SetIs DEF OpenOn
<1> QED BY <1>1 DEF Serial!SetsOf, OpenOn

(* Rows that are shared from now on are disturbed.                         *)
LEMMA UsedIs ==
  ASSUME TypeOK, NEW s \in Stmts, NEW R \in SUBSET Rowsets,
         \A r \in R : rows'[r] = Shared(s)[r]
  PROVE  \A r \in R : SetOf(r)' = Serial!Used(s)[r]
<1> SUFFICES ASSUME NEW r \in R
             PROVE  SetOf(r)' = Serial!Used(s)[r]
  OBVIOUS
<1>1. Serial!Used(s)[r] = IF r \in OpenOn(s) THEN Serial!Disturbed(s) ELSE SetOf(r)
  BY SetsOfIs DEF Serial!Used
<1>2. CASE r \in OpenOn(s)
  <2>1. rows'[r] = [rows[r] EXCEPT !.shared = TRUE] /\ rows[r] \in Cursors
    BY <1>2, SharedIs DEF TypeOK
  <2>2. rows'[r].st = "open" /\ rows'[r].shared /\ rows'[r].s = s
    BY <1>2, <2>1 DEF OpenOn, Cursors
  <2> QED BY <1>1, <1>2, <2>2 DEF SetOf, Serial!Disturbed, Serial!ResultSet
<1>3. CASE r \notin OpenOn(s)
  <2>1. rows'[r] = rows[r]
    BY <1>3, SharedIs
  <2> QED BY <1>1, <1>3, <2>1 DEF SetOf
<1> QED BY <1>2, <1>3

LEMMA SharedRefines ==
  ASSUME TypeOK, NEW s \in Stmts, rows' = Shared(s)
  PROVE  Sets' = Serial!Used(s)
<1>1. \A r \in Rowsets : SetOf(r)' = Serial!Used(s)[r]
  BY UsedIs
<1> QED BY <1>1 DEF Sets, Serial!Used

LEMMA StatesKept ==
  ASSUME TypeOK, NEW s \in Stmts, \A u \in Stmts : stmts'[u].st = stmts[u].st
  PROVE  States' = States
BY DEF States

LEMMA HeldStates ==
  ASSUME TypeOK, NEW s \in Stmts, NEW p, Holds(s, p) \/ PrepareFails(s)
  PROVE  States' = States
<1>1. \A u \in Stmts : stmts'[u].st = stmts[u].st
  BY DEF TypeOK, Holds, PrepareFails
<1> QED BY <1>1, StatesKept

(* Statements.  A failed call runs nothing that lasts.                     *)
LEMMA FailRefines ==
  ASSUME IInv, NEW s \in Stmts, stmts[s].st = "open", rows' = Shared(s),
         \/ PrepareFails(s)
         \/ \E p \in EnsurePrepared(s) : Holds(s, p) /\ RunFails(p),
         UNCHANGED <<handle, txn, ctxn>>
  PROVE  Serial!Fail(s)
<1>1. States' = States
  BY HeldStates DEF IInv
<1>2. Serial!Tells("error")
  BY TellsIs DEF PrepareFails, RunFails
<1>3. Sets' = Serial!Used(s)
  BY SharedRefines DEF IInv
<1>4. States[s] = "open"
  BY DEF States
<1> QED BY <1>1, <1>2, <1>3, <1>4 DEF Serial!Fail, States, Sets

(* One that succeeds ran in the transaction of the connection.             *)
LEMMA RunsHere ==
  ASSUME IInv, NEW s \in Stmts, NEW p \in EnsurePrepared(s), Holds(s, p),
         CanRun(p.live[p.h]), AnswersRun("nil", p.live[p.h].ctx)
  PROVE  Serial!Ran /\ States' = States
<1>1. p.live[p.h].ctx = txn
  BY Ensured
<1> QED BY <1>1, RanIs, HeldStates DEF IInv

LEMMA ExecRefines ==
  ASSUME IInv, NEW s \in Stmts, Exec(s)
  PROVE  Serial!Fail(s) \/ Serial!Exec(s)
<1>1. stmts[s].st = "open" /\ rows' = Shared(s) /\ UNCHANGED <<handle, txn, ctxn>>
  BY DEF Exec
<1>2. ASSUME NEW p \in EnsurePrepared(s), Holds(s, p),
             CanRun(p.live[p.h]), AnswersRun("nil", p.live[p.h].ctx)
      PROVE  Serial!Exec(s)
  <2>1. Serial!Ran /\ States' = States
    BY <1>2, RunsHere
  <2>2. Sets' = Serial!Used(s)
    BY <1>1, SharedRefines DEF IInv
  <2>3. States[s] = "open"
    BY <1>1 DEF States
  <2> QED BY <1>1, <2>1, <2>2, <2>3 DEF Serial!Exec, States, Sets
<1>3. \/ PrepareFails(s)
      \/ \E p \in EnsurePrepared(s) : Holds(s, p) /\ RunFails(p)
      \/ \E p \in EnsurePrepared(s) :
           Holds(s, p) /\ CanRun(p.live[p.h]) /\ AnswersRun("nil", p.live[p.h].ctx)
  BY DEF Exec
<1> QED BY <1>1, <1>2, <1>3, FailRefines

LEMMA QueryRefines ==
  ASSUME IInv, NEW s \in Stmts, NEW r \in Rowsets, Query(s, r)
  PROVE  Serial!Fail(s) \/ Serial!Query(s, r)
<1>1. /\ stmts[s].st = "open" /\ rows[r].st = "unborn" /\ UNCHANGED <<handle, txn, ctxn>>
      /\ TypeOK
  BY DEF Query, IInv
<1>2. ASSUME NEW p \in EnsurePrepared(s), Holds(s, p), CanRun(p.live[p.h]),
             AnswersRun("nil", p.live[p.h].ctx),
             NEW k \in 0..MaxRows, rows' = [Shared(s) EXCEPT ![r] = Opened(s, k)]
      PROVE  Serial!Query(s, r)
  <2>1. Serial!Ran /\ States' = States
    BY <1>2, RunsHere
  <2> DEFINE new == IF Serial!SetsOf(s) = {} THEN Serial!ResultSet("open", s, k, 0, "no")
                                             ELSE Serial!Disturbed(s)
  <2>2. rows'[r] = Opened(s, k) /\ \A q \in Rowsets \ {r} : rows'[q] = Shared(s)[q]
    BY <1>1, <1>2, SharedIs
  <2>3. SetOf(r)' = new
    <3>1. rows'[r].st = "open" /\ rows'[r].s = s /\ rows'[r].size = k /\ rows'[r].got = 0
          /\ rows'[r].end = "no" /\ rows'[r].shared = (OpenOn(s) # {})
      BY <2>2 DEF Opened
    <3>2. CASE OpenOn(s) = {}
      BY <1>1, <3>1, <3>2, SetsOfIs DEF SetOf, Serial!ResultSet
    <3>3. CASE OpenOn(s) # {}
      BY <1>1, <3>1, <3>3, SetsOfIs DEF SetOf, Serial!ResultSet, Serial!Disturbed
    <3> QED BY <3>2, <3>3
  <2>4. \A q \in Rowsets \ {r} : SetOf(q)' = Serial!Used(s)[q]
    BY <1>1, <2>2, UsedIs
  <2> HIDE DEF new
  <2>5. Sets' = [Serial!Used(s) EXCEPT ![r] = new]
    BY <2>3, <2>4 DEF Sets, Serial!Used
  <2>6. States[s] = "open" /\ Sets[r].st = "unborn"
    BY <1>1, SetIs DEF States
  <2> QED BY <1>1, <2>1, <2>5, <2>6 DEF Serial!Query, States, Sets, new
<1>3. \/ PrepareFails(s) /\ rows' = Shared(s)
      \/ \E p \in EnsurePrepared(s) : Holds(s, p) /\ RunFails(p) /\ rows' = Shared(s)
      \/ \E p \in EnsurePrepared(s), k \in 0..MaxRows :
           /\ Holds(s, p) /\ CanRun(p.live[p.h]) /\ AnswersRun("nil", p.live[p.h].ctx)
           /\ rows' = [Shared(s) EXCEPT ![r] = Opened(s, k)]
  BY DEF Query
<1> QED BY <1>1, <1>2, <1>3, FailRefines

LEMMA PrepareRefines ==
  ASSUME IInv, NEW s \in Stmts, Prepare(s)
  PROVE  Serial!Reject \/ Serial!Prepare(s)
<1>1. /\ stmts[s].st = "unborn" /\ UNCHANGED <<handle, txn, rows, ctxn>> /\ TypeOK
      /\ Sets' = Sets
  BY DEF Prepare, IInv, Sets, SetOf
<1>2. CASE Answers("error") /\ UNCHANGED stmts
  <2>1. Serial!Tells("error") /\ States' = States
    BY <1>2, TellsIs DEF States
  <2> QED BY <1>1, <2>1 DEF Serial!Reject, States, Sets
<1>3. ASSUME NEW h \in Handles, handle = "open", Answers("nil"),
             stmts' = [stmts EXCEPT ![s] = [st |-> "open", h |-> h, inTxn |-> txn # None]]
      PROVE  Serial!Prepare(s)
  <2>1. Serial!Tells("nil") /\ States[s] = "unborn"
    BY <1>1, <1>3, TellsIs DEF States
  <2>2. States' = [States EXCEPT ![s] = "open"]
    BY <1>1, <1>3 DEF States, TypeOK
  <2> QED BY <1>1, <1>3, <2>1, <2>2 DEF Serial!Prepare, States, Sets
<1> QED BY <1>2, <1>3 DEF Prepare, FreeIn

LEMMA StmtCloseRefines ==
  ASSUME IInv, NEW s \in Stmts, StmtClose(s)
  PROVE  Serial!StmtClose(s)
<1>1. /\ stmts[s].st = "open" /\ UNCHANGED <<handle, txn, ctxn>> /\ TypeOK
      /\ rows' = Shared(s) /\ Answers("nil")
      /\ stmts' = [stmts EXCEPT ![s].st = "closed", ![s].h = None]
  BY DEF StmtClose, IInv
<1>2. Serial!Tells("nil") /\ States[s] = "open" /\ Sets' = Serial!Used(s)
  BY <1>1, TellsIs, SharedRefines DEF States
<1>3. States' = [States EXCEPT ![s] = "closed"]
  BY <1>1 DEF States, TypeOK
<1> QED BY <1>1, <1>2, <1>3 DEF Serial!StmtClose, States, Sets

(* Result sets.  A step that changes nothing but the Rows r.               *)
LEMMA OneSet ==
  ASSUME TypeOK, NEW r \in Rowsets, NEW w, rows' = [rows EXCEPT ![r] = w]
  PROVE  /\ rows'[r] = w
         /\ Sets' = [Sets EXCEPT ![r] = SetOf(r)']
<1>1. rows'[r] = w /\ \A q \in Rowsets \ {r} : rows'[q] = rows[q]
  BY DEF TypeOK
<1>2. \A q \in Rowsets \ {r} : SetOf(q)' = SetOf(q)
  BY <1>1 DEF SetOf
<1> QED BY <1>1, <1>2 DEF Sets

(* The record v in place of the Rows r is a step of the result set.        *)
LEMMA SetMoves ==
  ASSUME TypeOK, NEW r \in Rowsets, NEW v, rows' = [rows EXCEPT ![r] = v],
         rows[r].st = "open", rows[r].end = "no", Serial!Tells("nil"),
         UNCHANGED <<handle, txn, stmts, ctxn>>,
         v.st = "open", v.s = rows[r].s, v.size = rows[r].size, v.shared = rows[r].shared,
         \/ rows[r].shared
         \/ v.got = rows[r].got + 1 /\ v.end = "no" /\ rows[r].got < rows[r].size
         \/ v.got = rows[r].got /\ v.end = "eof" /\ rows[r].got = rows[r].size
         \/ v.got = rows[r].got /\ v.end = "err"
  PROVE  Serial!RowsNext(r)
<1>1. rows'[r] = v /\ Sets' = [Sets EXCEPT ![r] = SetOf(r)'] /\ Sets[r] = SetOf(r)
      /\ States' = States
  BY OneSet, SetIs DEF States
<1>2. CASE rows[r].shared
  <2>1. SetOf(r)' = SetOf(r) /\ SetOf(r).st = "disturbed"
    BY <1>1, <1>2 DEF SetOf
  <2>2. Sets' = Sets
    BY <1>1, <2>1 DEF Sets
  <2> QED BY <1>1, <2>1, <2>2 DEF Serial!RowsNext, States, Sets
<1>3. CASE ~rows[r].shared
  <2> DEFINE new(got, end) == [st |-> "open", of |-> rows[r].s, size |-> rows[r].size,
                               got |-> got, end |-> end]
  <2>1. Sets[r] = new(rows[r].got, "no") /\ SetOf(r)' = new(v.got, v.end)
    BY <1>1, <1>3 DEF SetOf
  <2>2. /\ Sets[r].st = "open" /\ Sets[r].end = "no"
        /\ Sets[r].got = rows[r].got /\ Sets[r].size = rows[r].size
    BY <2>1
  <2>3. /\ [Sets[r] EXCEPT !.got = @ + 1] = new(rows[r].got + 1, "no")
        /\ [Sets[r] EXCEPT !.end = "eof"] = new(rows[r].got, "eof")
        /\ [Sets[r] EXCEPT !.end = "err"] = new(rows[r].got, "err")
    BY <2>1
  <2> HIDE DEF new
  <2>4. CASE v.got = rows[r].got + 1 /\ v.end = "no" /\ rows[r].got < rows[r].size
    <3>1. [Sets EXCEPT ![r].got = @ + 1] = [Sets EXCEPT ![r] = new(rows[r].got + 1, "no")]
      BY <2>3 DEF Sets
    <3>2. Sets' = [Sets EXCEPT ![r].got = @ + 1]
      BY <1>1, <2>1, <2>4, <3>1
    <3> QED BY <1>1, <2>2, <2>4, <3>2 DEF Serial!RowsNext, States, Sets
  <2>5. CASE v.got = rows[r].got /\ v.end = "eof" /\ rows[r].got = rows[r].size
    <3>1. [Sets EXCEPT ![r].end = "eof"] = [Sets EXCEPT ![r] = new(rows[r].got, "eof")]
      BY <2>3 DEF Sets
    <3>2. Sets' = [Sets EXCEPT ![r].end = "eof"]
      BY <1>1, <2>1, <2>5, <3>1
    <3> QED BY <1>1, <2>2, <2>5, <3>2 DEF Serial!RowsNext, States, Sets
  <2>6. CASE v.got = rows[r].got /\ v.end = "err"
    <3>1. [Sets EXCEPT ![r].end = "err"] = [Sets EXCEPT ![r] = new(rows[r].got, "err")]
      BY <2>3 DEF Sets
    <3>2. Sets' = [Sets EXCEPT ![r].end = "err"]
      BY <1>1, <2>1, <2>6, <3>1
    <3> QED BY <1>1, <2>2, <2>6, <3>2 DEF Serial!RowsNext, States, Sets
  <2> QED BY <1>3, <2>4, <2>5, <2>6
<1> QED BY <1>2, <1>3

(* A Rows that is not shared gives the next of its rows, or its end.       *)
LEMMA ReadRefines ==
  ASSUME IInv, NEW r \in Rowsets, RowsNext(r)
  PROVE  Serial!RowsNext(r)
<1>1. /\ UNCHANGED <<handle, txn, stmts, ctxn>> /\ Serial!Tells("nil") /\ TypeOK
      /\ \/ NextNoStmt(r) \/ NextPending(r) \/ NextDone(r)
         \/ NextRow(r) \/ NextRunsAgain(r) \/ NextFails(r)
  BY TellsIs DEF RowsNext, IInv
<1>2. Reading(r) /\ rows[r].st = "open" /\ rows[r].end = "no" /\ rows[r] \in Cursors
  BY <1>1 DEF NextNoStmt, NextPending, NextDone, NextRow, NextRunsAgain, NextFails,
              Steps, Reading, TypeOK
<1>3. ~rows[r].shared =>
        /\ Source(r) # None /\ FollowsQuery(rows[r], r, cstmt[Source(r)])
        /\ rows[r].got \in Nat /\ rows[r].size \in Nat
  BY <1>2, Bounds DEF IInv, RowShape, RowOk, Cursors
<1>4. ASSUME NEW c, Deliver(r, c), rows[r].shared \/ rows[r].got < rows[r].size
      PROVE  Serial!RowsNext(r)
  <2>1. PICK v \in Cursors :
           /\ rows' = [rows EXCEPT ![r] = v]
           /\ v.st = "open" /\ v.s = rows[r].s /\ v.shared = rows[r].shared
           /\ v.end = "no" /\ v.got = rows[r].got + 1 /\ v.size = rows[r].size
    BY <1>2, <1>4, Delivered
  <2> QED BY <1>1, <1>2, <1>4, <2>1, SetMoves
<1>5. ASSUME NEW how \in {"eof", "err"}, Ends(r, how),
             how = "eof" => rows[r].shared \/ rows[r].got = rows[r].size
      PROVE  Serial!RowsNext(r)
  <2>1. PICK v \in Cursors :
           /\ rows' = [rows EXCEPT ![r] = v]
           /\ v.st = "open" /\ v.s = rows[r].s /\ v.shared = rows[r].shared
           /\ v.end = how /\ v.got = rows[r].got /\ v.size = rows[r].size
    BY <1>2, <1>5, Finished
  <2> QED BY <1>1, <1>2, <1>5, <2>1, SetMoves
<1>6. CASE NextNoStmt(r)
  <2>1. rows[r].shared
    BY <1>2, <1>3, <1>6 DEF NextNoStmt, Cursors
  <2> DEFINE v == [rows[r] EXCEPT !.end = "eof"]
  <2>2. rows' = [rows EXCEPT ![r] = v]
    BY <1>6 DEF NextNoStmt
  <2>3. v.st = "open" /\ v.s = rows[r].s /\ v.shared = rows[r].shared /\ v.size = rows[r].size
    BY <1>2 DEF Cursors
  <2> HIDE DEF v
  <2> QED BY <1>1, <1>2, <2>1, <2>2, <2>3, SetMoves
<1>7. CASE NextPending(r)
  <2>1. rows[r].shared \/ rows[r].got < rows[r].size
    BY <1>3, <1>7 DEF NextPending, FollowsQuery
  <2> QED BY <1>4, <1>7, <2>1 DEF NextPending
<1>8. CASE NextRow(r)
  <2>1. rows[r].shared \/ rows[r].got < rows[r].size
    BY <1>3, <1>8 DEF NextRow, Steps, FollowsQuery
  <2> QED BY <1>4, <1>8, <2>1 DEF NextRow
<1>9. CASE NextRunsAgain(r)
  <2>1. rows[r].shared
    BY <1>2, <1>3, <1>9 DEF NextRunsAgain, Steps, FollowsQuery, Cursors
  <2> QED BY <1>4, <1>9, <2>1 DEF NextRunsAgain
<1>10. CASE NextDone(r)
  <2>1. rows[r].shared \/ rows[r].got = rows[r].size
    BY <1>2, <1>3, <1>10 DEF NextDone, Steps, FollowsQuery
  <2> QED BY <1>5, <1>10, <2>1 DEF NextDone
<1>11. CASE NextFails(r)
  BY <1>5, <1>11 DEF NextFails
<1> QED BY <1>1, <1>6, <1>7, <1>8, <1>9, <1>10, <1>11

LEMMA RowsCloseRefines ==
  ASSUME IInv, NEW r \in Rowsets, RowsClose(r)
  PROVE  Serial!RowsClose(r)
<1> DEFINE w == [NoRows EXCEPT !.st = "closed", !.done = TRUE]
<1>1. /\ UNCHANGED <<handle, txn, stmts, ctxn>> /\ rows[r].st = "open" /\ TypeOK
      /\ Serial!Tells("nil") /\ rows' = [rows EXCEPT ![r] = w]
  BY TellsIs DEF RowsClose, IInv
<1>2. w.st = "closed" /\ w.s = None
  BY DEF NoRows
<1> HIDE DEF w
<1>3. rows'[r] = w /\ Sets' = [Sets EXCEPT ![r] = SetOf(r)']
  BY <1>1, OneSet
<1>4. SetOf(r)' = Serial!ResultSet("closed", None, 0, 0, "no")
  BY <1>2, <1>3 DEF SetOf, Serial!ResultSet
<1>5. Serial!InUse(r) /\ States' = States
  BY <1>1, SetIs DEF States
<1> QED BY <1>1, <1>3, <1>4, <1>5 DEF Serial!RowsClose, States, Sets

(* Transactions.                                                           *)
LEMMA TxRefines ==
  ASSUME IInv, NEW t \in Txs, BeginTx(t) \/ TxCommit(t) \/ TxRollback(t)
  PROVE  \/ Serial!Reject \/ Serial!Begin(t)
         \/ Serial!End(t, "committed") \/ Serial!End(t, "rolledback")
<1>1. UNCHANGED <<handle, stmts, rows>> /\ States' = States /\ Sets' = Sets
  BY DEF BeginTx, TxCommit, TxRollback, EndTx, States, Sets, SetOf
<1>2. CASE Answers("error") /\ UNCHANGED <<txn, ctxn>>
  <2>1. Serial!Tells("error")
    BY <1>2, TellsIs
  <2> QED BY <1>1, <1>2, <2>1 DEF Serial!Reject, States, Sets
<1>3. CASE BeginTx(t) /\ handle = "open" /\ txn = None /\ Answers("nil")
           /\ txn' = t /\ ctxn' = [ctxn EXCEPT ![t] = "active"]
  <2>1. ctxn[t] = "none"
    BY <1>3 DEF BeginTx, IInv, TxShape
  <2>2. Serial!Tells("nil")
    BY <1>3, TellsIs
  <2> QED BY <1>1, <1>3, <2>1, <2>2 DEF Serial!Begin, States, Sets
<1>4. ASSUME NEW how \in {"committed", "rolledback"}, EndTx(t, how), txn # None
      PROVE  Serial!End(t, how)
  <2>1. txn = t
    BY <1>4 DEF EndTx, IInv, TxShape, TxOwnsTransaction
  <2>2. CASE Answers("nil") /\ ctxn' = [ctxn EXCEPT ![txn] = how]
    <3>1. Serial!Tells("nil")
      BY <2>2, TellsIs
    <3> QED BY <1>1, <1>4, <2>1, <2>2, <3>1 DEF EndTx, Serial!End, States, Sets
  <2>3. CASE Answers("error") /\ ctxn' = [ctxn EXCEPT ![txn] = "failed"]
    <3>1. Serial!Tells("error")
      BY <2>3, TellsIs
    <3> QED BY <1>1, <1>4, <2>1, <2>3, <3>1 DEF EndTx, Serial!End, States, Sets
  <2> QED BY <1>4, <2>2, <2>3 DEF EndTx
<1>5. CASE BeginTx(t)
  BY <1>2, <1>3, <1>5 DEF BeginTx
<1>6. ASSUME NEW how, EndTx(t, how), txn = None
      PROVE  Answers("error") /\ UNCHANGED <<txn, ctxn>>
  BY <1>6 DEF EndTx
<1>7. CASE TxCommit(t) \/ TxRollback(t)
  BY <1>2, <1>4, <1>6, <1>7 DEF TxCommit, TxRollback
<1> QED BY <1>5, <1>7

LEMMA CloseRefines ==
  ASSUME IInv, ConnClose
  PROVE  Serial!Close
<1>1. /\ UNCHANGED <<stmts, rows>> /\ States' = States /\ Sets' = Sets /\ Serial!Tells("nil")
      /\ handle' = "nil" /\ txn' = None /\ TypeOK
  BY TellsIs DEF ConnClose, States, Sets, SetOf, IInv
<1>2. \A s \in Stmts : States[s] # "open"
  BY DEF ConnClose, States
<1>3. \A r \in Rowsets : ~Serial!InUse(r)
  BY <1>1, SetIs DEF ConnClose
<1>4. ctxn' = [t \in Txs |-> IF t = txn THEN "rolledback" ELSE ctxn[t]]
  BY <1>1, NilIsNothing DEF ConnClose, TypeOK
<1> QED BY <1>1, <1>2, <1>3, <1>4 DEF Serial!Close, States, Sets

(* "ensurePrepared (re)prepares the C handle so it matches the             *)
(* connection's current transaction context": the driver, which keeps C    *)
(* statements across transactions and lets result sets read from them, is  *)
(* an implementation of the connection that has neither.                   *)
THEOREM Transparent == Spec => ConnectionSpec
<1>1. Init => Serial!Init
  <2> SUFFICES ASSUME Init
               PROVE  Serial!Init
    OBVIOUS
  <2>1. Sets = [r \in Rowsets |-> Serial!Unopened]
    BY DEF Init, Sets, SetOf, NoRows, Serial!Unopened, Serial!ResultSet
  <2>2. States = [s \in Stmts |-> "unborn"]
    BY DEF Init, States
  <2> QED BY <2>1, <2>2 DEF Init, Serial!Init, States, Sets
<1>2. IInv /\ [Next]_vars => [Serial!Next]_(Serial!vars)
  <2> SUFFICES ASSUME IInv, [Next]_vars
               PROVE  [Serial!Next]_(Serial!vars)
    OBVIOUS
  <2>1. CASE Refused
    <3>1. States' = States /\ Sets' = Sets /\ Serial!Tells("error")
      BY <2>1, TellsIs DEF Refused, States, Sets, SetOf
    <3>2. Serial!Reject
      BY <2>1, <3>1 DEF Refused, Serial!Reject, States, Sets
    <3> QED BY <3>2 DEF Serial!Next
  <2>2. ASSUME NEW s \in Stmts, Prepare(s) \/ Exec(s) \/ StmtClose(s)
        PROVE  Serial!Next
    BY <2>2, PrepareRefines, ExecRefines, StmtCloseRefines DEF Serial!Next
  <2>3. ASSUME NEW s \in Stmts, NEW r \in Rowsets, Query(s, r)
        PROVE  Serial!Next
    BY <2>3, QueryRefines DEF Serial!Next
  <2>4. ASSUME NEW r \in Rowsets, RowsNext(r) \/ RowsClose(r)
        PROVE  Serial!Next
    BY <2>4, ReadRefines, RowsCloseRefines DEF Serial!Next
  <2>5. ASSUME NEW t \in Txs, BeginTx(t) \/ TxCommit(t) \/ TxRollback(t)
        PROVE  Serial!Next
    BY <2>5, TxRefines DEF Serial!Next
  <2>6. CASE ConnClose
    BY <2>6, CloseRefines DEF Serial!Next
  <2>7. CASE UNCHANGED vars
    <3>1. States' = States /\ Sets' = Sets
      BY <2>7 DEF vars, States, Sets, SetOf
    <3> QED BY <2>7, <3>1 DEF vars, Serial!vars, States, Sets
  <2> QED BY <2>1, <2>2, <2>3, <2>4, <2>5, <2>6, <2>7 DEF Next
<1> QED BY <1>1, <1>2, Invariance, PTL DEF Spec, ConnectionSpec, Serial!Spec
=============================================================================
