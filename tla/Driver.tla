------------------------------- MODULE Driver -------------------------------
(***************************************************************************)
(* One connection of the database/sql driver (driver.go): its C handle,    *)
(* its transaction, the prepared statements that keep a C statement across *)
(* executions, and the result sets that read from those C statements.      *)
(*                                                                         *)
(* database/sql makes one driver call at a time on a connection, so each   *)
(* call is one action with every C call it makes.  The calls come in any   *)
(* order a program holding a sql.Conn can cause: statements outlive        *)
(* transactions, several Rows may be open at once.  A sql.Tx reaches its   *)
(* driver.Tx once, and a connection is closed after its statements and     *)
(* rows.                                                                   *)
(*                                                                         *)
(* The C library is external.  A C statement is bound for life to the      *)
(* context it was prepared in; zeta_reset rewinds it, and the next         *)
(* zeta_step then runs it anew; stepping one whose transaction has ended   *)
(* fails.  Every C call may fail.                                          *)
(***************************************************************************)
EXTENDS Naturals

CONSTANTS
  Stmts,          \* driver.Stmt objects, each prepared once
  Txs,            \* driver.Tx objects and the C transaction each was given
  Rowsets,        \* driver.Rows objects
  Handles,        \* addresses of C statements
  None,           \* nil; as a context, autocommit
  MaxRows         \* bound: rows of a result set

ASSUME Bounds == MaxRows \in Nat
ASSUME NilIsNothing == None \notin Txs \cup Rowsets \cup Handles

VARIABLES
  handle,  \* conn.handle: "open" or "nil"
  txn,     \* conn.txn
  stmts,   \* stmt: its C statement h, inTxn, and whether it was handed out
  rows,    \* rows: s, pending, done, and what its reader was told
  txs,     \* what database/sql did with each driver.Tx
  ctxn,    \* the C transactions
  cstmt,   \* the C statements
  latest   \* history: the answer of the latest call; where it ran

vars == <<handle, txn, stmts, rows, txs, ctxn, cstmt, latest>>
-----------------------------------------------------------------------------
Contexts == Txs \cup {None}
Freed == [phase |-> "freed", ctx |-> None, run |-> None, at |-> 0, size |-> 0]

(* run: the Rows whose Query made the engine run the statement; at: the    *)
(* row it stands on.                                                       *)
CStatements == [phase : {"freed", "ready", "row", "done"}, ctx : Contexts,
                run : Rowsets \cup {None}, at : 0..MaxRows, size : 0..MaxRows]

(* size, got, end, own and shared are history: the rows the engine had for *)
(* this Query, those delivered, how the iteration ended, whether all of    *)
(* them were rows of this Query, in order, and whether the statement was   *)
(* used otherwise while the Rows was open.                                 *)
Cursors == [st : {"unborn", "open", "closed"}, s : Stmts \cup {None},
            pending : BOOLEAN, done : BOOLEAN,
            size : 0..MaxRows, got : 0..(MaxRows + 1),
            end : {"no", "eof", "err"}, own : BOOLEAN, shared : BOOLEAN]

NoRows == [st |-> "unborn", s |-> None, pending |-> FALSE, done |-> FALSE,
           size |-> 0, got |-> 0, end |-> "no", own |-> TRUE, shared |-> FALSE]

TypeOK ==
  /\ handle \in {"open", "nil"}
  /\ txn \in Contexts
  /\ stmts \in [Stmts -> [st : {"unborn", "open", "closed"},
                          h : Handles \cup {None}, inTxn : BOOLEAN]]
  /\ rows \in [Rowsets -> Cursors]
  /\ txs \in [Txs -> {"unborn", "open", "committed", "rolledback"}]
  /\ ctxn \in [Txs -> {"none", "active", "committed", "rolledback", "failed"}]
  /\ cstmt \in [Handles -> CStatements]
  /\ latest \in [err : {"nil", "error"},
                 want : Contexts, ctx : Contexts]

Init ==
  /\ handle = "open" /\ txn = None
  /\ stmts = [s \in Stmts |-> [st |-> "unborn", h |-> None, inTxn |-> FALSE]]
  /\ rows = [r \in Rowsets |-> NoRows]
  /\ txs = [t \in Txs |-> "unborn"]
  /\ ctxn = [t \in Txs |-> "none"]
  /\ cstmt = [h \in Handles |-> Freed]
  /\ latest = [err |-> "nil", want |-> None, ctx |-> None]
-----------------------------------------------------------------------------
(* ErrClosed, ErrTxDone, a refusal and an error of the engine are all an   *)
(* "error": no property tells them apart.                                  *)
Answers(err) == latest' = [err |-> err, want |-> None, ctx |-> None]
AnswersRun(err, ctx) == latest' = [err |-> err, want |-> txn, ctx |-> ctx]

(* zeta_prepare and zeta_txn_prepare; zeta_reset.                          *)
Prepared(ctx) == [Freed EXCEPT !.phase = "ready", !.ctx = ctx]
Rewound(c) == Prepared(c.ctx)
Ended(c) == [Rewound(c) EXCEPT !.phase = "done"]
FreeIn(live) == {h \in Handles : live[h].phase = "freed"}
CanRun(c) == c.ctx # None => ctxn[c.ctx] = "active"

Finalized(s) == IF stmts[s].h = None THEN cstmt
                ELSE [cstmt EXCEPT ![stmts[s].h] = Freed]

(* The Rows of s that are open when s is used or closed again: they share  *)
(* the one C statement of s with that other use.                           *)
OpenOn(s) == {r \in Rowsets : rows[r].st = "open" /\ rows[r].s = s}
Shared(s) == [r \in Rowsets |-> IF r \in OpenOn(s)
                THEN [rows[r] EXCEPT !.shared = TRUE] ELSE rows[r]]

(* A call refused before it touches the engine: the context is done, a     *)
(* parameter is named, the isolation level is not supported.               *)
Refused ==
  /\ Answers("error")
  /\ UNCHANGED <<handle, txn, stmts, rows, txs, ctxn, cstmt>>

Prepare(s) ==
  /\ stmts[s].st = "unborn"
  /\ \/ handle = "nil" /\ Answers("error") /\ UNCHANGED <<stmts, cstmt>>
     \/ /\ handle = "open"
        /\ \E h \in FreeIn(cstmt) :
             /\ cstmt' = [cstmt EXCEPT ![h] = Prepared(txn)]
             /\ stmts' = [stmts EXCEPT ![s] =
                            [st |-> "open", h |-> h, inTxn |-> txn # None]]
        /\ Answers("nil")
     \/ handle = "open" /\ Answers("error") /\ UNCHANGED <<stmts, cstmt>>
  /\ UNCHANGED <<handle, txn, rows, txs, ctxn>>
-----------------------------------------------------------------------------
(* Mutant: the statement is kept whatever it was prepared in.              *)
KeptAlways(s) == stmts[s].h # None

(* ensurePrepared.  The statement is kept if it was prepared in a          *)
(* transaction and there is one now, or neither; else it is finalized and  *)
(* prepared again, which may fail and leaves the stmt without any.         *)
Kept(s) == stmts[s].h # None /\ stmts[s].inTxn = (txn # None)

EnsurePrepared(s) ==
  IF Kept(s) THEN {[h |-> stmts[s].h, live |-> cstmt]}
  ELSE {[h |-> h, live |-> [Finalized(s) EXCEPT ![h] = Prepared(txn)]] :
          h \in FreeIn(Finalized(s))}

PrepareFails(s) ==
  /\ ~Kept(s)
  /\ stmts' = [stmts EXCEPT ![s].h = None]
  /\ cstmt' = Finalized(s)
  /\ Answers("error")

(* zeta_reset or a bind fails, or the first zeta_step.                     *)
RunFails(p) ==
  /\ \/ cstmt' = p.live
     \/ cstmt' = [p.live EXCEPT ![p.h] = Rewound(@)]
     \/ cstmt' = [p.live EXCEPT ![p.h] = Ended(@)]
  /\ AnswersRun("error", p.live[p.h].ctx)

Holds(s, p) == stmts' = [stmts EXCEPT ![s].h = p.h, ![s].inTxn = txn # None]

Exec(s) ==
  /\ stmts[s].st = "open"
  /\ \/ PrepareFails(s)
     \/ \E p \in EnsurePrepared(s) :
          /\ Holds(s, p)
          /\ \/ RunFails(p)
             \/ /\ CanRun(p.live[p.h])
                /\ cstmt' = [p.live EXCEPT ![p.h] =
                               Ended(@)]
                /\ AnswersRun("nil", p.live[p.h].ctx)
  /\ rows' = Shared(s)
  /\ UNCHANGED <<handle, txn, txs, ctxn>>

(* Query steps once before it returns: the first row waits as pending.     *)
Opened(s, k) ==
  [st |-> "open", s |-> s, pending |-> k > 0, done |-> k = 0,
   size |-> k, got |-> 0, end |-> "no", own |-> TRUE, shared |-> OpenOn(s) # {}]

Query(s, r) ==
  /\ stmts[s].st = "open" /\ rows[r].st = "unborn"
  /\ \/ PrepareFails(s) /\ rows' = Shared(s)
     \/ \E p \in EnsurePrepared(s) :
          /\ Holds(s, p)
          /\ \/ RunFails(p) /\ rows' = Shared(s)
             \/ \E k \in 0..MaxRows :
                  /\ CanRun(p.live[p.h])
                  /\ cstmt' = [p.live EXCEPT ![p.h] =
                       [ctx |-> @.ctx, run |-> r, size |-> k,
                        phase |-> IF k > 0 THEN "row" ELSE "done",
                        at |-> IF k > 0 THEN 1 ELSE 0]]
                  /\ rows' = [Shared(s) EXCEPT ![r] = Opened(s, k)]
                  /\ AnswersRun("nil", p.live[p.h].ctx)
  /\ UNCHANGED <<handle, txn, txs, ctxn>>

(* Mutant: Close forgets the C statement without finalizing it.            *)
StmtCloseLeaks(s) ==
  /\ stmts[s].st = "open"
  /\ stmts' = [stmts EXCEPT ![s].st = "closed", ![s].h = None]
  /\ rows' = Shared(s)
  /\ Answers("nil")
  /\ UNCHANGED <<handle, txn, txs, ctxn, cstmt>>

StmtClose(s) ==
  /\ stmts[s].st = "open"
  /\ cstmt' = Finalized(s)
  /\ stmts' = [stmts EXCEPT ![s].st = "closed", ![s].h = None]
  /\ rows' = Shared(s)
  /\ Answers("nil")
  /\ UNCHANGED <<handle, txn, txs, ctxn>>
-----------------------------------------------------------------------------
(* rows.Next.  database/sql stops calling it after io.EOF or an error; an  *)
(* iteration is followed up to MaxRows + 1 rows.                           *)
Reading(r) == rows[r].st = "open" /\ rows[r].end = "no" /\ rows[r].got <= MaxRows
Source(r) == stmts[rows[r].s].h

(* Mutant: pending is not cleared.                                         *)
DeliverAgain(r, c) ==
  rows' = [rows EXCEPT ![r] =
             [@ EXCEPT !.got = @ + 1,
                       !.own = @ /\ c.run = r /\ c.at = rows[r].got + 1]]

(* The row of c that r hands to its reader.                                *)
Deliver(r, c) ==
  rows' = [rows EXCEPT ![r] =
             [rows[r] EXCEPT !.pending = FALSE, !.got = rows[r].got + 1,
                             !.own = /\ rows[r].own
                                     /\ c.run = r /\ c.at = rows[r].got + 1]]
Ends(r, how) == rows' = [rows EXCEPT ![r].done = TRUE, ![r].end = how]

NextNoStmt(r) ==
  /\ Reading(r) /\ Source(r) = None
  /\ rows' = [rows EXCEPT ![r].end = "eof"]
  /\ UNCHANGED cstmt

NextPending(r) ==
  /\ Reading(r) /\ Source(r) # None /\ rows[r].pending
  /\ Deliver(r, cstmt[Source(r)])
  /\ UNCHANGED cstmt

Steps(r) == Reading(r) /\ Source(r) # None /\ ~rows[r].pending /\ ~rows[r].done

NextDone(r) ==
  /\ Reading(r) /\ Source(r) # None /\ ~rows[r].pending
  /\ \/ rows[r].done /\ UNCHANGED cstmt
     \/ /\ Steps(r)
        /\ LET c == cstmt[Source(r)] IN
             CanRun(c) /\ (c.phase = "row" => c.at = c.size)
        /\ cstmt' = [cstmt EXCEPT ![Source(r)] = Ended(@)]
  /\ Ends(r, "eof")

(* Mutant: ZETA_DONE is taken for a row.                                   *)
NextRowPastDone(r) ==
  /\ Steps(r)
  /\ LET c == cstmt[Source(r)] IN
       /\ c.phase = "row" /\ CanRun(c)
       /\ cstmt' = [cstmt EXCEPT ![Source(r)].at = @ + 1]
  /\ Deliver(r, cstmt'[Source(r)])

NextRow(r) ==
  /\ Steps(r)
  /\ LET c == cstmt[Source(r)] IN
       /\ c.phase = "row" /\ c.at < c.size /\ CanRun(c)
       /\ cstmt' = [cstmt EXCEPT ![Source(r)].at = @ + 1]
  /\ Deliver(r, cstmt'[Source(r)])

(* The statement was rewound under this Rows: the engine runs it again.    *)
NextRunsAgain(r) ==
  /\ Steps(r)
  /\ cstmt[Source(r)].phase = "ready" /\ CanRun(cstmt[Source(r)])
  /\ \E k \in 1..MaxRows :
       cstmt' = [cstmt EXCEPT ![Source(r)] =
                   [@ EXCEPT !.phase = "row", !.at = 1, !.size = k]]
  /\ Deliver(r, cstmt'[Source(r)])

(* Mutant: a failed step ends the rows as if there were no more.           *)
NextFailsQuietly(r) ==
  /\ Steps(r)
  /\ cstmt' = [cstmt EXCEPT ![Source(r)] = Ended(@)]
  /\ Ends(r, "eof")

NextFails(r) ==
  /\ Steps(r)
  /\ cstmt' = [cstmt EXCEPT ![Source(r)] = Ended(@)]
  /\ Ends(r, "err")

RowsNext(r) ==
  /\ \/ NextNoStmt(r) \/ NextPending(r) \/ NextDone(r)
     \/ NextRow(r) \/ NextRunsAgain(r) \/ NextFails(r)
  /\ Answers("nil")
  /\ UNCHANGED <<handle, txn, stmts, txs, ctxn>>

(* Nobody reads from a closed Rows: its history is dropped.                *)
RowsClose(r) ==
  /\ rows[r].st = "open"
  /\ rows' = [rows EXCEPT ![r] = [NoRows EXCEPT !.st = "closed", !.done = TRUE]]
  /\ cstmt' = IF Source(r) = None THEN cstmt
              ELSE [cstmt EXCEPT ![Source(r)] = Rewound(@)]
  /\ Answers("nil")
  /\ UNCHANGED <<handle, txn, stmts, txs, ctxn>>
-----------------------------------------------------------------------------
(* Mutant: a second transaction replaces the one that is open.             *)
BeginTxNested(t) ==
  /\ txs[t] = "unborn"
  /\ handle = "open" /\ Answers("nil")
  /\ txn' = t
  /\ txs' = [txs EXCEPT ![t] = "open"]
  /\ ctxn' = [ctxn EXCEPT ![t] = "active"]
  /\ UNCHANGED <<handle, stmts, rows, cstmt>>

BeginTx(t) ==
  /\ txs[t] = "unborn"
  /\ \/ /\ handle = "nil" /\ Answers("error")
        /\ UNCHANGED <<txn, txs, ctxn>>
     \/ /\ handle = "open" /\ txn # None /\ Answers("error")
        /\ UNCHANGED <<txn, txs, ctxn>>
     \/ /\ handle = "open" /\ txn = None /\ Answers("error")
        /\ UNCHANGED <<txn, txs, ctxn>>
     \/ /\ handle = "open" /\ txn = None /\ Answers("nil")
        /\ txn' = t
        /\ txs' = [txs EXCEPT ![t] = "open"]
        /\ ctxn' = [ctxn EXCEPT ![t] = "active"]
  /\ UNCHANGED <<handle, stmts, rows, cstmt>>

(* The C transaction is gone whatever zeta_commit answers.                 *)
EndTx(t, told) ==
  /\ txs[t] = "open"
  /\ txs' = [txs EXCEPT ![t] = told]
  /\ \/ txn = None /\ Answers("error") /\ UNCHANGED <<txn, ctxn>>
     \/ /\ txn # None
        /\ txn' = None
        /\ \/ Answers("nil") /\ ctxn' = [ctxn EXCEPT ![txn] = told]
           \/ Answers("error") /\ ctxn' = [ctxn EXCEPT ![txn] = "failed"]
  /\ UNCHANGED <<handle, stmts, rows, cstmt>>

TxCommit(t) == EndTx(t, "committed")
TxRollback(t) == EndTx(t, "rolledback")

(* database/sql closes the statements and rows of a connection first.      *)
ConnClose ==
  /\ \A s \in Stmts : stmts[s].st # "open"
  /\ \A r \in Rowsets : rows[r].st # "open"
  /\ handle' = "nil"
  /\ txn' = None
  /\ ctxn' = IF txn = None THEN ctxn ELSE [ctxn EXCEPT ![txn] = "rolledback"]
  /\ Answers("nil")
  /\ UNCHANGED <<stmts, rows, txs, cstmt>>

Next ==
  \/ Refused
  \/ \E s \in Stmts : Prepare(s) \/ Exec(s) \/ StmtClose(s)
  \/ \E s \in Stmts, r \in Rowsets : Query(s, r)
  \/ \E r \in Rowsets : RowsNext(r) \/ RowsClose(r)
  \/ \E t \in Txs : BeginTx(t) \/ TxCommit(t) \/ TxRollback(t)
  \/ ConnClose

Spec == Init /\ [][Next]_vars
-----------------------------------------------------------------------------
(* Work is done in the transaction it was asked for: a statement that ran  *)
(* without error ran in the transaction open at that moment, or in         *)
(* autocommit if none was, however often it was used in other contexts     *)
(* before (ensurePrepared).                                                *)
InOwnContext == latest.err = "nil" => latest.ctx = latest.want

(* C statements are owned: each live one is held by exactly one open stmt, *)
(* no stmt holds a freed one, and nothing is left when the connection's    *)
(* handle has been closed.                                                 *)
HandlesAccounted ==
  /\ \A h \in Handles : cstmt[h].phase # "freed" =>
       \E s \in Stmts : stmts[s].st = "open" /\ stmts[s].h = h
  /\ \A s \in Stmts : stmts[s].h # None =>
       /\ cstmt[stmts[s].h].phase # "freed" /\ handle = "open"
       /\ \A u \in Stmts : stmts[u].h = stmts[s].h => u = s

(* A driver.Tx ends the C transaction it was given and no other, although  *)
(* it only knows its connection: while it is open its transaction is the   *)
(* connection's, and once its Commit or Rollback has been called its       *)
(* transaction has met that fate, a failure, or the close of the           *)
(* connection.                                                             *)
TxOwnsTransaction ==
  \A t \in Txs :
    /\ txs[t] = "open" /\ handle = "open" => txn = t
    /\ ctxn[t] = "active" <=> txn = t
    /\ ctxn[t] = "committed" => txs[t] = "committed"
    /\ txs[t] = "committed" /\ handle = "open" => ctxn[t] \in {"committed", "failed"}

(* What Next hands out are the rows of its own Query, in order and none    *)
(* twice, as long as the program leaves the statement alone while the Rows *)
(* is open: whatever else it does on the connection, whatever fails, and   *)
(* wherever transactions begin and end in between.                         *)
OwnRows == \A r \in Rowsets : ~rows[r].shared => rows[r].own

(* Under the same discipline an iteration that ended with io.EOF, and not  *)
(* with an error, delivered every row of the Query.                        *)
NoSilentTruncation ==
  \A r \in Rowsets : rows[r].end = "eof" /\ ~rows[r].shared => rows[r].got = rows[r].size

(* "rows iterates the result set produced by stmt.Query", said of every    *)
(* Rows, also when its statement is run or closed again before the Rows    *)
(* is: its rows are those of its own Query, and io.EOF comes after the     *)
(* last of them.                                                           *)
IteratesItsQuery ==
  \A r \in Rowsets :
    rows[r].own /\ (rows[r].end = "eof" => rows[r].got = rows[r].size)

(* ensurePrepared "(re)prepares the C handle so it matches the             *)
(* connection's current transaction context": no statement is run on a     *)
(* handle of another one.                                                  *)
MatchesContext == latest.ctx = latest.want
-----------------------------------------------------------------------------
(* The result sets as SerialConnection has them: of a Rows whose statement *)
(* was used again, only that it is in the way.                             *)
SetOf(r) ==
  LET w == rows[r]
      kept == w.st = "open" /\ ~w.shared
  IN [st |-> IF w.st = "open" /\ w.shared THEN "disturbed" ELSE w.st,
      of |-> IF w.st = "open" THEN w.s ELSE None,
      size |-> IF kept THEN w.size ELSE 0,
      got |-> IF kept THEN w.got ELSE 0,
      end |-> IF kept THEN w.end ELSE "no"]

Serial == INSTANCE SerialConnection WITH
            open <- handle = "open",
            fate <- ctxn,
            state <- [s \in Stmts |-> stmts[s].st],
            sets <- [r \in Rowsets |-> SetOf(r)],
            told <- latest.err,
            ran <- IF latest.err = "nil" THEN latest.ctx ELSE None

(* "ensurePrepared (re)prepares the C handle so it matches the             *)
(* connection's current transaction context": what C statement a stmt      *)
(* keeps, and where it was prepared, is not noticed, but for the result    *)
(* sets of a statement that is used again.                                 *)
ConnectionSpec == Serial!Spec
=============================================================================
