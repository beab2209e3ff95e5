# Formal models of zeta-go

TLA+ models of the Go binding in this repository (`embedded/`) and of its
installer (`cmd/zeta-setup`), checked with TLC on small instances, with
theorems about them proved with TLAPS for every value of the constants.

## The system

| Part | State it keeps | Operations | What makes it correct |
|---|---|---|---|
| Native API (`zeta.go`, `exec.go`, `query.go`, `txn.go`) | `Database.mu`, `Database.handle`; `Tx.handle`, `Tx.done`; `Rows.stmt`, `closed`, `lastErr`, `atRow` | Open*, Close, Exec, Query, Begin*, Tx.Exec/Query/Commit/Rollback, Rows.Next/Scan/Close | one caller at a time in the C handle; statements finalized once and in time; each call reports its own count and error; nothing runs in a finished Tx |
| Errors (`error.go`) | none | `errorKindFromCode` | a failed call reports the kind of its own failure |
| database/sql driver (`driver.go`) | `conn.handle`, `conn.txn`; `stmt.h`, `inTxn`, `closed`; `rows.pending`, `done`, `closed` | Prepare, Exec, Query, Next, Close, BeginTx, Commit, Rollback | work lands in the transaction it was asked for; a result set is that of its Query; no C statement leaks or is used after it is freed |
| Installer (`cmd/zeta-setup`) | `libzeta.a`, `VERSION`, a temporary file per process | install, uninstall, version | nothing unverified is installed; VERSION names what is there; a successful install leaves a whole library |
| Binding and scanning values (`param.go`, `query.go`, `driver.go`) | the parameters bound in the driver's statement | `bindParams`, `bindOne`, `Scan`, `scanColumn`, `columnToAny`, `bindValues` | a value comes back as it was given; a call's row is made of its own arguments |
| Catalog (`schema.go`) | none | `ListTables`, `TableInfo`, `parseTableInfo` | the text of the C library is read as it was meant |
| Isolation levels and retry (`txn.go`, `driver.go`, README) | inside the C library; `conn.txn` | `BeginWithIsolation`, `BeginTx`, `Commit`, `Rollback` | what a client is told is what happened; no write skew at the level asked for; retries end |
| Development listeners (`devlisten.go`, tag `zeta_dev`) | inside the C library | `StartPgwireDev`, `StartMysqlwireDev`, `StopDevListeners` | drained before the handle closes, and none started after |
| C library (`include/zeta.h`) | everything persistent | external | external |

How they interact: the native API and the driver are two independent users of
the C library. A `Database` is shared by goroutines and serialises them with one
mutex; `Query` returns with the mutex *locked* and the `Rows` it returns becomes
its holder until it is closed. The driver has no mutex: database/sql makes one
call at a time on a connection, but in any order, with several statements, rows
and a transaction alive together. The development listeners are a third
user of the handle: their sessions run inside the C library without the mutex,
and the calls that start and drain them take it. The installer shares only the
file system with other runs of itself.

The hard behaviours: hand-over of a lock between objects; registers of the handle
(`zeta_changes`, `zeta_errcode`) that belong to nobody; Commit, Rollback, Exec and
Close calls that all waited for the same lock; early returns after part of the
work; prepared statements that outlive the transaction they were prepared in;
result sets that share a C cursor; a statement reused with other parameters;
numbers and lengths at the end of their C types; transactions retried after a
conflict; listeners drained under the lock others wait for; a file replaced in
place by commands that can be killed. `PROJECT.json` lists them at their lines under "hazards".

## The modules

| Module | Role |
|---|---|
| `ErrorKinds` | the table from C codes to `ErrorKind` |
| `Database` | the native API as it is written: goroutines, mutex, C calls, one action per step at which another goroutine could act |
| `SerialDatabase` | the abstract API: every call is one atomic step |
| `DevListeners` | `Database` composed with the development listeners and their sessions |
| `Driver` | one database/sql connection, one action per driver call |
| `SerialConnection` | the abstract connection: a statement is a text, a result set a value, one transaction at a time |
| `TxnIsolation` | transactions of several clients of both APIs, their levels and the retry loop |
| `Values` | conversions of one value: binding, reading, scanning (operators only) |
| `SchemaText` | the text formats of the catalog and their parsers (operators only) |
| `Boundary` | statements that carry values across the C boundary and back, and catalog calls, over `Values` and `SchemaText` |
| `Installer` | zeta-setup processes on one prefix |
| `DatabaseProofs`, `DatabaseRefinement`, `DevListenersProofs`, `DriverProofs`, `InstallerProofs`, `TxnIsolationProofs`, `BoundaryProofs` | inductive invariants, the refinements of `SerialDatabase` and `SerialConnection`, and the theorems |
| `Induction` | induction over the naturals, lists of a finite set in an order, and functions defined by recursion, in a form the provers can use |
| `MCDatabase`, `MCDevListeners`, `MCDriver`, `MCTxnIsolation`, `MCBoundary`, `MCInstaller` | small sets and symmetry for TLC |

Operators introduced by a comment "Mutant" are not part of the specifications:
each is a definition as a plausible bug would have it, and `PROJECT.json` says
which property notices when it replaces the real one.

### Database

A goroutine's `pc` walks through its call: `lock` (waiting in `mu.Lock`), the
points before each C call (`prepare`, `bind`, `step`, `begin`, `commit`,
`rollback`, `close`, `catalog`), the reads of the handle's registers (`changes`,
`errcode`), and `return` (the deferred finalize and unlock). `mu` holds a
goroutine, an open `Rows`, or `None`. Actions `DatabaseExec` ... `DatabaseClose`
are the entries of the methods with their early returns, in the order the code
checks; `BindQuery` is the hand-over of the lock; `RowsNext`, `NextRow`,
`NextDone`, `NextFails`, `RowsFinalize`, `RowsUnlock` are `Rows.Next` and
`Rows.Close`, which take no lock of their own. Every C call may fail with any code
of `ErrCodes` or succeed with any number of rows up to `MaxRows`. `truth` and
`rows[r].lost` are history variables: what the engine did, and how many rows an
iteration left behind.

Two constants describe the callers. `RowsDiscipline`: no goroutine calls the
Database while a `Rows` of its own is open (it would block on itself).
`CloseDiscipline`: `Close` is not called while a `Tx` is open or being begun, as
the comment on `Tx` demands. It is needed for the C API: `Tx.Commit` and
`Tx.Rollback` do not look at `db.handle`, so after `Close` they would pass a
transaction of a closed handle to `zeta_commit`. `db_safety` keeps the second and
not the first, `db_live` the first and not the second; no invariant but
`TxEndsOnce` and the refinement needs the second, and the theorems say so. What
happens to callers who break either rule is not claimed: `txn.go:31-32` calls the
outcome of a Close under an open Tx undefined, and the block of a goroutine behind its
own Rows is documented.

A `Rows` is used by one goroutine at a time. `Close` and `Next` on a closed `Rows`
change nothing and are left out. Unsupported isolation levels are failures of
`zeta_begin_isolation`.

### Driver

A C statement (`cstmt`) is bound for life to the context it was prepared in and
carries the execution (`run`) its cursor belongs to. `EnsurePrepared` is
`ensurePrepared` with its `inTxn` flag; `Exec` and `Query` are whole driver calls:
(re)prepare, reset, bind, step. `Query` fetches the first row ahead (`pending`).
`RowsNext` is the disjunction of the ways `rows.Next` can go, including the one
where another use of the statement has rewound it, so that stepping runs it again.
Calls are atomic because database/sql holds the connection's lock around each;
their order is free, as a program with a `sql.Conn` can make it. What database/sql
guarantees and the model assumes: a `driver.Tx` is committed or rolled back once,
`Next` is not called after it ended, and a connection is closed after its
statements and rows. With that contract the `handle == nil` check of
`ensurePrepared` is never reached; those of `prepare` and `beginTx` are in the
model.

Two Rows of one statement share its C cursor. database/sql keeps them apart for
statements prepared on a `sql.DB`, not for those of a `sql.Tx` or `sql.Conn`. The
history field `shared` of a Rows records that its statement was run or closed
again while it was open: `OwnRows` and `NoSilentTruncation` speak of the Rows that
are not shared, in behaviours where others are, and `IteratesItsQuery` of all.

`SerialConnection` is what a program may rely on: it has no C statements, no `inTxn`
and no cursors. A statement runs in the transaction that is open when it runs, a
result set hands out its rows and then its end, a `Tx` ends the transaction it began.
`ConnectionSpec` is that specification under the mapping at the end of `Driver`: the
result of `SetOf(r)` is the Rows itself, or, once its statement was used again, only
that it is in the way ("disturbed"), of which nothing is promised. A failed call
maps to a failed call, whether the C statement was stale, refused a value or failed
to step.

### DevListeners

The three methods have the shape of `ListTables`: lock, check the handle, one C
call, unlock. `DevListeners` therefore reuses the actions of `Database`, gives such
a call a `job`, and adds what the C library does: listeners, sessions that connect
and disconnect when their clients like, and a drain. `zeta_stop_listeners` and
`zeta_close` first stop accepting (`StopAccepting`) and answer when the sessions
have ended, with the mutex held throughout. A failed stop may leave anything.
What a session does in the engine is the engine's: it does not touch the Go side.

### TxnIsolation

A client runs one transaction, of one of two kinds: *clear* reads all flags and
clears its own only while another is set (check-then-write, the case of write
skew), *bump* adds one to a counter (read-modify-write, the case of lost update).
Each asks for a level through one API: `native` passes it to `zeta_begin_isolation`,
`driver` through the `switch` of `BeginTx` and the `conn.txn` check. Any call may fail; the
client leaves through its deferred `Rollback` and begins again exactly on
`ErrConflict`, as the README shows.

The engine is external and promises what `zeta.h` and the comments of `txn.go` say:
a snapshot per transaction; of two concurrent writers of a row one fails, at its
write or at its commit; a serializable commit that would close a cycle of
dependencies among serializable transactions fails, and one may fail whenever a
concurrent transaction has committed (the "coarse" detection). A commit that fails
for another reason than a conflict may or may not have been applied: `ToldIsTrue`
counts it as unknown, as a caller must. That such transactions are serializable is
not assumed: `NoSkewWhenAsked` compares the store with serial runs of the clients.

### Values, SchemaText, Boundary

A value is a type and a payload of integers; text is a sequence of characters of
which NUL, newline and tab matter. The widths of int64, int32 (and the C `int` of
lengths), the spacing of float32, the length of a day and the resolution of a Go
instant are constants, so that the ends of every range lie within the instance.
An engine value rendered as text is a mark of its type followed by its payload. `GoValues` and `Columns`
are all the values there are on either side; what the runs bind is a few of them.
Texts are split, joined and parsed by recursive functions over their length. Where `zeta.h`
does not say what an accessor answers (a number read from a text column), it
answers anything; three representatives stand for that. `zeta_bind_text` is
documented for -1 and taken to treat every negative length so; negative lengths of
bytes and vectors are undocumented and taken to be refused. Days and times of day
have the ranges `zeta.h:384-387` gives them, far from where `columnToAny`'s
multiplications would wrap. Named arguments are refused, as `namedToValues` does.

`Boundary` runs an UPDATE of one row with a list of arguments, by a fresh statement
(native) or by the one kept and reset (driver), stopping at the first argument that
cannot be bound; then `Scan` into every type of destination, or the driver's `Next`.
Its properties name their exceptions, which are what the code does not preserve:

- text ends at its first NUL when it is read (`C.GoString`), and an empty blob may
  come back as nil;
- bytes stored in a BYTEA column are read as bytes or as the text of their hex digits.
  `zeta_test.go:222-225` and `src/README.md:158` say the second, `driver_test.go:171-182`
  the first; the Go code reads whatever type the engine reports, so both are allowed
  (`Stored`), and a program has to be ready for either;
- a time a program stores comes back as a time or, from a text column, as the text
  the driver made of it; text that is such a timestamp, in a timestamp column, as the
  time;
- a NUL-free string of 2^31 to 2^32 bytes survives, because its wrapped length is
  negative and means "up to the NUL"; from 2^32 on it is cut, as bytes and vectors
  are, and `RoundTrip` promises nothing;
- `Scan` into a narrower or different type is lossy where `Lossy` says so: a BIGINT
  into `*int32` is truncated without an error, a DECIMAL reads as 0;
- a TIME of 24:00:00, which `zeta.h:386` allows, is read as midnight of 0000-01-02,
  against the comment at `query.go:253` ("the time of day on 0000-01-01"); it is one of
  the pairs of `Lossy`, and every other TIME has to be on 0000-01-01;
- a Scan that fails does so at the first destination `FailsAt` names: a type that the
  comment on `Scan` does not list, a `*time.Time` for what is no date or time, and
  `*[]float32`, which that comment lists (`query.go:127`) and `scanColumn` has no case for;
- the catalog's text cannot quote: a name or type with a newline or tab shifts the
  fields, and a name with a NUL looks up another table.

### Installer

Each process steps through the calls of `install`, `uninstall` or `version`. The
library is a sequence of pieces, so that a torn or mixed file can be told from a
whole one; a file unlinked under a writer stays the writer's and no longer the
directory's (`linked`). `Faults` lets any call fail and any process be killed;
`Overlap` lets commands run at the same time. A failed call ends the command (`Fails`;
so does an unsupported platform) but for three whose errors the code passes over: the
`os.Remove` of the temporary file, which then stays (`"stuck"`), the read of VERSION
before an install, which then counts as none, and the `Stat` before an uninstall,
which goes on to `RemoveAll`. `SHA256SUMS` is taken to be right,
so verification accepts exactly the artifact of the requested version. A write of
VERSION replaces it whole: the model does not mix two version strings of different
length written at the same moment.

Two history variables say when the prefix can be relied on. `alone[p]`: no other
install or uninstall was running when p started, and none has started since.
`trusted`: no command has failed or been killed while it was writing, and no two
writers have overlapped, since the last one that came to its end alone (and, if it
installed, verified what it did).
`VersionIsInstalled` speaks of trusted states, `VersionNamesLibrary` of all.

## The runs

| Run | Bounds | States | Shows |
|---|---|---|---|
| `db_safety` | 2 goroutines, 1 Tx, 1 Rows, 1 row, 2 error codes, `CloseDiscipline` | 2.4 M | the safety invariants of `Database`, and that it implements `SerialDatabase` |
| `db_live` | no rows, one error code, `RowsDiscipline`, fair | 0.2 M | every waiting call returns; no statement dangles though Close may come under an open Tx |
| `db_txlock` | | violated | finding: an open `*Tx` does not hold the mutex |
| `dev_listeners` | 2 goroutines, 2 protocols, 1 session, 1 Rows, no Tx, fair | 0.3 M | listeners and sessions end with Stop and Close; every call returns; still a `Database` |
| `driver_safety` | 2 statements, 2 Txs, 1 Rows, 3 C statements, 1 row | 65 k | own context, owned handles, own transaction, with statements and rows used in any order; the driver implements `SerialConnection` |
| `driver_rows` | 2 statements, 1 Tx, 2 Rows, 2 C statements, 2 rows | 1.2 M | result sets of statements left alone are complete and their own |
| `driver_stalehandle` | 1 statement, 2 Txs | violated | finding: `inTxn` does not say which transaction |
| `driver_sharedrows` | 1 statement, 2 Rows | violated | finding: two uses of one statement share a cursor, and a lost handle reads as io.EOF |
| `installer_races` | 3 processes, 2 versions, 2 pieces, faults, overlap, -no-verify | 6.1 M | only verified artifacts, no temporary file left but one that could not be removed, a lone successful install repairs whatever two others left, VERSION true in trusted states |
| `installer_torn` | 2 processes, faults, overlap | violated | finding: VERSION survives the library it names |
| `boundary` | int64 -8..7, int32 -4..3, 2 parameters, up to 3 arguments | 100 k | values and catalog text come back as they were given, but for the exceptions above |
| `isolation` | 3 clients, 2 flags, 1 counter, 4 levels of both APIs, fair | 0.8 M | told is true, no write skew, retries end |

Why the bounds are enough to meet the interesting cases. In `Database` every
hazard is a race between a call and one other, over one Tx or one Rows; the
theorems hold for any number. Two error codes tell a kind of its own from the
catch-all and one failure from another. In `DevListeners` the race is between a
Start, a Stop and a Close, two of which wait or drain at a time; one session is
enough to be left over, two protocols to be started one after the other. In
`Driver` a third C statement makes a leak visible beside two live statements; two
rows tell the pending row, the next one and the end apart. In `Installer` two
pieces make a torn and a mixed file, and a third process finds what two left. In
`Boundary` both ends of every width are among the arguments, so are lengths before
and after a C `int` wraps, the first and the second time; two parameters let the
binding stop after none, one and both; three arguments are one too many. In
`TxnIsolation` two flags are enough for write skew and three clients for a cycle
that takes more than a pair; the clients ask for serializable through either API,
for a level mapped to snapshot and for one refused.

Deadlock is checked in every run but `db_safety`, where a goroutine that calls into
the Database while it iterates its own Rows blocks itself, as `sync.Mutex` would,
and the installer runs, where every process ends. In `isolation` a step that changes nothing is
allowed once every client is done.

### Fairness

`FairSpec` assumes: a goroutine inside a call takes its next step (the scheduler
runs it and the C library comes back), weakly fair; a goroutine waiting for the
mutex gets it if it is free again and again, strongly fair, since `sync.Mutex` in
starvation mode hands itself to the longest waiter; and the caller of a `Rows` goes on
calling `Next` or `Close` on it, as the documentation asks. Nothing is assumed
about new calls. `db_live` is run without rows because the liveness graph of one
row takes minutes; a `Rows` without rows still has to be iterated or closed.

`DevFairSpec` assumes the same and that the C library ends the sessions it is
draining, not that clients leave by themselves: `CallsReturn` holds although Stop
and Close wait for sessions with the mutex held. `FairSpec` of `TxnIsolation` only
says that a client whose call can return goes on, weakly fair. The retries end with
no more than that: a conflict comes from another transaction that has committed,
which each client does at most once with success, or that is running and will end.

## What is proved

`DatabaseProofs` proves, from the assumptions `Distinct`, `Bounds` and
`NoneIsNoStatement` (sets that do not overlap, a natural bound, negative codes),
for every set of goroutines, transactions and result sets and both values of each
discipline: `TypeCorrect`, `MutualExclusion`, `StatementsLive`,
`StatementsOwned`, `OutcomesOwned`, `IterationComplete`, `EndsOnce` and
`EndedStaysEnded`, each naming a property of the runs.

None of these invariants is inductive alone. `IInv` adds what ties them together:

- `Ownership`: a goroutine inside a call holds the mutex; the mutex is held by a
  Rows exactly while that Rows is open; this is mutual exclusion in inductive form;
- `CallShape`, `EndPending`: what kind of call can stand at each `pc`, and that a
  call at `commit` or `rollback` has set `done` for a transaction that is still active;
- `StatementShape`: where each live statement is, and that its context is alive;
- `TxShape`: `done` is false for an active transaction unless its end is under way;
- `CloseShape`: under `CloseDiscipline` an active transaction means an open handle;
- `Registers`: between a C call and the read of its register, the register still
  holds what that call left;
- `Iteration`: what a Rows may have lost, and when `lastErr` is set.

The preservation proof has one lemma per action, over frame lemmas that say which
goroutine can be where when the mutex is held.

`DatabaseRefinement` proves `Serialised`: under `CloseDiscipline`, `Spec =>
SerialSpec`. The mapping gives a call its effect at its C step (or early return):
a call that has passed it but not yet read the register it reports counts as told
what the register holds (`Outcome`). `Registers` is what makes the later read a stutter.

`DevListenersProofs` first proves `StillADatabase`: every step of `DevListeners` is
a step of `Database` or leaves it alone. With that the theorems of `DatabaseProofs`
hold of a Database with listeners; `DevMutualExclusion` draws one of them. Its own
invariant adds that a call with a job stands where such a call can stand, so that
the handle is open while a listener is started and the goroutine that drains holds
the mutex: this excludes a Start between the drain and the answer
(`ListenersDieWithHandle`, `StopMeansStopped`, `DevTypeCorrect`).

`DriverProofs` proves all six invariants of the driver runs (`TypeCorrect`,
`RunsInOwnContext`, `HandlesHaveHolders`, `TxEndsItsOwn`, `DeliversOwnRows`,
`EofAfterLast`) from `Bounds` and `NilIsNothing`. `IInv` adds:

- `TxShape`: the connection's transaction belongs to the `driver.Tx` that is open;
- `StmtShape`: `inTxn` is true exactly of C statements prepared in a transaction,
  which is why comparing it is enough for `InOwnContext` though not for
  `MatchesContext`: a statement of an ended transaction cannot run;
- `RowShape`: a Rows that is alone with its statement stands where the C cursor
  stands (`FollowsQuery`), and no other open Rows has that statement.

Its last theorem, `Transparent`, is `Spec => ConnectionSpec`: every step of `Driver`
is a step of `SerialConnection` or leaves it alone. The step that matters is that a
statement which can run is in the connection's own transaction, though the code
compares a flag and not the transaction (`Ensured`), and that a Rows nobody has
disturbed is one row ahead of what it has handed out, with the C cursor there too
(`FollowsQuery`). Nothing is assumed of how a program uses its statements.

`InstallerProofs` proves the five properties of `installer_races` for any number of
processes, versions and pieces (`TypeCorrect`, `NoTempLeftEver`, `OnlyVerified`,
`VersionTellsTruth`, `InstallDoesRepair`). Its `IInv` says what a command knows of
its own work whoever else is about (`ProcOk`), what it knows besides if it is alone
(`AloneOk`: the pieces it has copied are still there), that at most one writer is
alone (`Exclusive`), that while the prefix is trusted a writer is alone
(`TrustedAlone`), and that VERSION is true when no such writer is in the middle of
its work (`Settled`).

`TxnIsolationProofs` proves, from `Rows` (finitely many clients and flags, the counter
no flag), `TypeCorrect`, `ToldWhatHappened`, `ConflictsRetried` and `NoWriteSkew`,
whatever level each client asks for and whoever clears or counts. `ToldIsTrue` compares the counter with
what clients know, so it is not inductive. `IInv` adds:

- `Totals`: the counter is the number of increments that have been applied;
- `SeesCounter`: what a running transaction saw in the counter is still there, or a
  transaction applied since it began has written it, which makes its commit fail;
- `ClientOk`: a transaction is applied at most once and only by its last attempt, a
  connection holds no transaction between attempts, and a client is told "ok" only
  of a transaction that has been applied.

`NoWriteSkew` states `NoSkewWhenAsked`: when all clients that took effect asked for
serializable or more, the rows are what these clients leave one after the other, in
some order. The specification never speaks of such an order; the invariant
`HistoryInv` (`Explained`) carries it from commit to commit:

- `Attempt`, `Effect`: what a running or applied transaction reads and writes is what
  its client does on the snapshot of the moment it began, and a snapshot (`Saw`) is
  in every row the latest write until then;
- `Apart`: of two applied transactions that wrote a row one had been applied when the
  other began, which is `WriteConflict` seen from the end;
- a rank for every serializable transaction that agrees with `Precedes`. A commit
  that closes no cycle (`NoCycle`) leaves a set of transactions that have to follow
  it; their ranks are moved up and the new one goes between.

At the end the applied clients are listed by rank (`Enumeration`) and run in that
order: each sees in the rows it reads what it saw in its snapshot (`SerialStep`), so
it writes what it wrote, and the last writes are the store (`InOrder`). The engine's
promise is local (no cycle of dependencies through the committing transaction), what
is proved is global; `BeginTx` comes in through `Effect`, which says that an applied
transaction ran at the level its client asked for, as `Level` maps it.

`BoundaryProofs` proves the five invariants of the run `boundary`, from `Widths` (the
order of the widths; ticks and the step of a float32 are positive, a day is positive
and shorter than the range of an int64) and `Inputs` (arguments, cells and tables
are values of their types, a table has a name): `TypeCorrect`,
`StatementsOwnTheirParams`, `ReadsFaithful`, `ValuesRoundTrip`, `CatalogReported`.
They hold for all numbers of parameters, texts of any length, any widths and any
tables, where the run has a handful of each.

- `StatementInv` is `Typed`, `OwnParams` and `Delivered`: an answer that is still
  open has been read from the row as it is, column by column into the destinations
  asked for, and has stopped, if it has, at a column that could not be read. `RoundTrip` compares two ends of a path, so it needs the middle:
  `OwnParams` ties the row to the arguments, `Delivered` the answer to the row, and a
  lemma for each type of value says what binding and reading it do (`bindOne`, the
  wrap of the C `int` below 2^32, `columnToAny`).
- `AnswerInv` says that an answer of the catalog is the text of the catalog, parsed,
  and that a name picks one table. That parsing gives back what was rendered is a
  fact about texts of any length: `SplitFn` and `JoinedFn` turn the recursive
  functions into sequences of steps, `SplitPiece` and `TextOfLines` say that splitting
  undoes joining when no piece holds the separator, `TableParsed` and `ListParsed`
  apply that to lines of tab-separated fields and to names in sorted order.

`Induction` is what these proofs rest on. A fact for every number is proved by
collecting the numbers it holds for in a set (`NatSetInduction`); a recursive function
exists and is the only one by `Recursion` and `SameRecursion`; a finite set with a
total order is listed by `Enumeration`.

Only model-checked: liveness (`CallsReturn` of `Database` and of `DevListeners`,
`EveryoneFinishes`), which is out of the prover's reach. Every other property of a
passing run is stated by a theorem.

## Findings

1. `src/README.md:192` says an open `*Tx` holds the mutex; it does not (`db_txlock`).
2. `ensurePrepared` keeps a statement across two transactions in a row
   (`driver_stalehandle`): with one connection, `st := db.Prepare(..)`, then
   `tx1.Stmt(st).Exec`, commit, `tx2.Stmt(st).Exec` steps a statement of `tx1`, which
   the engine refuses. Work never lands in the wrong transaction (`InOwnContext`).
3. Two uses of one statement on one connection share its cursor, and `rows.Next`
   returns io.EOF when the C statement is gone (`driver_sharedrows`).
4. `VERSION` and `libzeta.a` are not replaced together (`installer_torn`).

Smaller disagreements, which have no run of their own. Three are exceptions that a
property of `boundary` names, each against a line of the repository: `*[]float32`,
listed by the comment on `Scan` (`query.go:127`) and refused (`FailsAt`); a TIME of
24:00:00, read as the next day against `query.go:253` (`Lossy`); and BYTEA, of which the
tests say both that it is read as hex text and that it is read as bytes (`SameValue`).
Without any one of them its property fails. The fourth is outside the models:
`driver.go:52` says there is no equivalent of sqlite3_interrupt, and `zeta.h` declares
`zeta_cancel`.

## Not modelled, and the plan

Done: `Database` with its abstract specification and proofs, `DevListeners` on top
of it with proofs, `Driver` with its abstract specification and proofs, `Installer` with proofs, `TxnIsolation`
with proofs, and `Boundary` over `Values` and `SchemaText` with proofs.

Left, most important first:

1. A composition of `Driver` and `TxnIsolation`: a prepared statement and its Rows
   through a retried transaction; `SerialConnection` can stand for the driver in it.
2. The database/sql pool: several connections, `ErrBadConn`, idle connections closed.

Out of scope, with the reason: the engine behind the C API (a prebuilt archive; each
module states the part of `zeta.h` it relies on), the database/sql pool (not in this
repository), the Go compiler and linker flags (`cgo_*.go`, no behaviour), the example
program (calls the API in a line), HTTP itself, and `RowsAffected` of the driver
(`OwnOutcome` of `Database` is about the same register; a connection of the driver
has one caller at a time, so nobody can overwrite it in between).
