------------------------------ MODULE Boundary ------------------------------
(***************************************************************************)
(* Statements that carry values across the cgo boundary and back: a table  *)
(* of one row that an UPDATE with Params parameters overwrites, the rows   *)
(* Scan and the driver's Next read, and the catalog.                       *)
(*                                                                         *)
(* A program uses the native API, which prepares a statement for every     *)
(* call, or the driver, which keeps one and resets and binds it anew each  *)
(* time (stmt.resetAndBind).                                               *)
(*                                                                         *)
(* External: the engine stores what is bound, turning timestamp text into  *)
(* a timestamp where the column is one; it may refuse any bind or step.    *)
(* Of bytes in a BYTEA column the repository says two things, that they    *)
(* are read as TEXT, their hex digits (zeta_test.go:222-225, src/README.md *)
(* :158), and that they are read as bytes (driver_test.go:171-182): the    *)
(* engine may do either.                                                   *)
(***************************************************************************)
EXTENDS SchemaText

CONSTANTS
  Params,     \* parameters of the UPDATE, columns of the row
  ArgLists,   \* the argument lists of the calls
  Cells,      \* rows that other means (SQL literals) may store
  DestLists,  \* the destinations callers pass to Scan
  Tables,     \* the tables that may be created
  Lookups     \* the names TableInfo is called with

(* The engine takes no empty name.                                         *)
TableSpecs == [name : Seq(Nat) \ {<< >>},
               columns : Seq([name : Seq(Nat), sqlType : Seq(Nat), nullable : BOOLEAN, pk : BOOLEAN])]

ASSUME Inputs == /\ Params \in Nat /\ ArgLists \subseteq Seq(GoValues)
                 /\ Cells \subseteq [1..Params -> Columns]
                 /\ Tables \subseteq TableSpecs

VARIABLES
  api,     \* what the program uses: the API, or the catalog
  slots,   \* the parameters bound in the driver's statement
  row,     \* the row of the table
  given,   \* history: the arguments the row comes from, or Literal
  read,    \* the open Rows: the answer of the Scan or Next made on it
  tables,  \* the tables of the catalog
  answer   \* the answer of the latest catalog call

vars == <<api, slots, row, given, read, tables, answer>>
-----------------------------------------------------------------------------
Unbound == Val("unbound", << >>)
Fresh == [i \in 1..Params |-> Unbound]
NothingRead == [ok |-> FALSE, dests |-> << >>, got |-> << >>]
NoAnswer == [kind |-> "none", name |-> << >>, got |-> << >>]
Literal == <<Val("sql", << >>)>>
Types == {"unbound", "refused", "NULL", "INT", "FLOAT", "TEXT", "BLOB", "BOOL",
          "DECIMAL", "UUID", "JSON", "VECTOR", "LATER"} \cup Temporal

TypeOK ==
  /\ \A i \in 1..Params : slots[i].type \in Types \ {"refused"}
  /\ \A i \in 1..Params : row[i].type \in Types \ {"unbound", "refused"}
  /\ \A i \in 1..Params : row[i].type = "INT" => row[i].v[1] \in Int64s
  /\ api \in {"native", "driver", "catalog"}
  /\ given = Literal \/ given \in ArgLists
  /\ Len(read.got) <= Params
  /\ tables \in SUBSET Tables

Init ==
  /\ api \in {"native", "driver", "catalog"}
  /\ slots = Fresh
  /\ row = [i \in 1..Params |-> Null]
  /\ given = Literal
  /\ read = NothingRead
  /\ tables = {}
  /\ answer = NoAnswer
-----------------------------------------------------------------------------
(* Mutant: the error of bindOne is dropped.                                *)
BindParamsIgnores(s, args) ==
  {[ok |-> TRUE, slots |-> [i \in 1..Params |->
      IF i <= Len(args) THEN Image(api, args[i]) ELSE s[i]]]}

(* bindParams on a statement whose parameters are s: in order, up to the   *)
(* first one that the Go side refuses, that does not exist, or that the C  *)
(* library does not take.                                                  *)
BindParams(s, args) ==
  LET image == [i \in DOMAIN args |-> Image(api, args[i])]
      stop == CHOOSE n \in 1..(Len(args) + 1) :
                /\ n <= Len(args) => image[n] = Refused \/ n > Params
                /\ \A i \in 1..(n - 1) : image[i] # Refused /\ i <= Params
  IN {[ok |-> n > Len(args),
       slots |-> [i \in 1..Params |-> IF i < n THEN image[i] ELSE s[i]]] : n \in 1..stop}

(* The driver converts all arguments before it touches the statement: one  *)
(* that is named (namedToValues), or that no driver.Value stands for, ends *)
(* the call.                                                               *)
Convertible(args) ==
  \A i \in DOMAIN args : args[i].type # "sql.NamedArg" /\ CheckNamedValue(args[i]) # Refused

(* The engine runs the UPDATE on what is bound; a parameter that is not    *)
(* counts as NULL, or is an error.                                         *)
Stored(v) ==
  IF v = Unbound THEN {Null}
  ELSE {v} \cup (IF v.type = "BLOB" THEN {Val("TEXT", Rendered(v))} ELSE {})
       \cup {Val(ts, <<us>>) : ts \in {"TIMESTAMP", "TIMESTAMPTZ"},
                                   us \in {u \in Int64s : v = Val("TEXT", Stamp(u))}}
Update(s, args) ==
  \/ /\ row' \in {r \in [1..Params -> UNION {Stored(s[i]) : i \in 1..Params}] :
                    \A i \in 1..Params : r[i] \in Stored(s[i])}
     /\ given' = args
  \/ UNCHANGED <<row, given>>

Run(s, args) ==
  /\ read = NothingRead
  /\ IF s.ok THEN Update(s.slots, args) ELSE UNCHANGED <<row, given>>
  /\ UNCHANGED <<api, read, tables, answer>>

NativeExec(args) ==
  /\ api = "native"
  /\ \E s \in BindParams(Fresh, args) : Run(s, args) /\ UNCHANGED slots

(* Mutant: the statement is bound again without a reset.                   *)
DriverExecNoReset(args) ==
  /\ api = "driver" /\ Convertible(args)
  /\ \E s \in BindParams(slots, args) : Run(s, args) /\ slots' = s.slots

DriverExec(args) ==
  /\ api = "driver" /\ Convertible(args)
  /\ \E s \in BindParams(Fresh, args) : Run(s, args) /\ slots' = s.slots

(* Another statement, with literals, writes the row.                       *)
SqlWrites(cells) ==
  /\ api # "catalog" /\ read = NothingRead
  /\ row' = cells /\ given' = Literal
  /\ UNCHANGED <<api, slots, read, tables, answer>>
-----------------------------------------------------------------------------
(* Rows.Scan: the count is compared first, then column by column until one *)
(* fails; got is what has been written to the destinations.  Bound: one    *)
(* Scan of an open Rows; the next call waits until it is closed.           *)
Scan(dests) ==
  /\ api = "native" /\ read = NothingRead
  /\ IF Len(dests) # Params
     THEN read' = [ok |-> FALSE, dests |-> dests, got |-> << >>]
     ELSE \E n \in 0..Params :
            \E got \in [1..n -> (UNION {ScanColumn(row[i], dests[i]) : i \in 1..n}) \ {Refused}] :
              /\ \A i \in 1..n : got[i] \in ScanColumn(row[i], dests[i])
              /\ n < Params => Refused \in ScanColumn(row[n + 1], dests[n + 1])
              /\ read' = [ok |-> n = Params, dests |-> dests, got |-> got]
  /\ UNCHANGED <<api, slots, row, given, tables, answer>>

(* rows.Next of the driver: columnToValue for every column.                *)
DriverNext ==
  /\ api = "driver" /\ read = NothingRead
  /\ \E got \in [1..Params -> UNION {ColumnToAny(row[i]) : i \in 1..Params}] :
       /\ \A i \in 1..Params : got[i] \in ColumnToAny(row[i])
       /\ read' = [ok |-> TRUE, dests |-> [i \in 1..Params |-> "any"], got |-> got]
  /\ UNCHANGED <<api, slots, row, given, tables, answer>>

RowsClose ==
  /\ read # NothingRead /\ read' = NothingRead
  /\ UNCHANGED <<api, slots, row, given, tables, answer>>
-----------------------------------------------------------------------------
(* The catalog.  Nothing relates it to the row: bound, a program that uses *)
(* one leaves the other alone.                                             *)
names == {t.name : t \in tables}
Replies(kind, name, got) == answer' = [kind |-> kind, name |-> name, got |-> got]

CreateTable(t) ==
  /\ api = "catalog" /\ t.name \notin names
  /\ tables' = tables \cup {t} /\ answer' = NoAnswer
  /\ UNCHANGED <<api, slots, row, given, read>>

DropTable(t) ==
  /\ api = "catalog" /\ t \in tables
  /\ tables' = tables \ {t} /\ answer' = NoAnswer
  /\ UNCHANGED <<api, slots, row, given, read>>

ListTables ==
  /\ api = "catalog"
  /\ Replies("list", << >>, ParseList(CString(ListText(names))))
  /\ UNCHANGED <<api, slots, row, given, read, tables>>

(* zeta_table_info gets a C string and answers "" for no such table.       *)
TableInfo(name) ==
  /\ api = "catalog"
  /\ \/ /\ CString(name) \notin names
        /\ Replies("info", name, << >>)
     \/ \E t \in tables :
          /\ t.name = CString(name)
          /\ Replies("info", name, <<ParseTableInfo(CString(TableText(t)))>>)
  /\ UNCHANGED <<api, slots, row, given, read, tables>>

Next ==
  \/ \E args \in ArgLists : NativeExec(args) \/ DriverExec(args)
  \/ \E cells \in Cells : SqlWrites(cells)
  \/ \E dests \in DestLists : Scan(dests)
  \/ DriverNext \/ RowsClose
  \/ \E t \in Tables : CreateTable(t) \/ DropTable(t)
  \/ ListTables
  \/ \E name \in Lookups : TableInfo(name)

Spec == Init /\ [][Next]_vars
-----------------------------------------------------------------------------
(* A row holds the arguments of one call, each in its place, and nothing   *)
(* of an earlier call: not a value left in the driver's reused statement,  *)
(* not one of a call whose binding stopped half way.                       *)
OwnParams ==
  given # Literal =>
    /\ Len(given) <= Params
    /\ \A i \in 1..Params :
         row[i] \in Stored(IF i \in DOMAIN given THEN Image(api, given[i]) ELSE Unbound)

(* What a Go program stores it gets back, through either API and into an   *)
(* any: the same number, whatever its Go type (an unsigned number too      *)
(* large for int64 is never stored as another), the same float, bool,      *)
(* bytes and characters, the same instant to the microsecond whatever the  *)
(* zone it was given in.  The exceptions: text ends at its first NUL when  *)
(* read, text that is a timestamp may come back as the time it says, empty *)
(* bytes as nil, and bytes as the text of their hex digits: TestBytea says *)
(* they do (zeta_test.go:222-225), TestDriverParamTypes that they do not   *)
(* (driver_test.go:171-182).  A length that wraps in the C int, from 2^31  *)
(* on, does no harm below 2^32.                                            *)
NoNUL(s) == NUL \notin {s[i] : i \in DOMAIN s}
SameValue(p, g) ==
  CASE p.type = "nil" -> g = Val("nil", << >>)
    [] p.type \in {"int", "int32", "int64", "uint", "uint32", "uint64"} -> g = Val("int64", p.v)
    [] p.type \in {"float32", "float64"} -> g = Val("float64", p.v)
    [] p.type = "bool" -> g = p
    [] p.type = "string" -> NoNUL(p.v) =>
         g = p \/ \E us \in Int64s : p.v = Stamp(us) /\ g = Clock(us)
    [] p.type = "[]byte" -> \/ g = p \/ (p.v = << >> /\ g.type = "nil")
                            \/ g = Val("string", Rendered(Val("BLOB", p.v)))
    [] p.type = "[]float32" -> g = Val("string", Rendered(Val("VECTOR", p.v)))
    [] p.type = "time.Time" -> \/ g = Val("time.Time", <<p.v[1] - (p.v[1] % Ticks), 0>>)
                               \/ g = Val("string", Stamp(p.v[1] \div Ticks))
    [] OTHER -> FALSE
RoundTrip ==
  read.ok /\ given # Literal =>
    \A i \in DOMAIN given :
      read.dests[i] = "any" /\ Len(given[i].v) < 2 * Narrow => SameValue(given[i], read.got[i])

(* g says what the column c holds; a TIME is "the time of day on           *)
(* 0000-01-01" (query.go:253).                                             *)
Faithful(c, g) ==
  CASE c = Null -> g \in {Zero(g.type), Zero("any")}
    [] g.type \in {"int", "int32", "int64"} /\ c # Null -> g.v = c.v
    [] g.type = "bool" /\ c # Null -> g.v = c.v
    [] g.type \in {"float32", "float64"} /\ c # Null -> g.v = c.v
    [] g.type = "string" /\ c # Null -> g.v = Rendered(c)
    [] g.type = "[]byte" /\ c # Null -> g.v = IF c.type \in {"TEXT", "BLOB"} THEN c.v ELSE Rendered(c)
    [] g.type = "time.Time" /\ c # Null ->
         \/ c.type \in {"TIMESTAMP", "TIMESTAMPTZ"} /\ g.v = <<Ticks * c.v[1], 0>>
         \/ c.type = "DATE" /\ g.v = <<Ticks * Day * c.v[1], 0>>
         \/ c.type = "TIME" /\ c.v[1] < Day /\ g.v = <<Ticks * (YearZero + c.v[1]), 0>>
    [] OTHER -> FALSE

(* The pairs of a column and a destination whose result need not be the    *)
(* column's value: a number read from what is not one (a DECIMAL reads as  *)
(* 0), a bool from a number, a number outside int32 or between two         *)
(* float32s, text with a NUL, bytes of an empty blob or of a rendering,    *)
(* and, against query.go:253, a TIME of 24:00:00, which zeta.h:386 allows: *)
(* it is read as midnight of 0000-01-02.                                   *)
Lossy(c, d) ==
  \/ d \in {"any", "time.Time"} /\ c = Val("TIME", <<Day>>)
  \/ d \in {"int", "int32", "int64"} /\ c.type \notin {"INT", "BOOL"} \cup Temporal
  \/ d \in {"float32", "float64"} /\ c.type # "FLOAT"
  \/ d = "bool" /\ c.type # "BOOL"
  \/ d = "int32" /\ Signed(c.v[1], Narrow) # c.v[1]
  \/ d = "float32" /\ c.v[1] % Step32 # 0
  \/ d = "string" /\ NUL \in {c.v[i] : i \in DOMAIN c.v} /\ c.type = "TEXT"
  \/ d = "any" /\ c.type = "TEXT" /\ NUL \in {c.v[i] : i \in DOMAIN c.v}
  \/ d = "any" /\ c = Val("BLOB", << >>)
  \/ d = "[]byte" /\ c.type \notin {"TEXT", "BLOB"}

(* A Scan reads the columns in order, each into its own destination, as    *)
(* what it is and NULL as the zero value, except for the lossy pairs; into *)
(* an any no value of a type the reader does not know becomes nil.  That   *)
(* holds as well for the destinations a Scan that fails half way has       *)
(* already overwritten.  It fails only at a destination that Scan's doc    *)
(* (query.go:122-131) does not name, at a *time.Time for a column that is  *)
(* no date or time, or, against that doc, at the *[]float32 of its list,   *)
(* for which scanColumn has no case.                                       *)
Documented == Dests \cup {"[]float32"}
FailsAt(c, d) ==
  \/ d \notin Documented
  \/ d = "time.Time" /\ c.type \notin Temporal \cup {"NULL"}
  \/ d = "[]float32"
ReadsAsStored ==
  /\ read.ok => Len(read.got) = Params
  /\ \A i \in DOMAIN read.got :
       /\ read.dests[i] \in Documented /\ read.got[i] # Refused
       /\ Lossy(row[i], read.dests[i]) \/ Faithful(row[i], read.got[i])
  /\ read # NothingRead /\ ~read.ok /\ Len(read.dests) = Params =>
       LET i == Len(read.got) + 1 IN i \in 1..Params /\ FailsAt(row[i], read.dests[i])

(* The catalog is reported as it is: the names of the tables, each once,   *)
(* in order, none made up and none missing; for a table its columns, in    *)
(* order, with their types and flags; and nil exactly for a table that     *)
(* does not exist.  Names and types with a newline, a tab or a NUL are     *)
(* excepted: the text formats of zeta.h have no way to quote them.         *)
Quotable(s) == {s[i] : i \in DOMAIN s} \cap {NL, TAB, NUL} = {}
CatalogFaithful ==
  /\ answer.kind = "list" /\ (\A nm \in names : Quotable(nm)) =>
       /\ {answer.got[i] : i \in DOMAIN answer.got} = names
       /\ \A i, j \in DOMAIN answer.got : i < j => Before(answer.got[i], answer.got[j])
  /\ answer.kind = "info" /\ Quotable(answer.name) =>
       /\ answer.got = << >> <=> answer.name \notin names
       /\ \A t \in tables : t.name = answer.name /\ (\A i \in DOMAIN t.columns :
              Quotable(t.columns[i].name) /\ Quotable(t.columns[i].sqlType))
            => answer.got = <<t>>
=============================================================================
