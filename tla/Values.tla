------------------------------- MODULE Values -------------------------------
(***************************************************************************)
(* What becomes of a value between Go and the C library: bindOne           *)
(* (param.go), the conversions of the database/sql driver (driver.go),     *)
(* scanColumn and columnToAny (query.go).                                  *)
(*                                                                         *)
(* A Go value and an engine value are a type and a payload, a sequence of  *)
(* integers: the number, the characters, the bytes or the floats, the      *)
(* microseconds or days.  A Go time is <<instant, offset of its zone>>.    *)
(*                                                                         *)
(* The widths are parameters: int64 is -Wide..Wide-1 and int32, which is   *)
(* also the C int of a length, -Narrow..Narrow-1.  The accessors of the C  *)
(* library are external; where zeta.h does not say what one answers, it    *)
(* answers anything.                                                       *)
(***************************************************************************)
EXTENDS Integers, Sequences

CONSTANTS
  Wide,     \* half the range of an int64
  Narrow,   \* half the range of an int32
  Step32,   \* distance of the floats a float32 holds; a float64 holds all
  Day,      \* microseconds of a day
  Ticks     \* units of a Go instant in a microsecond

ASSUME Widths == /\ Narrow \in Nat /\ Narrow > 2 /\ Wide \in Nat /\ 2 * Narrow <= Wide
                 /\ Step32 \in Nat \ {0} /\ Day \in 1..(Wide - 1) /\ Ticks \in Nat \ {0}

Val(type, v) == [type |-> type, v |-> v]
Refused == Val("refused", << >>)
Null == Val("NULL", << >>)

Int64s == -Wide..(Wide - 1)
Signed(n, half) == ((n + half) % (2 * half)) - half

(* What a Go program passes, and what a column holds.  "struct" stands for *)
(* every type the switches have no case for, "LATER" for every type code   *)
(* that a newer library may add.  A sql.NamedArg is a name and a value.    *)
(*                                                                         *)
(* zeta.h:384-387 has a DATE an int32 of days and a TIME microseconds from *)
(* 0 to 24:00:00 inclusive, so that neither the days * 86400 nor the       *)
(* duration in nanoseconds of columnToAny comes near the end of an int64.  *)
Temporal == {"TIMESTAMP", "TIMESTAMPTZ", "DATE", "TIME"}
One(types, range) == [type : types, v : [1..1 -> range]]
GoValues ==
  {Val("nil", << >>)} \cup One({"bool"}, 0..1) \cup One({"int", "int64"}, Int64s)
  \cup One({"int32"}, -Narrow..(Narrow - 1)) \cup One({"uint32"}, 0..(2 * Narrow - 1))
  \cup One({"uint", "uint64"}, 0..(2 * Wide - 1)) \cup One({"float32", "float64"}, Int)
  \cup [type : {"string", "[]byte"}, v : Seq(Nat)]
  \cup [type : {"[]float32", "struct", "sql.NamedArg"}, v : Seq(Int)]
  \cup [type : {"time.Time"}, v : Int \X Int]
Columns ==
  {Null} \cup One({"INT", "TIMESTAMP", "TIMESTAMPTZ"}, Int64s)
  \cup One({"DATE"}, -Narrow..(Narrow - 1)) \cup One({"TIME"}, 0..Day) \cup One({"BOOL"}, 0..1)
  \cup One({"FLOAT"}, Int) \cup [type : {"TEXT", "BLOB"}, v : Seq(Nat)]
  \cup [type : {"DECIMAL", "UUID", "JSON", "VECTOR", "LATER"}, v : Seq(Int)]

(* Text: NUL ends a C string.  What is not text is rendered by the engine; *)
(* a rendering is a mark of its type and a character for every integer of  *)
(* its payload, so no two values of a type share one and none holds a NUL. *)
NUL == 0
CString(s) == LET ends == {i \in DOMAIN s : s[i] = NUL}
              IN IF ends = {} THEN s
                 ELSE SubSeq(s, 1, (CHOOSE i \in ends : \A j \in ends : i <= j) - 1)

Mark == [FLOAT |-> 1000, BLOB |-> 1100, BOOL |-> 1200, DECIMAL |-> 1300, UUID |-> 1400,
         JSON |-> 1500, VECTOR |-> 1600, INT |-> 1700, TIMESTAMP |-> 1800,
         TIMESTAMPTZ |-> 1800, DATE |-> 1900, TIME |-> 2000, LATER |-> 2100]
Sign(n) == IF n >= 0 THEN 2 * n + 1 ELSE -2 * n
Rendered(c) == IF c.type = "TEXT" THEN c.v
               ELSE <<Mark[c.type]>> \o [i \in DOMAIN c.v |-> Sign(c.v[i])]
Stamp(us) == Rendered(Val("TIMESTAMP", <<us>>))   \* "2006-01-02 15:04:05.999999"
-----------------------------------------------------------------------------
(* Mutant: an unsigned number is not compared with the largest int64.      *)
BindUnsignedUnchecked(n) == Val("INT", <<Signed(n, Wide)>>)

BindUnsigned(n) == IF n < Wide THEN Val("INT", <<n>>) ELSE Refused

(* bindOne.  A length goes over as a C int.  zeta_bind_text takes a         *)
(* negative one for "up to the NUL" that C.CString added; of bytes and     *)
(* floats zeta.h does not speak of one, and it is taken to be refused.     *)
CInt(s) == Signed(Len(s), Narrow)
BoundText(s) == IF CInt(s) < 0 THEN CString(s) ELSE SubSeq(s, 1, CInt(s))
BoundBytes(type, s) == IF CInt(s) < 0 THEN Refused ELSE Val(type, SubSeq(s, 1, CInt(s)))

BindOne(p) ==
  CASE p.type = "nil" -> Null
    [] p.type = "bool" -> Val("BOOL", p.v)
    [] p.type \in {"int", "int64"} -> Val("INT", <<Signed(p.v[1], Wide)>>)
    [] p.type = "int32" -> Val("INT", <<Signed(p.v[1], Narrow)>>)
    [] p.type = "uint32" -> Val("INT", p.v)
    [] p.type \in {"uint", "uint64"} -> BindUnsigned(p.v[1])
    [] p.type \in {"float32", "float64"} -> Val("FLOAT", p.v)
    [] p.type = "string" -> Val("TEXT", BoundText(p.v))
    [] p.type = "[]byte" -> BoundBytes("BLOB", p.v)
    [] p.type = "[]float32" -> BoundBytes("VECTOR", p.v)
    [] OTHER -> Refused

(* database/sql: CheckNamedValue lets a []float32 through, the default     *)
(* converter (external) turns the rest into one of its six types.  Named   *)
(* arguments are refused later, whatever their value (Convertible).        *)
CheckNamedValue(p) ==
  CASE p.type \in {"int", "int32", "uint32"} -> Val("int64", p.v)
    [] p.type \in {"uint", "uint64"} /\ p.v[1] < Wide -> Val("int64", p.v)
    [] p.type = "float32" -> Val("float64", p.v)
    [] p.type \in {"nil", "bool", "int64", "float64", "string", "[]byte",
                   "time.Time", "[]float32"} -> p
    [] OTHER -> Refused

(* Mutant: the wall clock of the zone is written, not UTC.                 *)
BindValueLocal(p) ==
  IF p.type = "time.Time" THEN BindOne(Val("string", Stamp(p.v[1] \div Ticks + p.v[2])))
  ELSE BindOne(p)

(* bindValues: a time is written in UTC, cut to the microsecond.           *)
BindValue(p) ==
  IF p.type = "time.Time" THEN BindOne(Val("string", Stamp(p.v[1] \div Ticks)))
  ELSE BindOne(p)

Image(api, p) ==
  IF api = "native" THEN BindOne(p)
  ELSE LET d == CheckNamedValue(p) IN IF d = Refused THEN Refused ELSE BindValue(d)
-----------------------------------------------------------------------------
(* zeta_column_*: the set of answers the header allows.  Bound: where it   *)
(* allows any, zero and the two ends of the range stand for all.           *)
Anything == {-Wide, 0, Wide - 1}
AsInt64(c) == CASE c.type \in {"INT", "BOOL"} \cup Temporal -> {c.v[1]}
                [] c.type \in {"NULL", "DECIMAL"} -> {0}
                [] OTHER -> Anything
AsDouble(c) == CASE c.type \in {"FLOAT"} \cup Temporal -> {c.v[1]}
                 [] c.type \in {"NULL", "DECIMAL"} -> {0}
                 [] OTHER -> Anything
AsText(c) == CString(Rendered(c))
AsBlob(c) == IF c.type \in {"TEXT", "BLOB"} THEN {c.v} ELSE {Rendered(c), << >>}

(* Float32: the nearest float32.                                           *)
Float32(x) == ((2 * x + Step32) \div (2 * Step32)) * Step32
Clock(us) == Val("time.Time", <<Ticks * us, 0>>)
YearZero == -100 * Day     \* 0000-01-01

(* Mutant: a code the reader does not know is read as nil.                 *)
ReadUnknownAsNil(c) == Val("nil", << >>)

(* Every code is readable as text.                                         *)
ReadUnknown(c) == Val("string", AsText(c))

(* columnToAny.  The pointer to an empty blob may be NULL.                 *)
ColumnToAny(c) ==
  CASE c.type = "NULL" -> {Val("nil", << >>)}
    [] c.type = "INT" -> {Val("int64", <<n>>) : n \in AsInt64(c)}
    [] c.type = "FLOAT" -> {Val("float64", <<x>>) : x \in AsDouble(c)}
    [] c.type = "TEXT" -> {Val("string", AsText(c))}
    [] c.type = "BLOB" -> {Val("[]byte", b) : b \in AsBlob(c)}
                          \cup (IF c.v = << >> THEN {Val("nil", << >>)} ELSE {})
    [] c.type = "BOOL" -> {Val("bool", <<IF n # 0 THEN 1 ELSE 0>>) : n \in AsInt64(c)}
    [] c.type \in {"TIMESTAMP", "TIMESTAMPTZ"} -> {Clock(us) : us \in AsInt64(c)}
    [] c.type = "DATE" -> {Clock(d * Day) : d \in AsInt64(c)}
    [] c.type = "TIME" -> {Clock(YearZero + us) : us \in AsInt64(c)}
    [] OTHER -> {ReadUnknown(c)}

(* scanColumn: what a destination of type d receives.  NULL is the zero    *)
(* value of every supported type (a time.Time{} is no instant of a column).*)
Dests == {"bool", "int", "int32", "int64", "float32", "float64",
          "string", "time.Time", "[]byte", "any"}
Zero(d) == CASE d \in {"string", "[]byte", "time.Time"} -> Val(d, << >>)
             [] d = "any" -> Val("nil", << >>)
             [] OTHER -> Val(d, <<0>>)

ScanColumn(c, d) ==
  CASE d \notin Dests -> {Refused}
    [] d \in Dests /\ c = Null -> {Zero(d)}
    [] d = "bool" /\ c # Null -> {Val(d, <<IF n # 0 THEN 1 ELSE 0>>) : n \in AsInt64(c)}
    [] d \in {"int", "int64"} /\ c # Null -> {Val(d, <<n>>) : n \in AsInt64(c)}
    [] d = "int32" /\ c # Null -> {Val(d, <<Signed(n, Narrow)>>) : n \in AsInt64(c)}
    [] d = "float64" /\ c # Null -> {Val(d, <<x>>) : x \in AsDouble(c)}
    [] d = "float32" /\ c # Null -> {Val(d, <<Float32(x)>>) : x \in AsDouble(c)}
    [] d = "string" /\ c # Null -> {Val(d, AsText(c))}
    [] d = "[]byte" /\ c # Null -> {Val(d, b) : b \in AsBlob(c)}
    [] d = "any" /\ c # Null -> ColumnToAny(c)
    [] d = "time.Time" /\ c # Null ->
         {IF v.type = "time.Time" THEN v ELSE Refused : v \in ColumnToAny(c)}
=============================================================================
