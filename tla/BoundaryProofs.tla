--------------------------- MODULE BoundaryProofs ---------------------------
(***************************************************************************)
(* Proofs about Boundary, for every width of the integers, every number of *)
(* parameters, every argument list, row and destination a Go program may   *)
(* pass, and every catalog: statements carry their own arguments, values   *)
(* come back as they were given, and the catalog text is taken apart into  *)
(* what it was made from.                                                  *)
(***************************************************************************)
EXTENDS Boundary, Induction, SequenceTheorems
-----------------------------------------------------------------------------
(* Integers of the two widths.                                             *)
LEMMA WidthTypes ==
  /\ Narrow \in Nat /\ Narrow > 2 /\ Wide \in Nat /\ 2 * Narrow <= Wide
  /\ Step32 \in Nat /\ Step32 > 0 /\ Day \in 1..(Wide - 1) /\ Day \in Nat /\ Day > 0 /\ Ticks \in Nat /\ Ticks > 0
BY Widths

LEMMA SignedValue ==
  ASSUME NEW half \in Nat \ {0}, NEW n \in Int
  PROVE  /\ Signed(n, half) \in (-half)..(half - 1)
         /\ n \in (-half)..(half - 1) => Signed(n, half) = n
         /\ n \in half..(2 * half - 1) => Signed(n, half) = n - 2 * half
         /\ n >= 0 => Signed(n, half) <= n
<1> DEFINE d == 2 * half
<1>1. d \in Nat \ {0}
  OBVIOUS
<1> HIDE DEF d
<1>2. ASSUME NEW m \in Int
      PROVE  m % d \in 0..(d - 1)
  BY <1>1
<1>3. ASSUME NEW m \in 0..(d - 1)
      PROVE  m % d = m
  BY <1>1
<1>4. ASSUME NEW m \in d..(2 * d - 1)
      PROVE  m % d = m - d
  BY <1>1
<1>5. Signed(n, half) = ((n + half) % d) - half
  BY DEF Signed, d
<1>6. (n + half) % d \in 0..(d - 1)
  BY <1>2
<1>7. ASSUME n \in (-half)..(half - 1)
      PROVE  (n + half) % d = n + half
  <2>1. n + half \in 0..(d - 1)
    BY <1>7 DEF d
  <2> QED BY <1>3, <2>1
<1>8. ASSUME n \in half..(2 * half - 1)
      PROVE  (n + half) % d = n + half - d
  <2>1. n + half \in d..(2 * d - 1)
    BY <1>8 DEF d
  <2> QED BY <1>1, <1>4, <2>1
<1>9. ASSUME NEW m \in Nat
      PROVE  m % d <= m
  BY <1>1
<1> QED BY <1>5, <1>6, <1>7, <1>8, <1>9 DEF d

LEMMA Quotient ==
  ASSUME NEW d \in Nat \ {0}, NEW q \in Int, NEW r \in 0..(d - 1)
  PROVE  (d * q + r) \div d = q /\ (d * q + r) % d = r
OBVIOUS

(* Integer division, where it is used: instants and float32s.              *)
LEMMA Division ==
  ASSUME NEW x \in Int, NEW d \in Nat \ {0}
  PROVE  /\ x \div d \in Int /\ x % d \in 0..(d - 1)
         /\ d * (x \div d) = x - (x % d)
         /\ x % d = 0 => ((2 * x + d) \div (2 * d)) * d = x
<1> DEFINE q == x \div d
<1>1. q \in Int /\ x % d \in 0..(d - 1)
  OBVIOUS
<1>2. x % d = x - d * (x \div d)
  OBVIOUS
<1>3. d * q \in Int
  BY <1>1
<1>4. d * (x \div d) = x - (x % d)
  BY <1>1, <1>2, <1>3
<1> HIDE DEF q
<1>5. ASSUME x = d * q
      PROVE  ((2 * x + d) \div (2 * d)) * d = x
  <2>1. 2 * x + d = (2 * d) * q + d
    BY <1>1, <1>5
  <2>2. ((2 * d) * q + d) \div (2 * d) = q
    <3> DEFINE e == 2 * d
    <3>1. e \in Nat \ {0} /\ d \in 0..(e - 1)
      OBVIOUS
    <3> HIDE DEF e
    <3>2. (e * q + d) \div e = q
      BY <1>1, <3>1, Quotient
    <3> QED BY <3>2 DEF e
  <2> QED BY <1>1, <1>5, <2>1, <2>2
<1> QED BY <1>1, <1>4, <1>5 DEF q
-----------------------------------------------------------------------------
(* Values and texts.                                                       *)
LEMMA Singles ==
  ASSUME NEW types, NEW range, NEW p \in One(types, range)
  PROVE  /\ p.type \in types /\ p.v[1] \in range
         /\ p.v = <<p.v[1]>> /\ p = Val(p.type, p.v)
<1>1. p.v \in [1..1 -> range] /\ p.type \in types /\ p = Val(p.type, p.v)
  BY DEF One, Val
<1>2. \A f \in [1..1 -> range] : f = <<f[1]>> /\ f[1] \in range
  OBVIOUS
<1> QED BY <1>1, <1>2

LEMMA CStringOf ==
  ASSUME NEW s \in Seq(Nat)
  PROVE  /\ CString(s) \in Seq(Nat)
         /\ NoNUL(s) => CString(s) = s
         /\ NoNUL(CString(s))
<1> DEFINE ends == {i \in DOMAIN s : s[i] = NUL}
<1>1. CASE ends = {}
  <2>1. CString(s) = s /\ NoNUL(s)
    BY <1>1 DEF CString, NoNUL
  <2> QED BY <2>1
<1>2. CASE ends # {}
  <2>1. ends \in SUBSET Nat
    OBVIOUS
  <2> DEFINE n == CHOOSE i \in ends : \A j \in ends : i <= j
  <2>2. n \in ends /\ \A j \in ends : n <= j
    BY <1>2, <2>1, Smallest
  <2>3. n \in 1..Len(s)
    BY <2>2
  <2>4. CString(s) = SubSeq(s, 1, n - 1)
    BY <1>2 DEF CString
  <2> HIDE DEF n
  <2>5. /\ SubSeq(s, 1, n - 1) \in Seq(Nat) /\ Len(SubSeq(s, 1, n - 1)) = n - 1
        /\ \A i \in 1..(n - 1) : SubSeq(s, 1, n - 1)[i] = s[i]
    BY <2>3
  <2>6. NoNUL(CString(s))
    <3> DEFINE u == SubSeq(s, 1, n - 1)
    <3>1. \A i \in 1..(n - 1) : i \notin ends /\ i \in DOMAIN s
      BY <2>2, <2>3
    <3>2. \A i \in 1..(n - 1) : u[i] # NUL
      BY <2>5, <3>1
    <3>3. DOMAIN u = 1..(n - 1)
      BY <2>5
    <3> HIDE DEF u
    <3> QED BY <2>4, <3>2, <3>3 DEF NoNUL, u
  <2>7. ~NoNUL(s)
    BY <1>2 DEF NoNUL
  <2> QED BY <2>4, <2>5, <2>6, <2>7
<1> QED BY <1>1, <1>2

(* Days and times of day are int64s.                                       *)
LEMMA Wider ==
  ASSUME NEW c,
         \/ c \in One({"INT", "TIMESTAMP", "TIMESTAMPTZ"}, Int64s)
         \/ c \in One({"DATE"}, -Narrow..(Narrow - 1)) \/ c \in One({"TIME"}, 0..Day)
  PROVE  c \in One({"INT"} \cup Temporal, Int64s)
<1>1. ASSUME NEW S, NEW T, NEW f \in [1..1 -> S], S \subseteq T
      PROVE  f \in [1..1 -> T]
  BY <1>1
<1>2. -Narrow..(Narrow - 1) \subseteq Int64s /\ 0..Day \subseteq Int64s
  BY WidthTypes DEF Int64s
<1> DEFINE days == -Narrow..(Narrow - 1)
           times == 0..Day
<1>3. [1..1 -> days] \subseteq [1..1 -> Int64s] /\ [1..1 -> times] \subseteq [1..1 -> Int64s]
  BY <1>1, <1>2
<1> HIDE DEF days, times, Int64s
<1>4. CASE c \in One({"INT", "TIMESTAMP", "TIMESTAMPTZ"}, Int64s)
  BY <1>4 DEF One, Temporal
<1>5. CASE c \in One({"DATE"}, days)
  BY <1>3, <1>5 DEF One, Temporal
<1>6. CASE c \in One({"TIME"}, times)
  BY <1>3, <1>6 DEF One, Temporal
<1> QED BY <1>4, <1>5, <1>6 DEF days, times

(* What a column holds, by its type.                                       *)
LEMMA ColumnTypes ==
  ASSUME NEW c \in Columns
  PROVE  /\ c = Val(c.type, c.v) /\ c.v \in Seq(Int)
         /\ c.type \in {"NULL", "INT", "BOOL", "FLOAT", "TEXT", "BLOB", "DECIMAL", "UUID",
                        "JSON", "VECTOR", "LATER"} \cup Temporal
         /\ c.type = "NULL" <=> c = Null
         /\ c.type \in {"INT"} \cup Temporal => c.v = <<c.v[1]>> /\ c.v[1] \in Int64s
         /\ c.type = "BOOL" => c.v \in {<<0>>, <<1>>} /\ c.v[1] \in 0..1 /\ c.v = <<c.v[1]>>
         /\ c.type = "FLOAT" => c.v = <<c.v[1]>> /\ c.v[1] \in Int
         /\ c.type = "TIME" => c.v[1] \in 0..Day
         /\ c.type \in {"TEXT", "BLOB"} => c.v \in Seq(Nat)
<1>1. ASSUME NEW n \in Int
      PROVE  <<n>> \in Seq(Int)
  OBVIOUS
<1>2. Int64s \subseteq Int
  BY WidthTypes DEF Int64s
<1>3. CASE c = Null
  BY <1>3 DEF Null, Val, Temporal
<1>4. CASE \/ c \in One({"INT", "TIMESTAMP", "TIMESTAMPTZ"}, Int64s)
            \/ c \in One({"DATE"}, -Narrow..(Narrow - 1)) \/ c \in One({"TIME"}, 0..Day)
  <2>0. c \in One({"INT"} \cup Temporal, Int64s)
    BY <1>4, Wider
  <2>1. /\ c.type \in {"INT"} \cup Temporal /\ c = Val(c.type, c.v)
        /\ c.v = <<c.v[1]>> /\ c.v[1] \in Int64s
    BY <2>0, Singles
  <2>2. c.v \in Seq(Int)
    BY <1>1, <1>2, <2>1
  <2>3. c.type # "NULL" /\ c # Null
    BY <2>1 DEF Temporal, Null, Val
  <2>4. c.type = "TIME" => c.v[1] \in 0..Day
    <3> DEFINE times == 0..Day
    <3> HIDE DEF times
    <3>1. c \in One({"TIME"}, times) => c.v[1] \in times
      BY Singles
    <3>2. c.type = "TIME" => c \in One({"TIME"}, times)
      BY <1>4 DEF One, times
    <3> QED BY <3>1, <3>2 DEF times
  <2> QED BY <2>1, <2>2, <2>3, <2>4 DEF Temporal
<1>5. CASE c \in One({"BOOL"}, 0..1)
  <2>1. /\ c.type \in {"BOOL"} /\ c = Val(c.type, c.v)
        /\ c.v = <<c.v[1]>> /\ c.v[1] \in 0..1
    BY <1>5, Singles
  <2>2. c.v \in Seq(Int)
    BY <1>1, <1>2, <2>1
  <2>3. c.type # "NULL" /\ c # Null
    BY <2>1 DEF Temporal, Null, Val
  <2>4. c.v[1] = 0 \/ c.v[1] = 1
    BY <2>1
  <2>5. c.v \in {<<0>>, <<1>>}
    BY <2>1, <2>4
  <2> QED BY <2>1, <2>2, <2>3, <2>5 DEF Temporal
<1>6. CASE c \in One({"FLOAT"}, Int)
  <2>1. /\ c.type \in {"FLOAT"} /\ c = Val(c.type, c.v)
        /\ c.v = <<c.v[1]>> /\ c.v[1] \in Int
    BY <1>6, Singles
  <2>2. c.v \in Seq(Int)
    BY <1>1, <1>2, <2>1
  <2>3. c.type # "NULL" /\ c # Null
    BY <2>1 DEF Temporal, Null, Val
  <2> QED BY <2>1, <2>2, <2>3 DEF Temporal
<1>7. CASE c \in [type : {"TEXT", "BLOB"}, v : Seq(Nat)]
  <2>1. Seq(Nat) \subseteq Seq(Int)
    BY SeqMonotonic
  <2> QED BY <1>7, <2>1 DEF Temporal, Null, Val
<1>8. CASE c \in [type : {"DECIMAL", "UUID", "JSON", "VECTOR", "LATER"}, v : Seq(Int)]
  BY <1>8 DEF Temporal, Null, Val
<1> QED BY <1>3, <1>4, <1>5, <1>6, <1>7, <1>8 DEF Columns

LEMMA RenderedText ==
  ASSUME NEW type \in DOMAIN Mark, NEW v \in Seq(Int), type # "TEXT"
  PROVE  /\ Rendered(Val(type, v)) \in Seq(Nat)
         /\ NoNUL(Rendered(Val(type, v)))
         /\ Len(Rendered(Val(type, v))) = Len(v) + 1
         /\ \A i \in 1..Len(v) : Rendered(Val(type, v))[i + 1] = Sign(v[i])
<1>1. ASSUME NEW n \in Int
      PROVE  Sign(n) \in Nat \ {0}
  BY DEF Sign
<1>2. Mark[type] \in Nat \ {0}
  BY DEF Mark
<1> DEFINE w == [i \in DOMAIN v |-> Sign(v[i])]
           m == <<Mark[type]>>
<1>3. w \in Seq(Nat \ {0}) /\ Len(w) = Len(v) /\ \A i \in 1..Len(v) : w[i] = Sign(v[i])
  <2>1. DOMAIN v = 1..Len(v) /\ Len(v) \in Nat /\ \A i \in 1..Len(v) : v[i] \in Int
    OBVIOUS
  <2>2. \A i \in 1..Len(v) : w[i] \in Nat \ {0}
    BY <1>1, <2>1
  <2> QED BY <2>1, <2>2, IsASeq
<1>4. m \in Seq(Nat \ {0}) /\ Len(m) = 1
  BY <1>2
<1>5. Rendered(Val(type, v)) = m \o w
  BY DEF Rendered, Val
<1> HIDE DEF m, w
<1>6. /\ m \o w \in Seq(Nat \ {0}) /\ Len(m \o w) = Len(v) + 1
      /\ \A i \in 1..Len(v) : (m \o w)[i + 1] = w[i]
  <2>1. Len(v) \in Nat
    OBVIOUS
  <2>2. /\ m \o w \in Seq(Nat \ {0}) /\ Len(m \o w) = Len(m) + Len(w)
        /\ \A i \in 1..(Len(m) + Len(w)) :
              (m \o w)[i] = IF i <= Len(m) THEN m[i] ELSE w[i - Len(m)]
    BY <1>3, <1>4, ConcatProperties
  <2> QED BY <1>3, <1>4, <2>1, <2>2
<1>7. m \o w \in Seq(Nat) /\ NoNUL(m \o w)
  <2>1. \A i \in DOMAIN (m \o w) : (m \o w)[i] \in Nat \ {0}
    BY <1>6
  <2>2. Seq(Nat \ {0}) \subseteq Seq(Nat)
    BY SeqMonotonic
  <2> QED BY <1>6, <2>1, <2>2 DEF NoNUL, NUL
<1> QED BY <1>3, <1>5, <1>6, <1>7

(* The text of a timestamp tells which one it is.                          *)
LEMMA Stamps ==
  ASSUME NEW us \in Int
  PROVE  /\ Stamp(us) \in Seq(Nat) /\ NoNUL(Stamp(us)) /\ Len(Stamp(us)) = 2
         /\ \A ts \in Int : Stamp(us) = Stamp(ts) => us = ts
<1>1. ASSUME NEW n \in Int
      PROVE  /\ Stamp(n) \in Seq(Nat) /\ NoNUL(Stamp(n)) /\ Len(Stamp(n)) = 2
             /\ Stamp(n)[2] = Sign(n)
  <2>1. <<n>> \in Seq(Int) /\ Len(<<n>>) = 1 /\ <<n>>[1] = n
    OBVIOUS
  <2>2. "TIMESTAMP" \in DOMAIN Mark
    BY DEF Mark
  <2> DEFINE v == <<n>>
             r == Rendered(Val("TIMESTAMP", v))
  <2>3. v \in Seq(Int) /\ Len(v) = 1 /\ v[1] = n
    BY <2>1
  <2> HIDE DEF v
  <2>4. r \in Seq(Nat) /\ NoNUL(r) /\ Len(r) = Len(v) + 1
        /\ \A i \in 1..Len(v) : r[i + 1] = Sign(v[i])
    BY <2>2, <2>3, RenderedText
  <2>5. Stamp(n) = r
    BY DEF Stamp, v
  <2> HIDE DEF r
  <2> QED BY <2>3, <2>4, <2>5
<1>2. ASSUME NEW m \in Int, NEW n \in Int, Sign(m) = Sign(n)
      PROVE  m = n
  BY <1>2 DEF Sign
<1> QED BY <1>1, <1>2

(* What a Go value is, by its type.                                        *)
GoTypeNames == {"nil", "bool", "int", "int64", "int32", "uint32", "uint", "uint64", "float32",
                "float64", "string", "[]byte", "[]float32", "struct",
                "sql.NamedArg", "time.Time"}

LEMMA GoTypes ==
  ASSUME NEW p \in GoValues
  PROVE  /\ p.type \in GoTypeNames /\ p = Val(p.type, p.v)
         /\ p.type = "nil" => p.v = << >>
         /\ p.type = "bool" => p.v = <<p.v[1]>> /\ p.v[1] \in 0..1
         /\ p.type \in {"int", "int64"} => p.v = <<p.v[1]>> /\ p.v[1] \in Int64s
         /\ p.type = "int32" => p.v = <<p.v[1]>> /\ p.v[1] \in (-Narrow)..(Narrow - 1)
         /\ p.type = "uint32" => p.v = <<p.v[1]>> /\ p.v[1] \in 0..(2 * Narrow - 1)
         /\ p.type \in {"uint", "uint64"} => p.v = <<p.v[1]>> /\ p.v[1] \in 0..(2 * Wide - 1)
         /\ p.type \in {"float32", "float64"} => p.v = <<p.v[1]>> /\ p.v[1] \in Int
         /\ p.type \in {"string", "[]byte"} => p.v \in Seq(Nat)
         /\ p.type \in {"[]float32", "struct", "sql.NamedArg"} => p.v \in Seq(Int)
         /\ p.type = "time.Time" => p.v \in Int \X Int
<1>1. CASE p = Val("nil", << >>)
  BY <1>1 DEF Val, GoTypeNames
<1>2. CASE p \in One({"bool"}, 0..1)
  BY <1>2, Singles DEF GoTypeNames
<1>3. CASE p \in One({"int", "int64"}, Int64s)
  BY <1>3, Singles DEF GoTypeNames
<1>4. CASE p \in One({"int32"}, -Narrow..(Narrow - 1))
  <2> DEFINE range == -Narrow..(Narrow - 1)
  <2> HIDE DEF range
  <2>1. p \in One({"int32"}, range)
    BY <1>4 DEF range
  <2>2. p.type \in {"int32"} /\ p.v[1] \in range /\ p.v = <<p.v[1]>> /\ p = Val(p.type, p.v)
    BY <2>1, Singles
  <2> QED BY <2>2 DEF GoTypeNames, range
<1>5. CASE p \in One({"uint32"}, 0..(2 * Narrow - 1))
  <2> DEFINE range == 0..(2 * Narrow - 1)
  <2> HIDE DEF range
  <2>1. p \in One({"uint32"}, range)
    BY <1>5 DEF range
  <2>2. p.type \in {"uint32"} /\ p.v[1] \in range /\ p.v = <<p.v[1]>> /\ p = Val(p.type, p.v)
    BY <2>1, Singles
  <2> QED BY <2>2 DEF GoTypeNames, range
<1>6. CASE p \in One({"uint", "uint64"}, 0..(2 * Wide - 1))
  <2> DEFINE range == 0..(2 * Wide - 1)
  <2> HIDE DEF range
  <2>1. p \in One({"uint", "uint64"}, range)
    BY <1>6 DEF range
  <2>2. p.type \in {"uint", "uint64"} /\ p.v[1] \in range /\ p.v = <<p.v[1]>> /\ p = Val(p.type, p.v)
    BY <2>1, Singles
  <2> QED BY <2>2 DEF GoTypeNames, range
<1>7. CASE p \in One({"float32", "float64"}, Int)
  BY <1>7, Singles DEF GoTypeNames
<1>8. CASE p \in [type : {"string", "[]byte"}, v : Seq(Nat)]
  <2>1. p.type \in {"string", "[]byte"} /\ p.v \in Seq(Nat) /\ p = Val(p.type, p.v)
    BY <1>8 DEF Val
  <2> QED BY <2>1 DEF GoTypeNames
<1>9. CASE p \in [type : {"[]float32", "struct", "sql.NamedArg"}, v : Seq(Int)]
  <2>1. p.type \in {"[]float32", "struct", "sql.NamedArg"} /\ p.v \in Seq(Int) /\ p = Val(p.type, p.v)
    BY <1>9 DEF Val
  <2> QED BY <2>1 DEF GoTypeNames
<1>10. CASE p \in [type : {"time.Time"}, v : Int \X Int]
  <2>1. p.type \in {"time.Time"} /\ p.v \in Int \X Int /\ p = Val(p.type, p.v)
    BY <1>10 DEF Val
  <2> QED BY <2>1 DEF GoTypeNames
<1> QED BY <1>1, <1>2, <1>3, <1>4, <1>5, <1>6, <1>7, <1>8, <1>9, <1>10 DEF GoValues

(* How values are told to be columns.                                      *)
LEMMA IsColumn ==
  /\ Null \in Columns
  /\ \A n \in Int64s : \A t \in {"INT", "TIMESTAMP", "TIMESTAMPTZ"} : Val(t, <<n>>) \in Columns
  /\ \A n \in 0..1 : Val("BOOL", <<n>>) \in Columns
  /\ \A n \in Int : Val("FLOAT", <<n>>) \in Columns
  /\ \A s \in Seq(Nat) : Val("TEXT", s) \in Columns /\ Val("BLOB", s) \in Columns
  /\ \A s \in Seq(Int) : Val("VECTOR", s) \in Columns
<1>1. ASSUME NEW types, NEW range, NEW t \in types, NEW n \in range
      PROVE  Val(t, <<n>>) \in One(types, range)
  <2>1. <<n>> \in [1..1 -> range]
    OBVIOUS
  <2> QED BY <2>1 DEF One, Val
<1>2. /\ \A n \in Int64s : \A t \in {"INT", "TIMESTAMP", "TIMESTAMPTZ"} :
             Val(t, <<n>>) \in One({"INT", "TIMESTAMP", "TIMESTAMPTZ"}, Int64s)
      /\ \A n \in 0..1 : Val("BOOL", <<n>>) \in One({"BOOL"}, 0..1)
      /\ \A n \in Int : Val("FLOAT", <<n>>) \in One({"FLOAT"}, Int)
  BY <1>1
<1>3. /\ \A s \in Seq(Nat) : /\ Val("TEXT", s) \in [type : {"TEXT", "BLOB"}, v : Seq(Nat)]
                             /\ Val("BLOB", s) \in [type : {"TEXT", "BLOB"}, v : Seq(Nat)]
      /\ \A s \in Seq(Int) : Val("VECTOR", s) \in
             [type : {"DECIMAL", "UUID", "JSON", "VECTOR", "LATER"}, v : Seq(Int)]
  BY DEF Val
<1> QED BY <1>2, <1>3 DEF Columns

(* A length that wraps in the C int is negative below twice its range.     *)
LEMMA Lengths ==
  ASSUME NEW S, NEW s \in Seq(S)
  PROVE  /\ CInt(s) \in Int
         /\ CInt(s) >= 0 => SubSeq(s, 1, CInt(s)) \in Seq(S)
         /\ Len(s) < Narrow => CInt(s) = Len(s) /\ SubSeq(s, 1, CInt(s)) = s
         /\ Len(s) \in Narrow..(2 * Narrow - 1) => CInt(s) < 0
<1>1. Len(s) \in Nat /\ Narrow \in Nat \ {0}
  BY WidthTypes
<1>2. /\ CInt(s) \in (-Narrow)..(Narrow - 1)
      /\ Len(s) \in (-Narrow)..(Narrow - 1) => CInt(s) = Len(s)
      /\ Len(s) \in Narrow..(2 * Narrow - 1) => CInt(s) = Len(s) - 2 * Narrow
      /\ CInt(s) <= Len(s)
  BY <1>1, SignedValue DEF CInt
<1>3. ASSUME CInt(s) >= 0
      PROVE  SubSeq(s, 1, CInt(s)) \in Seq(S)
  BY <1>1, <1>2, <1>3, SubSeqProperties
<1>4. SubSeq(s, 1, Len(s)) = s
  BY SubSeqFull
<1> QED BY <1>1, <1>2, <1>3, <1>4

(* What is bound for a value: itself, in a type of the engine, or nothing. *)
BoundTo(p, c) ==
  /\ p.type = "nil" => c = Null
  /\ p.type = "bool" => c = Val("BOOL", p.v)
  /\ p.type \in {"int", "int64", "int32", "uint32"} => c = Val("INT", p.v) /\ p.v[1] \in Int64s
  /\ p.type \in {"uint", "uint64"} => c = Refused \/ (c = Val("INT", p.v) /\ p.v[1] \in Int64s)
  /\ p.type \in {"float32", "float64"} => c = Val("FLOAT", p.v)
  /\ p.type = "string" => /\ c.type = "TEXT"
                          /\ NoNUL(p.v) /\ Len(p.v) < 2 * Narrow => c = Val("TEXT", p.v)
  /\ p.type = "[]byte" /\ Len(p.v) < 2 * Narrow => c \in {Refused, Val("BLOB", p.v)}
  /\ p.type = "[]float32" /\ Len(p.v) < 2 * Narrow => c \in {Refused, Val("VECTOR", p.v)}
  /\ p.type \in {"struct", "sql.NamedArg"} => c = Refused

LEMMA TextBound ==
  ASSUME NEW s \in Seq(Nat)
  PROVE  /\ BoundText(s) \in Seq(Nat)
         /\ NoNUL(s) /\ Len(s) < 2 * Narrow => BoundText(s) = s
<1>1. Len(s) \in Nat /\ Narrow \in Nat
  BY WidthTypes
<1>2. CString(s) \in Seq(Nat) /\ (NoNUL(s) => CString(s) = s)
  BY CStringOf
<1>3. CASE CInt(s) < 0
  <2>1. BoundText(s) = CString(s)
    BY <1>3 DEF BoundText
  <2> QED BY <1>2, <2>1
<1>4. CASE ~(CInt(s) < 0)
  <2>1. BoundText(s) = SubSeq(s, 1, CInt(s)) /\ CInt(s) >= 0
    BY <1>4, Lengths DEF BoundText
  <2>2. Len(s) < 2 * Narrow => Len(s) < Narrow
    BY <1>1, <1>4, Lengths
  <2> QED BY <2>1, <2>2, Lengths
<1> QED BY <1>3, <1>4

LEMMA BytesBound ==
  ASSUME NEW S, NEW s \in Seq(S), NEW type
  PROVE  /\ BoundBytes(type, s) = Refused \/ \E t \in Seq(S) : BoundBytes(type, s) = Val(type, t)
         /\ Len(s) < 2 * Narrow => BoundBytes(type, s) \in {Refused, Val(type, s)}
<1>1. Len(s) \in Nat /\ Narrow \in Nat
  BY WidthTypes
<1>2. CASE CInt(s) < 0
  BY <1>2 DEF BoundBytes
<1>3. CASE ~(CInt(s) < 0)
  <2>1. BoundBytes(type, s) = Val(type, SubSeq(s, 1, CInt(s))) /\ CInt(s) >= 0
    BY <1>3, Lengths DEF BoundBytes
  <2>2. Len(s) < 2 * Narrow => Len(s) < Narrow
    BY <1>1, <1>3, Lengths
  <2> QED BY <2>1, <2>2, Lengths
<1> QED BY <1>2, <1>3

LEMMA OneBound ==
  ASSUME NEW p \in GoValues
  PROVE  BindOne(p) \in Columns \cup {Refused} /\ BoundTo(p, BindOne(p))
<1> USE GoTypes, WidthTypes DEF GoTypeNames
<1>1. CASE p.type = "nil"
  BY <1>1, IsColumn DEF BindOne, BoundTo
<1>2. CASE p.type = "bool"
  BY <1>2, IsColumn DEF BindOne, BoundTo
<1>3. CASE p.type \in {"int", "int64"}
  <2>1. Signed(p.v[1], Wide) = p.v[1]
    <3>1. /\ Wide \in Nat \ {0} /\ p.v[1] \in Int
          /\ p.v[1] \in (-Wide)..(Wide - 1)
      BY <1>3 DEF Int64s
    <3> QED BY <3>1, SignedValue
  <2>2. BindOne(p) = Val("INT", p.v)
    BY <1>3, <2>1 DEF BindOne
  <2> QED BY <1>3, <2>2, IsColumn DEF BoundTo
<1>4. CASE p.type = "int32"
  <2>1. Signed(p.v[1], Narrow) = p.v[1]
    <3>1. /\ Narrow \in Nat \ {0} /\ p.v[1] \in Int
          /\ p.v[1] \in (-Narrow)..(Narrow - 1)
      BY <1>4
    <3> QED BY <3>1, SignedValue
  <2>2. BindOne(p) = Val("INT", p.v)
    BY <1>4, <2>1 DEF BindOne
  <2>3. p.v[1] \in Int64s
    BY <1>4 DEF Int64s
  <2> QED BY <1>4, <2>2, <2>3, IsColumn DEF BoundTo
<1>5. CASE p.type = "uint32"
  <2>1. BindOne(p) = Val("INT", p.v)
    BY <1>5 DEF BindOne
  <2>2. p.v[1] \in Int64s
    BY <1>5 DEF Int64s
  <2> QED BY <1>5, <2>1, <2>2, IsColumn DEF BoundTo
<1>6. CASE p.type \in {"uint", "uint64"}
  <2>1. BindOne(p) = BindUnsigned(p.v[1])
    BY <1>6 DEF BindOne
  <2>2. p.v[1] < Wide => p.v[1] \in Int64s
    BY <1>6 DEF Int64s
  <2>3. BindOne(p) = Refused \/ (p.v[1] \in Int64s /\ BindOne(p) = Val("INT", p.v))
    BY <1>6, <2>1, <2>2 DEF BindUnsigned
  <2> QED BY <1>6, <2>3, IsColumn DEF BoundTo
<1>7. CASE p.type \in {"float32", "float64"}
  BY <1>7, IsColumn DEF BindOne, BoundTo
<1>8. CASE p.type = "string"
  <2>1. BindOne(p) = Val("TEXT", BoundText(p.v))
    BY <1>8 DEF BindOne
  <2>2. /\ BoundText(p.v) \in Seq(Nat)
        /\ NoNUL(p.v) /\ Len(p.v) < 2 * Narrow => BoundText(p.v) = p.v
    BY <1>8, TextBound
  <2>3. BindOne(p) \in Columns /\ BindOne(p).type = "TEXT"
    <3>1. Val("TEXT", BoundText(p.v)) \in Columns
      BY <2>2, IsColumn
    <3>2. Val("TEXT", BoundText(p.v)).type = "TEXT"
      BY DEF Val
    <3> QED BY <2>1, <3>1, <3>2
  <2>4. NoNUL(p.v) /\ Len(p.v) < 2 * Narrow => BindOne(p) = Val("TEXT", p.v)
    BY <2>1, <2>2
  <2> HIDE DEF NoNUL
  <2> QED BY <1>8, <2>3, <2>4 DEF BoundTo
<1>9. CASE p.type = "[]byte"
  <2>1. BindOne(p) = BoundBytes("BLOB", p.v)
    BY <1>9 DEF BindOne
  <2>2. /\ BindOne(p) = Refused \/ \E t \in Seq(Nat) : BindOne(p) = Val("BLOB", t)
        /\ Len(p.v) < 2 * Narrow => BindOne(p) \in {Refused, Val("BLOB", p.v)}
    BY <1>9, <2>1, BytesBound
  <2>3. BindOne(p) \in Columns \cup {Refused}
    BY <2>2, IsColumn
  <2> QED BY <1>9, <2>2, <2>3 DEF BoundTo
<1>10. CASE p.type = "[]float32"
  <2>1. BindOne(p) = BoundBytes("VECTOR", p.v)
    BY <1>10 DEF BindOne
  <2>2. /\ BindOne(p) = Refused \/ \E t \in Seq(Int) : BindOne(p) = Val("VECTOR", t)
        /\ Len(p.v) < 2 * Narrow => BindOne(p) \in {Refused, Val("VECTOR", p.v)}
    BY <1>10, <2>1, BytesBound
  <2>3. BindOne(p) \in Columns \cup {Refused}
    BY <2>2, IsColumn
  <2> QED BY <1>10, <2>2, <2>3 DEF BoundTo
<1>11. CASE p.type \in {"struct", "sql.NamedArg", "time.Time"}
  BY <1>11 DEF BindOne, BoundTo
<1> QED BY <1>1, <1>2, <1>3, <1>4, <1>5, <1>6, <1>7, <1>8, <1>9, <1>10, <1>11

(* The driver first converts the value, and writes a time as text in UTC.  *)
LEMMA ImageBound ==
  ASSUME NEW p \in GoValues, NEW a
  PROVE  /\ Image(a, p) \in Columns \cup {Refused}
         /\ Image(a, p) # Refused /\ p.type # "time.Time" => BoundTo(p, Image(a, p))
         /\ Image(a, p) # Refused /\ p.type = "time.Time" =>
              p.v[1] \div Ticks \in Int /\ Image(a, p) = Val("TEXT", Stamp(p.v[1] \div Ticks))
<1> USE GoTypes DEF GoTypeNames
<1>1. CASE a = "native"
  <2>1. Image(a, p) = BindOne(p)
    BY <1>1 DEF Image
  <2>2. p.type = "time.Time" => BindOne(p) = Refused
    BY DEF BindOne
  <2> QED BY <2>1, <2>2, OneBound
<1>2. CASE a # "native"
  <2> DEFINE d == CheckNamedValue(p)
  <2>1. CASE d = Refused
    BY <1>2, <2>1 DEF Image
  <2>2. CASE d # Refused /\ p.type = "time.Time"
    <3> DEFINE us == p.v[1] \div Ticks
    <3>1. d = p /\ p.type = "time.Time"
      BY <2>2 DEF CheckNamedValue
    <3>2. us \in Int
      <4>1. p.v[1] \in Int /\ Ticks \in Nat \ {0}
        BY <2>2, WidthTypes
      <4> QED BY <4>1, Division
    <3> HIDE DEF us
    <3>3. BindValue(p) = BindOne(Val("string", Stamp(us)))
      BY <2>2 DEF BindValue, us
    <3>4. Val("string", Stamp(us)).type = "string" /\ Val("string", Stamp(us)).v = Stamp(us)
      BY DEF Val
    <3>5. BindOne(Val("string", Stamp(us))) = Val("TEXT", BoundText(Stamp(us)))
      BY <3>4 DEF BindOne
    <3>6. BoundText(Stamp(us)) = Stamp(us) /\ Stamp(us) \in Seq(Nat)
      <4>1. Stamp(us) \in Seq(Nat) /\ NoNUL(Stamp(us)) /\ Len(Stamp(us)) = 2
        BY <3>2, Stamps
      <4>2. Len(Stamp(us)) < 2 * Narrow
        BY <4>1, WidthTypes
      <4> QED BY <4>1, <4>2, TextBound
    <3>7. Image(a, p) = Val("TEXT", Stamp(us))
      BY <1>2, <2>2, <3>1, <3>3, <3>5, <3>6 DEF Image
    <3> QED BY <2>2, <3>2, <3>6, <3>7, IsColumn DEF us
  <2>3. CASE d # Refused /\ p.type # "time.Time"
    <3>1. Image(a, p) = BindOne(d)
      <4>1. d.type # "time.Time"
        BY <2>3 DEF CheckNamedValue, Val
      <4> QED BY <1>2, <2>3, <4>1 DEF Image, BindValue
    <3>2. CASE p.type \in {"nil", "bool", "int64", "float64", "string", "[]byte", "[]float32"}
      BY <2>3, <3>1, <3>2, OneBound DEF CheckNamedValue
    <3>3. CASE p.type \in {"int", "int32", "uint32", "uint", "uint64"}
      <4>1. d = Val("int64", p.v)
        BY <2>3, <3>3 DEF CheckNamedValue
      <4>2. p.v = <<p.v[1]>> /\ p.v[1] \in Int64s
        BY <2>3, <3>3, WidthTypes DEF CheckNamedValue, Int64s
      <4>3. d \in GoValues /\ d.type = "int64" /\ d.v = p.v
        <5>1. p.v \in [1..1 -> Int64s]
          <6>1. \A n \in Int64s : <<n>> \in [1..1 -> Int64s]
            OBVIOUS
          <6> QED BY <4>2, <6>1
        <5>2. d \in One({"int", "int64"}, Int64s)
          BY <4>1, <5>1 DEF One, Val
        <5> QED BY <4>1, <5>2 DEF GoValues, Val
      <4>4. BindOne(d) = Val("INT", p.v) /\ BindOne(d) \in Columns \cup {Refused}
        BY <4>3, OneBound DEF BoundTo
      <4> QED BY <2>3, <3>1, <3>3, <4>2, <4>4 DEF BoundTo
    <3>4. CASE p.type = "float32"
      <4>1. d = Val("float64", p.v) /\ p.v[1] \in Int /\ p.v = <<p.v[1]>>
        BY <2>3, <3>4 DEF CheckNamedValue
      <4>2. d.type = "float64" /\ d.v = p.v
        BY <4>1 DEF Val
      <4>3. BindOne(d) = Val("FLOAT", p.v)
        BY <4>2 DEF BindOne
      <4> QED BY <2>3, <3>1, <3>4, <4>1, <4>3, IsColumn DEF BoundTo
    <3>5. p.type \notin {"struct", "sql.NamedArg"}
      BY <2>3 DEF CheckNamedValue
    <3> QED BY <2>3, <3>2, <3>3, <3>4, <3>5
  <2> QED BY <2>1, <2>2, <2>3
<1> QED BY <1>1, <1>2
-----------------------------------------------------------------------------
(* What a column reads as.                                                 *)
LEMMA TextOf ==
  ASSUME NEW c \in Columns, c # Null
  PROVE  /\ c.type # "TEXT" \/ NoNUL(c.v) => AsText(c) = Rendered(c)
<1>1. c = Val(c.type, c.v) /\ c.v \in Seq(Int)
  BY ColumnTypes
<1>2. CASE c.type = "TEXT"
  <2>1. Rendered(c) = c.v /\ c.v \in Seq(Nat)
    BY <1>2, ColumnTypes DEF Rendered
  <2> QED BY <1>2, <2>1, CStringOf DEF AsText
<1>3. CASE c.type # "TEXT"
  <2>1. c.type \in DOMAIN Mark
    BY <1>3, ColumnTypes DEF Mark, Temporal
  <2> DEFINE t == c.type
             w == c.v
  <2>2. Rendered(Val(t, w)) \in Seq(Nat) /\ NoNUL(Rendered(Val(t, w)))
    BY <1>1, <1>3, <2>1, RenderedText
  <2>3. Rendered(c) \in Seq(Nat) /\ NoNUL(Rendered(c))
    BY <1>1, <2>2
  <2> QED BY <2>3, CStringOf DEF AsText
<1> QED BY <1>2, <1>3

(* columnToAny, by the type of the column.                                 *)
LEMMA AnyOf ==
  ASSUME NEW c \in Columns, NEW g \in ColumnToAny(c)
  PROVE  /\ c.type = "NULL" => g = Val("nil", << >>)
         /\ c.type = "INT" => g = Val("int64", c.v)
         /\ c.type = "FLOAT" => g = Val("float64", c.v)
         /\ c.type = "TEXT" => g = Val("string", CString(c.v))
         /\ c.type = "BLOB" => g = Val("[]byte", c.v) \/ (c.v = << >> /\ g = Val("nil", << >>))
         /\ c.type = "BOOL" => g = Val("bool", c.v)
         /\ c.type \in {"TIMESTAMP", "TIMESTAMPTZ"} => g = Val("time.Time", <<Ticks * c.v[1], 0>>)
         /\ c.type = "DATE" => g = Val("time.Time", <<Ticks * Day * c.v[1], 0>>)
         /\ c.type = "TIME" => g = Val("time.Time", <<Ticks * (YearZero + c.v[1]), 0>>)
         /\ c.type \in {"DECIMAL", "UUID", "JSON", "VECTOR", "LATER"} =>
              g = Val("string", Rendered(c))
         /\ g # Refused
<1> USE ColumnTypes DEF ColumnToAny
<1>1. CASE c.type = "NULL"
  BY <1>1 DEF Val, Refused
<1>2. CASE c.type = "INT"
  <2>1. AsInt64(c) = {c.v[1]} /\ c.v = <<c.v[1]>>
    BY <1>2 DEF AsInt64
  <2>2. g = Val("int64", c.v)
    BY <1>2, <2>1
  <2> QED BY <1>2, <2>2 DEF Val, Refused
<1>3. CASE c.type = "FLOAT"
  <2>1. AsDouble(c) = {c.v[1]} /\ c.v = <<c.v[1]>>
    BY <1>3 DEF AsDouble
  <2>2. g = Val("float64", c.v)
    BY <1>3, <2>1
  <2> QED BY <1>3, <2>2 DEF Val, Refused
<1>4. CASE c.type = "TEXT"
  <2>1. g = Val("string", CString(c.v))
    BY <1>4 DEF AsText, Rendered
  <2> QED BY <1>4, <2>1 DEF Val, Refused
<1>5. CASE c.type = "BLOB"
  <2>1. AsBlob(c) = {c.v}
    BY <1>5 DEF AsBlob
  <2>2. g = Val("[]byte", c.v) \/ (c.v = << >> /\ g = Val("nil", << >>))
    BY <1>5, <2>1
  <2> QED BY <1>5, <2>2 DEF Val, Refused
<1>6. CASE c.type = "BOOL"
  <2>1. AsInt64(c) = {c.v[1]} /\ c.v = <<c.v[1]>> /\ c.v[1] \in {0, 1}
    BY <1>6 DEF AsInt64
  <2>2. g = Val("bool", <<IF c.v[1] # 0 THEN 1 ELSE 0>>)
    BY <1>6, <2>1
  <2>3. (IF c.v[1] # 0 THEN 1 ELSE 0) = c.v[1]
    BY <2>1
  <2>4. g = Val("bool", c.v)
    BY <2>1, <2>2, <2>3
  <2> QED BY <1>6, <2>4 DEF Val, Refused
<1>7. CASE c.type \in {"TIMESTAMP", "TIMESTAMPTZ"}
  <2>1. AsInt64(c) = {c.v[1]}
    BY <1>7 DEF AsInt64, Temporal
  <2>2. g = Val("time.Time", <<Ticks * c.v[1], 0>>)
    BY <1>7, <2>1 DEF Clock
  <2> QED BY <1>7, <2>2 DEF Val, Refused
<1>8. CASE c.type = "DATE"
  <2>1. AsInt64(c) = {c.v[1]} /\ c.v[1] \in Int /\ Ticks \in Int /\ Day \in Int
    BY <1>8, WidthTypes DEF AsInt64, Temporal, Int64s
  <2>2. g = Val("time.Time", <<Ticks * (c.v[1] * Day), 0>>)
    BY <1>8, <2>1 DEF Clock
  <2>3. \A n \in Int : Ticks * (n * Day) = Ticks * Day * n
    BY <2>1
  <2>4. g = Val("time.Time", <<Ticks * Day * c.v[1], 0>>)
    BY <2>1, <2>2, <2>3
  <2> QED BY <1>8, <2>4 DEF Val, Refused
<1>9. CASE c.type = "TIME"
  <2>1. AsInt64(c) = {c.v[1]}
    BY <1>9 DEF AsInt64, Temporal
  <2>2. g = Val("time.Time", <<Ticks * (YearZero + c.v[1]), 0>>)
    BY <1>9, <2>1 DEF Clock
  <2> QED BY <1>9, <2>2 DEF Val, Refused
<1>10. CASE c.type \in {"DECIMAL", "UUID", "JSON", "VECTOR", "LATER"}
  <2>1. AsText(c) = Rendered(c)
    BY <1>10, TextOf DEF Null, Val
  <2>2. g = Val("string", Rendered(c))
    BY <1>10, <2>1 DEF ReadUnknown
  <2> QED BY <1>10, <2>2 DEF Val, Refused
<1> QED BY <1>1, <1>2, <1>3, <1>4, <1>5, <1>6, <1>7, <1>8, <1>9, <1>10 DEF Temporal

(* scanColumn reads a column as what it is, but for the lossy pairs.       *)
LEMMA ScanFaithful ==
  ASSUME NEW c \in Columns, NEW d, NEW g \in ScanColumn(c, d), g # Refused
  PROVE  d \in Dests /\ (Lossy(c, d) \/ Faithful(c, g))
<1> USE ColumnTypes
<1>1. d \in Dests
  BY DEF ScanColumn, Dests
<1>2. CASE c = Null
  <2>1. g = Zero(d)
    BY <1>1, <1>2 DEF ScanColumn, Dests
  <2>2. g \in {Zero(g.type), Zero("any")}
    BY <1>1, <2>1 DEF Zero, Dests, Val
  <2> QED BY <1>1, <1>2, <2>2 DEF Faithful
<1>3. CASE c # Null /\ d = "bool"
  <2>1. CASE c.type = "BOOL"
    <3>1. AsInt64(c) = {c.v[1]} /\ c.v = <<c.v[1]>> /\ c.v[1] \in {0, 1}
      BY <2>1 DEF AsInt64
    <3>2. g = Val("bool", <<IF c.v[1] # 0 THEN 1 ELSE 0>>)
      BY <1>3, <3>1 DEF ScanColumn, Dests
    <3>3. (IF c.v[1] # 0 THEN 1 ELSE 0) = c.v[1]
      BY <3>1
    <3>4. g.type = "bool" /\ g.v = c.v
      BY <3>1, <3>2, <3>3 DEF Val
    <3> QED BY <1>1, <1>3, <3>4 DEF Faithful
  <2> QED BY <1>1, <1>3, <2>1 DEF Lossy
<1>4. CASE c # Null /\ d \in {"int", "int32", "int64"}
  <2>1. CASE c.type \in {"INT", "BOOL"} \cup Temporal /\ ~Lossy(c, d)
    <3>1. AsInt64(c) = {c.v[1]} /\ c.v = <<c.v[1]>>
      <4>1. c.type \in {"INT"} \cup Temporal \/ c.type = "BOOL"
        BY <2>1
      <4> QED BY <4>1 DEF AsInt64, Temporal
    <3>2. g = Val(d, <<IF d = "int32" THEN Signed(c.v[1], Narrow) ELSE c.v[1]>>)
      BY <1>4, <3>1 DEF ScanColumn, Dests
    <3>3. d = "int32" => Signed(c.v[1], Narrow) = c.v[1]
      BY <2>1 DEF Lossy
    <3>4. g.type = d /\ g.v = c.v
      BY <3>1, <3>2, <3>3 DEF Val
    <3> QED BY <1>1, <1>4, <3>4 DEF Faithful
  <2> QED BY <1>1, <1>4, <2>1 DEF Lossy
<1>5. CASE c # Null /\ d \in {"float32", "float64"}
  <2>1. CASE c.type = "FLOAT" /\ ~Lossy(c, d)
    <3>1. AsDouble(c) = {c.v[1]} /\ c.v = <<c.v[1]>> /\ c.v[1] \in Int
      BY <2>1 DEF AsDouble
    <3>2. g = Val(d, <<IF d = "float32" THEN Float32(c.v[1]) ELSE c.v[1]>>)
      BY <1>5, <3>1 DEF ScanColumn, Dests
    <3>3. d = "float32" => Float32(c.v[1]) = c.v[1]
      <4>1. d = "float32" => c.v[1] % Step32 = 0
        BY <2>1 DEF Lossy
      <4>2. Step32 \in Nat \ {0}
        BY WidthTypes
      <4> QED BY <3>1, <4>1, <4>2, Division DEF Float32
    <3>4. g.type = d /\ g.v = c.v
      BY <3>1, <3>2, <3>3 DEF Val
    <3> QED BY <1>1, <1>5, <3>4 DEF Faithful
  <2> QED BY <1>1, <1>5, <2>1 DEF Lossy
<1>6. CASE c # Null /\ d = "string"
  <2>1. g = Val("string", AsText(c))
    BY <1>6 DEF ScanColumn, Dests
  <2>2. CASE ~Lossy(c, d)
    <3>1. c.type # "TEXT" \/ NoNUL(c.v)
      BY <1>6, <2>2 DEF Lossy, NoNUL
    <3>2. AsText(c) = Rendered(c)
      BY <1>6, <3>1, TextOf
    <3>3. g.type = "string" /\ g.v = Rendered(c)
      BY <2>1, <3>2 DEF Val
    <3> QED BY <1>1, <1>6, <3>3 DEF Faithful
  <2> QED BY <1>1, <2>2
<1>7. CASE c # Null /\ d = "[]byte"
  <2>1. CASE c.type \in {"TEXT", "BLOB"}
    <3>1. g = Val("[]byte", c.v)
      BY <1>7, <2>1 DEF ScanColumn, Dests, AsBlob
    <3>2. g.type = "[]byte" /\ g.v = c.v
      BY <3>1 DEF Val
    <3> QED BY <1>1, <1>7, <2>1, <3>2 DEF Faithful
  <2> QED BY <1>1, <1>7, <2>1 DEF Lossy
<1>8. CASE c # Null /\ d \in {"any", "time.Time"}
  <2>1. g \in ColumnToAny(c) /\ (d = "time.Time" => g.type = "time.Time")
    <3>1. CASE d = "any"
      BY <1>8, <3>1 DEF ScanColumn, Dests
    <3>2. CASE d = "time.Time"
      <4>1. PICK v \in ColumnToAny(c) : g = IF v.type = "time.Time" THEN v ELSE Refused
        BY <1>8, <3>2 DEF ScanColumn, Dests
      <4> QED BY <4>1
    <3> QED BY <1>8, <3>1, <3>2
  <2>2. CASE c.type \in {"INT", "FLOAT", "BOOL"}
    <3>1. g.type \in {"int64", "float64", "bool"} /\ g.v = c.v
      BY <2>1, <2>2, AnyOf DEF Val
    <3> QED BY <1>1, <1>8, <3>1 DEF Faithful
  <2>3. CASE c.type = "TEXT"
    <3>1. g = Val("string", CString(c.v)) /\ c.v \in Seq(Nat)
      BY <2>1, <2>3, AnyOf
    <3>2. CASE NoNUL(c.v)
      <4>1. g.type = "string" /\ g.v = Rendered(c)
        BY <2>3, <3>1, <3>2, CStringOf DEF Val, Rendered
      <4> QED BY <1>1, <1>8, <4>1 DEF Faithful
    <3>3. d = "any" /\ ~NoNUL(c.v) => Lossy(c, d)
      BY <2>3 DEF Lossy, NoNUL
    <3>4. d = "any"
      BY <1>8, <2>1, <3>1 DEF Val
    <3> QED BY <1>1, <3>2, <3>3, <3>4
  <2>4. CASE c.type = "BLOB"
    <3>1. g = Val("[]byte", c.v) \/ (c.v = << >> /\ g = Val("nil", << >>))
      BY <2>1, <2>4, AnyOf
    <3>2. d = "any"
      BY <1>8, <2>1, <3>1 DEF Val
    <3>3. c.v = << >> => Lossy(c, d)
      BY <2>4, <3>2 DEF Lossy
    <3>4. c.v # << >> => g.type = "[]byte" /\ g.v = c.v
      BY <3>1 DEF Val
    <3>5. c.v # << >> => Faithful(c, g)
      BY <1>8, <2>4, <3>4 DEF Faithful
    <3> QED BY <1>1, <3>3, <3>5
  <2>5. CASE c.type \in Temporal
    <3>1. /\ g.type = "time.Time"
          /\ \/ c.type \in {"TIMESTAMP", "TIMESTAMPTZ"} /\ g.v = <<Ticks * c.v[1], 0>>
             \/ c.type = "DATE" /\ g.v = <<Ticks * Day * c.v[1], 0>>
             \/ c.type = "TIME" /\ g.v = <<Ticks * (YearZero + c.v[1]), 0>>
      BY <2>1, <2>5, AnyOf DEF Val, Temporal
    <3>2. CASE c.type = "TIME" => c.v[1] < Day
      BY <1>1, <1>8, <3>1, <3>2 DEF Faithful
    <3>3. CASE c.type = "TIME" /\ ~(c.v[1] < Day)
      <4>1. c = Val("TIME", <<Day>>)
        BY <3>3, WidthTypes DEF Temporal
      <4> QED BY <1>1, <1>8, <4>1 DEF Lossy
    <3> QED BY <3>2, <3>3
  <2>6. CASE c.type \in {"DECIMAL", "UUID", "JSON", "VECTOR", "LATER"}
    <3>1. g.type = "string" /\ g.v = Rendered(c)
      BY <2>1, <2>6, AnyOf DEF Val
    <3> QED BY <1>1, <1>8, <3>1 DEF Faithful
  <2> QED BY <1>8, <2>2, <2>3, <2>4, <2>5, <2>6
<1> QED BY <1>1, <1>2, <1>3, <1>4, <1>5, <1>6, <1>7, <1>8 DEF Dests

(* It refuses a column only where FailsAt says so.                         *)
LEMMA ScanRefuses ==
  ASSUME NEW c \in Columns, NEW d, Refused \in ScanColumn(c, d)
  PROVE  FailsAt(c, d)
<1>1. CASE d \notin Dests
  BY <1>1 DEF FailsAt, Documented
<1>2. CASE d \in Dests /\ c = Null
  <2>1. Refused = Zero(d)
    BY <1>2 DEF ScanColumn
  <2> QED BY <1>2, <2>1 DEF Refused, Zero, Val, Dests
<1>3. CASE d \in Dests \ {"any", "time.Time"} /\ c # Null
  BY <1>3 DEF ScanColumn, Refused, Val, Dests
<1>4. CASE d = "any" /\ c # Null
  <2>1. Refused \in ColumnToAny(c)
    BY <1>4 DEF ScanColumn, Dests
  <2> QED BY <2>1, AnyOf
<1>5. CASE d = "time.Time" /\ c # Null
  <2>1. PICK v \in ColumnToAny(c) : Refused = IF v.type = "time.Time" THEN v ELSE Refused
    BY <1>5 DEF ScanColumn, Dests
  <2>2. v.type # "time.Time"
    BY <2>1, AnyOf
  <2>3. c.type \notin Temporal
    BY <2>2, AnyOf DEF Temporal, Val
  <2>4. c.type # "NULL"
    BY <1>5, ColumnTypes
  <2> QED BY <1>5, <2>3, <2>4 DEF FailsAt
<1> QED BY <1>1, <1>2, <1>3, <1>4, <1>5

LEMMA ValueOf ==
  ASSUME NEW A, NEW B, NEW c \in {Val(a, <<b>>) : a \in A, b \in B}
  PROVE  \E a \in A : \E b \in B : c = Val(a, <<b>>)
OBVIOUS

(* What the engine makes of a bound value.                                 *)
LEMMA StoredAs ==
  ASSUME NEW v, v # Unbound, NEW c \in Stored(v)
  PROVE  \/ c = v
         \/ v.type = "BLOB" /\ c = Val("TEXT", Rendered(v))
         \/ \E us \in Int64s, ts \in {"TIMESTAMP", "TIMESTAMPTZ"} :
               v = Val("TEXT", Stamp(us)) /\ c = Val(ts, <<us>>)
<1> DEFINE kinds == {"TIMESTAMP", "TIMESTAMPTZ"}
           written == {u \in Int64s : v = Val("TEXT", Stamp(u))}
           digits == IF v.type = "BLOB" THEN {Val("TEXT", Rendered(v))} ELSE {}
           stamps == {Val(ts, <<us>>) : ts \in kinds, us \in written}
<1>1. Stored(v) = {v} \cup digits \cup stamps
  BY DEF Stored
<1>2. c \in digits => v.type = "BLOB" /\ c = Val("TEXT", Rendered(v))
  OBVIOUS
<1>3. \A us \in written : us \in Int64s /\ v = Val("TEXT", Stamp(us))
  OBVIOUS
<1> HIDE DEF kinds, written, digits
<1>4. c \in stamps => \E ts \in kinds : \E us \in written : c = Val(ts, <<us>>)
  BY ValueOf
<1> HIDE DEF stamps
<1>5. CASE c \in stamps
  <2>1. PICK ts \in kinds, us \in written : c = Val(ts, <<us>>)
    BY <1>4, <1>5
  <2> QED BY <1>3, <2>1 DEF kinds
<1>6. c = v \/ c \in digits \/ c \in stamps
  BY <1>1
<1> QED BY <1>2, <1>5, <1>6

LEMMA StoredImage ==
  ASSUME NEW p \in GoValues, NEW a, NEW c \in Columns, c \in Stored(Image(a, p))
  PROVE  /\ Image(a, p) \in Columns
         /\ \/ c = Image(a, p)
            \/ Image(a, p).type = "BLOB" /\ c = Val("TEXT", Rendered(Image(a, p)))
            \/ \E us \in Int64s, ts \in {"TIMESTAMP", "TIMESTAMPTZ"} :
                  Image(a, p) = Val("TEXT", Stamp(us)) /\ c = Val(ts, <<us>>)
<1> DEFINE m == Image(a, p)
<1>1. m \in Columns \cup {Refused}
  BY ImageBound
<1>2. m # Unbound /\ c # Refused
  <2>1. ASSUME NEW k \in Columns
        PROVE  k.type # "refused" /\ k.type # "unbound"
    BY ColumnTypes DEF Temporal
  <2>2. Refused.type = "refused" /\ Unbound.type = "unbound"
    BY DEF Refused, Unbound, Val
  <2> HIDE DEF m
  <2> QED BY <1>1, <2>1, <2>2
<1>3. c \in Stored(m)
  OBVIOUS
<1> HIDE DEF m
<1>4. \/ c = m
      \/ m.type = "BLOB" /\ c = Val("TEXT", Rendered(m))
      \/ \E us \in Int64s, ts \in {"TIMESTAMP", "TIMESTAMPTZ"} :
            m = Val("TEXT", Stamp(us)) /\ c = Val(ts, <<us>>)
  BY <1>2, <1>3, StoredAs
<1>5. m # Refused
  BY <1>2, <1>4 DEF Refused, Val
<1> QED BY <1>1, <1>4, <1>5 DEF m

(* What the engine stores for a parameter reads back as the value given.   *)
LEMMA ReadsBack ==
  ASSUME NEW p \in GoValues, NEW a, NEW c \in Columns, c \in Stored(Image(a, p)),
         Len(p.v) < 2 * Narrow, NEW g \in ColumnToAny(c)
  PROVE  SameValue(p, g)
<1> DEFINE m == Image(a, p)
<1>1. m # Refused /\ m \in Columns
  BY StoredImage, ColumnTypes DEF Refused, Val, Temporal
<1>2. \/ c = m
      \/ m.type = "BLOB" /\ c = Val("TEXT", Rendered(m))
      \/ \E us \in Int64s, ts \in {"TIMESTAMP", "TIMESTAMPTZ"} :
            m = Val("TEXT", Stamp(us)) /\ c = Val(ts, <<us>>)
  BY StoredImage
<1>3. m.type \notin {"TEXT", "BLOB"} => c = m
  BY <1>2 DEF Val
<1> HIDE DEF m
<1>4. ASSUME NEW us \in Int64s, NEW ts \in {"TIMESTAMP", "TIMESTAMPTZ"}, c = Val(ts, <<us>>)
      PROVE  g = Clock(us)
  <2>1. c.type = ts /\ c.v[1] = us
    BY <1>4 DEF Val
  <2> QED BY <2>1, AnyOf DEF Clock
<1>5. p.type # "time.Time" => BoundTo(p, m)
  BY <1>1, ImageBound DEF m
<1> USE GoTypes DEF GoTypeNames
<1>6. CASE p.type = "nil"
  <2>1. m = Null
    BY <1>5, <1>6 DEF BoundTo
  <2>2. g = Val("nil", << >>)
    BY <1>3, <2>1, AnyOf DEF Null, Val
  <2> QED BY <1>6, <2>2 DEF SameValue
<1>7. CASE p.type \in {"int", "int32", "int64", "uint", "uint32", "uint64"}
  <2>1. m = Val("INT", p.v)
    BY <1>1, <1>5, <1>7 DEF BoundTo
  <2>2. c.type = "INT" /\ c.v = p.v
    BY <1>3, <2>1 DEF Val
  <2>3. g = Val("int64", p.v)
    BY <2>2, AnyOf
  <2> QED BY <1>7, <2>3 DEF SameValue
<1>8. CASE p.type \in {"float32", "float64"}
  <2>1. m = Val("FLOAT", p.v)
    BY <1>5, <1>8 DEF BoundTo
  <2>2. c.type = "FLOAT" /\ c.v = p.v
    BY <1>3, <2>1 DEF Val
  <2>3. g = Val("float64", p.v)
    BY <2>2, AnyOf
  <2> QED BY <1>8, <2>3 DEF SameValue
<1>9. CASE p.type = "bool"
  <2>1. m = Val("BOOL", p.v)
    BY <1>5, <1>9 DEF BoundTo
  <2>2. c.type = "BOOL" /\ c.v = p.v
    BY <1>3, <2>1 DEF Val
  <2>3. g = Val("bool", p.v)
    BY <2>2, AnyOf
  <2>4. p = Val("bool", p.v)
    BY <1>9
  <2> QED BY <1>9, <2>3, <2>4 DEF SameValue
<1>10. CASE p.type = "string"
  <2> SUFFICES ASSUME NoNUL(p.v)
               PROVE  g = p \/ \E us \in Int64s : p.v = Stamp(us) /\ g = Clock(us)
    BY <1>10 DEF SameValue
  <2>1. m = Val("TEXT", p.v) /\ p.v \in Seq(Nat) /\ p = Val("string", p.v)
    BY <1>5, <1>10 DEF BoundTo
  <2>2. CASE c = m
    <3>1. c.type = "TEXT" /\ c.v = p.v
      BY <2>1, <2>2 DEF Val
    <3>2. CString(p.v) = p.v
      BY <2>1, CStringOf
    <3> QED BY <2>1, <3>1, <3>2, AnyOf
  <2>3. CASE c # m
    <3>1. PICK us \in Int64s, ts \in {"TIMESTAMP", "TIMESTAMPTZ"} :
             m = Val("TEXT", Stamp(us)) /\ c = Val(ts, <<us>>)
      BY <1>2, <2>1, <2>3 DEF Val
    <3>2. p.v = Stamp(us)
      <4>1. Val("TEXT", p.v).v = p.v /\ Val("TEXT", Stamp(us)).v = Stamp(us)
        BY DEF Val
      <4> QED BY <2>1, <3>1, <4>1
    <3>3. g = Clock(us)
      BY <1>4, <3>1
    <3> QED BY <3>2, <3>3
  <2> QED BY <2>2, <2>3
<1>11. CASE p.type = "[]byte"
  <2>1. m = Val("BLOB", p.v)
    BY <1>1, <1>5, <1>11 DEF BoundTo
  <2>2. p = Val("[]byte", p.v) /\ p.v \in Seq(Nat)
    BY <1>11
  <2>3. CASE c = m
    <3>1. c.type = "BLOB" /\ c.v = p.v
      BY <2>1, <2>3 DEF Val
    <3>2. g = Val("[]byte", p.v) \/ (p.v = << >> /\ g.type = "nil")
      BY <3>1, AnyOf DEF Val
    <3> QED BY <1>11, <2>2, <3>2 DEF SameValue
  <2>4. CASE c # m
    <3>1. c = Val("TEXT", Rendered(Val("BLOB", p.v)))
      BY <1>2, <2>1, <2>4 DEF Val
    <3> DEFINE hex == Rendered(Val("BLOB", p.v))
    <3>2. hex \in Seq(Nat) /\ NoNUL(hex)
      <4>1. p.v \in Seq(Int)
        BY <2>2, SeqMonotonic
      <4>2. "BLOB" \in DOMAIN Mark
        BY DEF Mark
      <4> QED BY <4>1, <4>2, RenderedText
    <3> HIDE DEF hex
    <3>3. c.type = "TEXT" /\ c.v = hex
      BY <3>1 DEF Val, hex
    <3>4. g = Val("string", hex)
      <4>1. CString(hex) = hex
        BY <3>2, CStringOf
      <4>2. g = Val("string", CString(c.v))
        BY <3>3, AnyOf
      <4> QED BY <3>3, <4>1, <4>2
    <3> QED BY <1>11, <3>4 DEF SameValue, hex
  <2> QED BY <2>3, <2>4
<1>12. CASE p.type = "[]float32"
  <2>1. m = Val("VECTOR", p.v)
    BY <1>1, <1>5, <1>12 DEF BoundTo
  <2>2. c.type = "VECTOR" /\ c = Val("VECTOR", p.v)
    BY <1>3, <2>1 DEF Val
  <2>3. g = Val("string", Rendered(Val("VECTOR", p.v)))
    BY <2>2, AnyOf
  <2> QED BY <1>12, <2>3 DEF SameValue
<1>13. CASE p.type = "time.Time"
  <2> DEFINE q == p.v[1] \div Ticks
  <2>1. q \in Int /\ m = Val("TEXT", Stamp(q)) /\ p.v[1] \in Int
    BY <1>1, <1>13, ImageBound DEF m
  <2>2. Ticks * q = p.v[1] - (p.v[1] % Ticks)
    <3>1. Ticks \in Nat \ {0}
      BY WidthTypes
    <3> QED BY <2>1, <3>1, Division
  <2> HIDE DEF q
  <2>3. CASE c = m
    <3>1. c.type = "TEXT" /\ c.v = Stamp(q)
      BY <2>1, <2>3 DEF Val
    <3>2. CString(Stamp(q)) = Stamp(q)
      BY <2>1, Stamps, CStringOf
    <3>3. g = Val("string", Stamp(q))
      BY <3>1, <3>2, AnyOf
    <3> QED BY <1>13, <3>3 DEF SameValue, q
  <2>4. CASE c # m
    <3>1. PICK us \in Int64s, ts \in {"TIMESTAMP", "TIMESTAMPTZ"} :
             m = Val("TEXT", Stamp(us)) /\ c = Val(ts, <<us>>)
      BY <1>2, <2>1, <2>4 DEF Val
    <3>2. us = q
      <4>1. Stamp(us) = Stamp(q) /\ us \in Int
        BY <2>1, <3>1, WidthTypes DEF Val, Int64s
      <4> QED BY <2>1, <4>1, Stamps
    <3>3. g = Val("time.Time", <<p.v[1] - (p.v[1] % Ticks), 0>>)
      BY <1>4, <2>2, <3>1, <3>2 DEF Clock
    <3> QED BY <1>13, <3>3 DEF SameValue
  <2> QED BY <2>3, <2>4
<1>14. p.type \notin {"struct", "sql.NamedArg"}
  BY <1>1, <1>5 DEF BoundTo
<1> QED BY <1>6, <1>7, <1>8, <1>9, <1>10, <1>11, <1>12, <1>13, <1>14
-----------------------------------------------------------------------------
(* Statements.  A row is a row of columns, the driver's statement holds    *)
(* what may be bound, and what a Scan has delivered comes from the row,    *)
(* which is not written while the Rows is open.                            *)
Typed ==
  /\ api \in {"native", "driver", "catalog"}
  /\ slots \in [1..Params -> Columns \cup {Unbound}]
  /\ row \in [1..Params -> Columns]
  /\ given = Literal \/ given \in ArgLists
  /\ tables \in SUBSET Tables

Delivered ==
  /\ Len(read.got) \in 0..Params /\ DOMAIN read.got = 1..Len(read.got)
  /\ read.ok => Len(read.got) = Params
  /\ \A i \in DOMAIN read.got :
       read.got[i] # Refused /\ read.got[i] \in ScanColumn(row[i], read.dests[i])
  /\ read # NothingRead /\ ~read.ok /\ Len(read.dests) = Params =>
       LET i == Len(read.got) + 1
       IN i \in 1..Params /\ Refused \in ScanColumn(row[i], read.dests[i])

StatementInv == Typed /\ OwnParams /\ Delivered

LEMMA InputTypes ==
  /\ Params \in Nat /\ ArgLists \subseteq Seq(GoValues)
  /\ Cells \subseteq [1..Params -> Columns] /\ Tables \subseteq TableSpecs
BY Inputs

(* A statement that was reset holds exactly the arguments of its call.     *)
LEMMA Bound ==
  ASSUME NEW args \in Seq(GoValues), NEW s \in BindParams(Fresh, args)
  PROVE  /\ s.slots \in [1..Params -> Columns \cup {Unbound}]
         /\ s.ok => /\ Len(args) <= Params
                    /\ \A i \in 1..Params :
                         s.slots[i] = IF i \in DOMAIN args THEN Image(api, args[i]) ELSE Unbound
<1> DEFINE image == [i \in DOMAIN args |-> Image(api, args[i])]
           Stops(n) == /\ n <= Len(args) => image[n] = Refused \/ n > Params
                       /\ \A i \in 1..(n - 1) : image[i] # Refused /\ i <= Params
           stop == CHOOSE n \in 1..(Len(args) + 1) : Stops(n)
<1>1. Len(args) \in Nat /\ DOMAIN args = 1..Len(args) /\ Params \in Nat
  BY InputTypes
<1>2. \A i \in DOMAIN args : image[i] = Image(api, args[i]) /\ image[i] \in Columns \cup {Refused}
  BY ImageBound
<1> HIDE DEF image
<1>3. stop \in 1..(Len(args) + 1) /\ Stops(stop)
  <2> DEFINE T == {n \in 1..(Len(args) + 1) :
                     n <= Len(args) => image[n] = Refused \/ n > Params}
  <2>1. T \in SUBSET Nat /\ Len(args) + 1 \in T
    BY <1>1
  <2>2. PICK m \in T : \A k \in T : m <= k
    <3>1. T # {}
      BY <2>1
    <3> HIDE DEF T
    <3> QED BY <2>1, <3>1, Smallest
  <2>3. ASSUME NEW i \in 1..(m - 1)
        PROVE  image[i] # Refused /\ i <= Params
    <3>1. i \in Nat /\ m \in 1..(Len(args) + 1) /\ i < m
      BY <1>1, <2>2
    <3>2. i \notin T
      BY <2>2, <3>1
    <3> QED BY <1>1, <3>1, <3>2
  <2>4. m \in 1..(Len(args) + 1) /\ Stops(m)
    BY <2>2, <2>3
  <2> HIDE DEF Stops
  <2> QED BY <2>4
<1>4. PICK n \in 1..stop :
        s = [ok |-> n > Len(args),
             slots |-> [i \in 1..Params |-> IF i < n THEN image[i] ELSE Fresh[i]]]
  BY DEF BindParams, image
<1> HIDE DEF stop
<1>5. n \in 1..(Len(args) + 1) /\ n <= stop /\ n \in Nat /\ stop \in Nat
  BY <1>1, <1>3
<1>6. \A i \in 1..Params : i < n =>
         i \in DOMAIN args /\ image[i] \in Columns /\ image[i] = Image(api, args[i])
  BY <1>1, <1>2, <1>3, <1>5
<1>7. \A i \in 1..Params : s.slots[i] = IF i < n THEN image[i] ELSE Unbound
  BY <1>4 DEF Fresh
<1>8. s.slots \in [1..Params -> Columns \cup {Unbound}]
  <2>1. s.slots = [i \in 1..Params |-> s.slots[i]]
    BY <1>4
  <2>2. \A i \in 1..Params : s.slots[i] \in Columns \cup {Unbound}
    BY <1>6, <1>7
  <2> QED BY <2>1, <2>2
<1>9. ASSUME s.ok
      PROVE  /\ Len(args) <= Params
             /\ \A i \in 1..Params :
                  s.slots[i] = IF i \in DOMAIN args THEN Image(api, args[i]) ELSE Unbound
  <2>1. n = Len(args) + 1 /\ stop = n
    <3>1. s.ok = (n > Len(args))
      BY <1>4, Zenon
    <3>2. n > Len(args)
      BY <1>9, <3>1, Zenon
    <3>3. stop \in 1..(Len(args) + 1)
      BY <1>3
    <3> QED BY <1>1, <1>5, <3>2, <3>3
  <2>2. Len(args) <= Params
    <3>1. CASE Len(args) = 0
      BY <1>1, <3>1
    <3>2. CASE Len(args) # 0
      <4>1. Len(args) \in 1..(stop - 1)
        BY <1>1, <2>1, <3>2
      <4> QED BY <1>3, <4>1
    <3> QED BY <3>1, <3>2
  <2>3. \A i \in 1..Params : i < n <=> i \in DOMAIN args
    BY <1>1, <2>1
  <2> QED BY <1>6, <1>7, <2>2, <2>3
<1> QED BY <1>8, <1>9

LEMMA StoredColumn ==
  ASSUME NEW v \in Columns \cup {Unbound}, NEW c \in Stored(v)
  PROVE  c \in Columns
<1>1. CASE v = Unbound
  BY <1>1, IsColumn DEF Stored
<1>2. CASE v # Unbound
  <2>1. \/ c = v
        \/ v.type = "BLOB" /\ c = Val("TEXT", Rendered(v))
        \/ \E us \in Int64s, ts \in {"TIMESTAMP", "TIMESTAMPTZ"} : c = Val(ts, <<us>>)
    BY <1>2, StoredAs
  <2>2. \A us \in Int64s : \A ts \in {"TIMESTAMP", "TIMESTAMPTZ"} : Val(ts, <<us>>) \in Columns
    BY IsColumn
  <2>3. ASSUME v.type = "BLOB"
        PROVE  Val("TEXT", Rendered(v)) \in Columns
    <3>1. v = Val("BLOB", v.v) /\ v.v \in Seq(Int)
      BY <1>2, <2>3, ColumnTypes
    <3>2. "BLOB" \in DOMAIN Mark
      BY DEF Mark
    <3>3. Rendered(Val("BLOB", v.v)) \in Seq(Nat)
      BY <3>1, <3>2, RenderedText
    <3> QED BY <3>1, <3>3, IsColumn
  <2> QED BY <1>2, <2>1, <2>2, <2>3
<1> QED BY <1>1, <1>2

LEMMA ExecStep ==
  ASSUME StatementInv, NEW args \in ArgLists, NEW s \in BindParams(Fresh, args),
         Run(s, args), slots' \in {slots, s.slots}
  PROVE  StatementInv'
<1>1. args \in Seq(GoValues)
  BY InputTypes
<1>2. /\ s.slots \in [1..Params -> Columns \cup {Unbound}]
      /\ s.ok => /\ Len(args) <= Params
                 /\ \A i \in 1..Params :
                      s.slots[i] = IF i \in DOMAIN args THEN Image(api, args[i]) ELSE Unbound
  BY <1>1, Bound
<1>3. /\ read = NothingRead /\ api' = api /\ read' = read /\ tables' = tables
      /\ \/ s.ok /\ Update(s.slots, args)
         \/ row' = row /\ given' = given
  BY DEF Run
<1>4. Delivered'
  <2>1. read' = NothingRead /\ read'.got = << >> /\ read'.ok = FALSE
    BY <1>3 DEF NothingRead
  <2>2. Params \in Nat /\ Len(<< >>) = 0 /\ DOMAIN << >> = 1..0
    BY InputTypes
  <2> QED BY <2>1, <2>2 DEF Delivered
<1>5. CASE row' = row /\ given' = given
  BY <1>2, <1>3, <1>4, <1>5 DEF StatementInv, Typed, OwnParams
<1>6. CASE /\ s.ok /\ given' = args
           /\ row' \in {r \in [1..Params -> UNION {Stored(s.slots[i]) : i \in 1..Params}] :
                          \A i \in 1..Params : r[i] \in Stored(s.slots[i])}
  <2>1. /\ row' = [i \in 1..Params |-> row'[i]]
        /\ \A i \in 1..Params : row'[i] \in Stored(s.slots[i])
    BY <1>6
  <2>2. row' \in [1..Params -> Columns]
    <3>1. \A i \in 1..Params : row'[i] \in Columns
      BY <1>2, <2>1, StoredColumn
    <3> QED BY <2>1, <3>1
  <2>3. Typed'
    BY <1>2, <1>3, <1>6, <2>2 DEF StatementInv, Typed
  <2>4. OwnParams'
    BY <1>2, <1>3, <1>6, <2>1 DEF OwnParams
  <2> QED BY <1>4, <2>3, <2>4 DEF StatementInv
<1> QED BY <1>3, <1>5, <1>6 DEF Update

(* Reading leaves the statement alone, and delivers the row's columns.     *)
LEMMA ScanStep ==
  ASSUME StatementInv, NEW dests, Scan(dests)
  PROVE  StatementInv'
<1>1. Params \in Nat
  BY InputTypes
<1>2. UNCHANGED <<api, slots, row, given, tables>>
  BY DEF Scan
<1>3. Typed' /\ OwnParams'
  BY <1>2 DEF StatementInv, Typed, OwnParams
<1>4. CASE Len(dests) # Params
  <2>1. read'.got = << >> /\ read'.ok = FALSE /\ read'.dests = dests
    BY <1>4 DEF Scan
  <2>2. Len(<< >>) = 0 /\ DOMAIN << >> = 1..0
    OBVIOUS
  <2>3. Delivered'
    BY <1>1, <1>4, <2>1, <2>2 DEF Delivered
  <2> QED BY <1>3, <2>3 DEF StatementInv
<1>5. CASE Len(dests) = Params
  <2>1. PICK n \in 0..Params :
          \E got \in [1..n -> (UNION {ScanColumn(row[i], dests[i]) : i \in 1..n}) \ {Refused}] :
            /\ \A i \in 1..n : got[i] \in ScanColumn(row[i], dests[i])
            /\ n < Params => Refused \in ScanColumn(row[n + 1], dests[n + 1])
            /\ read' = [ok |-> n = Params, dests |-> dests, got |-> got]
    BY <1>5 DEF Scan
  <2>2. PICK got \in [1..n -> (UNION {ScanColumn(row[i], dests[i]) : i \in 1..n}) \ {Refused}] :
          /\ \A i \in 1..n : got[i] \in ScanColumn(row[i], dests[i])
          /\ n < Params => Refused \in ScanColumn(row[n + 1], dests[n + 1])
          /\ read' = [ok |-> n = Params, dests |-> dests, got |-> got]
    BY <2>1
  <2> DEFINE S == (UNION {ScanColumn(row[i], dests[i]) : i \in 1..n}) \ {Refused}
  <2>3. got \in [1..n -> S] /\ \A i \in 1..n : got[i] # Refused
    BY <2>2
  <2> HIDE DEF S
  <2>4. n \in Nat /\ Len(got) = n /\ DOMAIN got = 1..n
    BY <1>1, <2>3
  <2>5. read'.got = got /\ read'.dests = dests /\ (read'.ok <=> n = Params)
    BY <2>2
  <2>6. Len(got) \in 0..Params
    BY <2>4
  <2>8. ~read'.ok => LET i == Len(read'.got) + 1
                     IN i \in 1..Params /\ Refused \in ScanColumn(row'[i], read'.dests[i])
    <3>1. ~read'.ok => n < Params /\ n + 1 \in 1..Params
      BY <1>1, <2>4, <2>5
    <3>2. n < Params => Refused \in ScanColumn(row'[n + 1], read'.dests[n + 1])
      BY <1>2, <2>2, <2>5
    <3> QED BY <2>4, <2>5, <3>1, <3>2
  <2>7. Delivered'
    <3>1. \A i \in 1..n : got[i] # Refused /\ got[i] \in ScanColumn(row'[i], read'.dests[i])
      BY <1>2, <2>2, <2>3, <2>5
    <3> HIDE DEF ScanColumn
    <3> QED BY <2>4, <2>5, <2>6, <2>8, <3>1 DEF Delivered
  <2> QED BY <1>3, <2>7 DEF StatementInv
<1> QED BY <1>4, <1>5

LEMMA DriverNextStep ==
  ASSUME StatementInv, DriverNext
  PROVE  StatementInv'
<1>1. Params \in Nat /\ UNCHANGED <<api, slots, row, given, tables>>
  BY InputTypes DEF DriverNext
<1>2. Typed' /\ OwnParams'
  BY <1>1 DEF StatementInv, Typed, OwnParams
<1>3. PICK got \in [1..Params -> UNION {ColumnToAny(row[i]) : i \in 1..Params}] :
        /\ \A i \in 1..Params : got[i] \in ColumnToAny(row[i])
        /\ read' = [ok |-> TRUE, dests |-> [i \in 1..Params |-> "any"], got |-> got]
  BY DEF DriverNext
<1> DEFINE S == UNION {ColumnToAny(row[i]) : i \in 1..Params}
<1>4. got \in [1..Params -> S]
  BY <1>3
<1> HIDE DEF S
<1>5. Len(got) = Params /\ DOMAIN got = 1..Params
  BY <1>1, <1>4
<1>6. ASSUME NEW i \in 1..Params
      PROVE  got[i] # Refused /\ got[i] \in ScanColumn(row[i], "any")
  <2>1. row[i] \in Columns /\ got[i] \in ColumnToAny(row[i])
    BY <1>3 DEF StatementInv, Typed
  <2>2. row[i] = Null => ScanColumn(row[i], "any") = {Val("nil", << >>)}
    BY DEF ScanColumn, Dests, Zero
  <2>3. row[i] # Null => ScanColumn(row[i], "any") = ColumnToAny(row[i])
    BY DEF ScanColumn, Dests
  <2>4. row[i] = Null => got[i] = Val("nil", << >>)
    BY <2>1, AnyOf DEF Null, Val
  <2> QED BY <2>1, <2>2, <2>3, <2>4, AnyOf
<1>7. /\ read'.got = got /\ read'.ok = TRUE
      /\ \A i \in 1..Params : read'.dests[i] = "any"
  BY <1>3
<1>8. Delivered'
  <2>1. \A i \in DOMAIN got : got[i] # Refused /\ got[i] \in ScanColumn(row'[i], read'.dests[i])
    BY <1>1, <1>5, <1>6, <1>7
  <2>2. Len(got) \in 0..Params
    BY <1>1, <1>5
  <2> HIDE DEF ScanColumn
  <2> QED BY <1>5, <1>7, <2>1, <2>2 DEF Delivered
<1> QED BY <1>2, <1>8 DEF StatementInv

LEMMA StatementStep ==
  ASSUME StatementInv, [Next]_vars
  PROVE  StatementInv'
<1>1. ASSUME NEW args \in ArgLists, NativeExec(args)
      PROVE  StatementInv'
  BY <1>1, ExecStep DEF NativeExec
<1>2. ASSUME NEW args \in ArgLists, DriverExec(args)
      PROVE  StatementInv'
  BY <1>2, ExecStep DEF DriverExec
<1>3. ASSUME NEW cells \in Cells, SqlWrites(cells)
      PROVE  StatementInv'
  <2>1. /\ row' = cells /\ cells \in [1..Params -> Columns] /\ given' = Literal
        /\ api' = api /\ slots' = slots /\ tables' = tables
        /\ read' = read /\ read = NothingRead
    BY <1>3, InputTypes DEF SqlWrites
  <2>2. Typed' /\ OwnParams'
    BY <2>1 DEF StatementInv, Typed, OwnParams
  <2>3. read' = NothingRead /\ read'.got = << >> /\ read'.ok = FALSE
    BY <2>1 DEF NothingRead
  <2>4. Params \in Nat /\ Len(<< >>) = 0 /\ DOMAIN << >> = 1..0
    BY InputTypes
  <2>5. Delivered'
    BY <2>3, <2>4 DEF Delivered
  <2> QED BY <2>2, <2>5 DEF StatementInv
<1>4. ASSUME NEW dests \in DestLists, Scan(dests)
      PROVE  StatementInv'
  BY <1>4, ScanStep
<1>5. CASE DriverNext
  BY <1>5, DriverNextStep
<1>6. CASE RowsClose
  <2>1. UNCHANGED <<api, slots, row, given, tables>>
    BY <1>6 DEF RowsClose
  <2>2. read' = NothingRead /\ read'.got = << >> /\ read'.ok = FALSE
    BY <1>6 DEF RowsClose, NothingRead
  <2>3. Params \in Nat /\ Len(<< >>) = 0 /\ DOMAIN << >> = 1..0
    BY InputTypes
  <2>4. Delivered'
    BY <2>2, <2>3 DEF Delivered
  <2> QED BY <2>1, <2>4 DEF StatementInv, Typed, OwnParams
<1>7. ASSUME UNCHANGED <<api, slots, row, given, read>>, tables' \in SUBSET Tables
      PROVE  StatementInv'
  BY <1>7 DEF StatementInv, Typed, OwnParams, Delivered
<1>8. ASSUME NEW t \in Tables, CreateTable(t) \/ DropTable(t)
      PROVE  StatementInv'
  BY <1>7, <1>8 DEF CreateTable, DropTable, StatementInv, Typed
<1>9. CASE ListTables
  BY <1>7, <1>9 DEF ListTables, StatementInv, Typed
<1>10. ASSUME NEW name \in Lookups, TableInfo(name)
       PROVE  StatementInv'
  BY <1>7, <1>10 DEF TableInfo, StatementInv, Typed
<1>11. CASE UNCHANGED vars
  BY <1>7, <1>11 DEF vars, StatementInv, Typed
<1> QED
  BY <1>1, <1>2, <1>3, <1>4, <1>5, <1>6, <1>8, <1>9, <1>10, <1>11 DEF Next

LEMMA StatementInit ==
  ASSUME Init
  PROVE  StatementInv
<1>1. Params \in Nat /\ Len(<< >>) = 0 /\ DOMAIN << >> = 1..0
  BY InputTypes
<1>2. read = NothingRead /\ read.got = << >> /\ read.ok = FALSE
  BY DEF Init, NothingRead
<1>3. Delivered
  BY <1>1, <1>2 DEF Delivered
<1>4. Typed
  <2>1. slots \in [1..Params -> Columns \cup {Unbound}]
    BY DEF Init, Fresh
  <2>2. row \in [1..Params -> Columns]
    BY IsColumn DEF Init
  <2> QED BY <2>1, <2>2 DEF Init, Typed
<1>5. OwnParams
  BY DEF Init, OwnParams
<1> QED BY <1>3, <1>4, <1>5 DEF StatementInv

LEMMA Statements == Spec => []StatementInv
<1>1. Init => StatementInv
  BY StatementInit
<1>2. StatementInv /\ [Next]_vars => StatementInv'
  BY StatementStep
<1> QED BY <1>1, <1>2, PTL DEF Spec

(* Every value bound, stored or read is one the code can produce.          *)
THEOREM TypeCorrect == Spec => []TypeOK
<1>1. ASSUME StatementInv
      PROVE  TypeOK
  <2>1. \A i \in 1..Params : slots[i] \in Columns \cup {Unbound} /\ row[i] \in Columns
    BY <1>1 DEF StatementInv, Typed
  <2>2. ASSUME NEW c \in Columns
        PROVE  /\ c.type \in Types \ {"unbound", "refused"}
               /\ c.type = "INT" => c.v[1] \in Int64s
    BY ColumnTypes DEF Types, Temporal
  <2>3. Unbound.type \in Types \ {"refused"}
    BY DEF Unbound, Val, Types, Temporal
  <2>4. \A i \in 1..Params : slots[i].type \in Types \ {"refused"}
    BY <2>1, <2>2, <2>3
  <2>5. Len(read.got) <= Params
    BY <1>1, InputTypes DEF StatementInv, Delivered
  <2> QED BY <1>1, <2>1, <2>2, <2>4, <2>5 DEF StatementInv, Typed, TypeOK
<1> QED BY <1>1, Statements, PTL

(* bindParams, resetAndBind: an UPDATE that runs has all of its own        *)
(* arguments and none of another statement's.                              *)
THEOREM StatementsOwnTheirParams == Spec => []OwnParams
<1>1. StatementInv => OwnParams
  BY DEF StatementInv
<1> QED BY <1>1, Statements, PTL

(* scanColumn and columnToAny deliver what the column holds.               *)
THEOREM ReadsFaithful == Spec => []ReadsAsStored
<1>1. ASSUME StatementInv
      PROVE  ReadsAsStored
  <2>1. ASSUME NEW i \in DOMAIN read.got
        PROVE  /\ read.dests[i] \in Documented /\ read.got[i] # Refused
               /\ Lossy(row[i], read.dests[i]) \/ Faithful(row[i], read.got[i])
    <3>1. i \in 1..Params
      BY <1>1, <2>1, InputTypes DEF StatementInv, Delivered
    <3>2. row[i] \in Columns
      BY <1>1, <3>1 DEF StatementInv, Typed
    <3>3. read.got[i] # Refused /\ read.got[i] \in ScanColumn(row[i], read.dests[i])
      BY <1>1, <2>1 DEF StatementInv, Delivered
    <3>4. /\ read.dests[i] \in Dests
          /\ Lossy(row[i], read.dests[i]) \/ Faithful(row[i], read.got[i])
      BY <3>2, <3>3, ScanFaithful
    <3> QED BY <3>3, <3>4 DEF Documented
  <2>2. ASSUME read # NothingRead, ~read.ok, Len(read.dests) = Params
        PROVE  LET i == Len(read.got) + 1
               IN i \in 1..Params /\ FailsAt(row[i], read.dests[i])
    <3> DEFINE k == Len(read.got) + 1
    <3>1. k \in 1..Params /\ Refused \in ScanColumn(row[k], read.dests[k])
      BY <1>1, <2>2 DEF StatementInv, Delivered
    <3> HIDE DEF k
    <3>2. row[k] \in Columns
      BY <1>1, <3>1 DEF StatementInv, Typed
    <3>3. FailsAt(row[k], read.dests[k])
      BY <3>1, <3>2, ScanRefuses
    <3> QED BY <3>1, <3>3 DEF k
  <2> QED BY <1>1, <2>1, <2>2 DEF StatementInv, Delivered, ReadsAsStored
<1> QED BY <1>1, Statements, PTL

(* bindOne, the driver's conversions and columnToAny together: a program   *)
(* gets back the values it stored.                                         *)
THEOREM ValuesRoundTrip == Spec => []RoundTrip
<1>1. ASSUME StatementInv
      PROVE  RoundTrip
  <2> SUFFICES ASSUME read.ok, given # Literal, NEW i \in DOMAIN given,
                      read.dests[i] = "any", Len(given[i].v) < 2 * Narrow
               PROVE  SameValue(given[i], read.got[i])
    BY DEF RoundTrip
  <2>1. given \in Seq(GoValues) /\ Len(given) <= Params /\ Params \in Nat
    BY <1>1, InputTypes DEF StatementInv, Typed, OwnParams
  <2>2. i \in 1..Params /\ given[i] \in GoValues
    BY <2>1
  <2>3. row[i] \in Columns /\ row[i] \in Stored(Image(api, given[i]))
    BY <1>1, <2>2 DEF StatementInv, Typed, OwnParams
  <2>4. read.got[i] \in ScanColumn(row[i], "any")
    BY <1>1, <2>2 DEF StatementInv, Delivered
  <2>5. read.got[i] \in ColumnToAny(row[i])
    <3>1. CASE row[i] = Null
      <4>1. read.got[i] = Val("nil", << >>)
        BY <2>4, <3>1 DEF ScanColumn, Dests, Zero
      <4>2. ColumnToAny(Null) = {Val("nil", << >>)}
        BY DEF ColumnToAny, Null, Val
      <4> QED BY <3>1, <4>1, <4>2
    <3>2. CASE row[i] # Null
      BY <2>4, <3>2 DEF ScanColumn, Dests
    <3> QED BY <3>1, <3>2
  <2> QED BY <2>2, <2>3, <2>5, ReadsBack
<1> QED BY <1>1, Statements, PTL
-----------------------------------------------------------------------------
(* The catalog as text.  Split adds one character at a time: to the last   *)
(* part, or as the start of another part.                                  *)
Texts == Seq(Nat)
SplitStep(parts, c, sep) ==
  IF c = sep THEN Append(parts, << >>) ELSE [parts EXCEPT ![Len(parts)] = Append(@, c)]

LEMMA SplitStepType ==
  ASSUME NEW parts \in Seq(Texts), parts # << >>, NEW c \in Nat, NEW sep
  PROVE  SplitStep(parts, c, sep) \in Seq(Texts) /\ SplitStep(parts, c, sep) # << >>
<1>1. << >> \in Texts
  BY DEF Texts
<1>2. CASE c = sep
  <2>1. Append(parts, << >>) \in Seq(Texts) /\ Append(parts, << >>) # << >>
    BY <1>1, AppendProperties
  <2> QED BY <1>2, <2>1 DEF SplitStep
<1>3. CASE c # sep
  <2>1. Len(parts) \in 1..Len(parts) /\ parts[Len(parts)] \in Texts
    BY EmptySeq
  <2>2. Append(parts[Len(parts)], c) \in Texts
    BY <2>1 DEF Texts
  <2>3. SplitStep(parts, c, sep) = [parts EXCEPT ![Len(parts)] = Append(parts[Len(parts)], c)]
    BY <1>3 DEF SplitStep
  <2>4. /\ SplitStep(parts, c, sep) \in Seq(Texts)
        /\ Len(SplitStep(parts, c, sep)) = Len(parts)
    BY <2>1, <2>2, <2>3, ExceptSeq
  <2>5. Len(parts) # 0
    BY <2>1
  <2> QED BY <2>4, <2>5
<1> QED BY <1>2, <1>3

LEMMA SplitFn ==
  ASSUME NEW s \in Texts, NEW sep
  PROVE  \E f \in [0..Len(s) -> Seq(Texts) \ {<< >>}] :
           /\ f[0] = << << >> >> /\ Split(s, sep) = f[Len(s)]
           /\ \A n \in 1..Len(s) : f[n] = SplitStep(f[n - 1], s[n], sep)
<1> DEFINE D == Seq(Texts) \ {<< >>}
           next == [n \in 1..Len(s) |-> [parts \in D |-> SplitStep(parts, s[n], sep)]]
           IsUpTo(g) == g = [n \in 0..Len(s) |->
                              IF n = 0 THEN << << >> >>
                              ELSE IF s[n] = sep THEN Append(g[n - 1], << >>)
                                   ELSE [g[n - 1] EXCEPT ![Len(g[n - 1])] = Append(@, s[n])]]
           upTo == CHOOSE g : IsUpTo(g)
<1>1. Len(s) \in Nat /\ \A n \in 1..Len(s) : s[n] \in Nat
  BY DEF Texts
<1>2. << << >> >> \in D
  BY DEF Texts
<1>3. next \in [1..Len(s) -> [D -> D]]
  BY <1>1, SplitStepType
<1>4. Split(s, sep) = upTo[Len(s)]
  BY DEF Split
<1>5. \E g : IsUpTo(g)
  <2>1. \A n \in 1..Len(s) : \A parts \in D : next[n][parts] = SplitStep(parts, s[n], sep)
    OBVIOUS
  <2> HIDE DEF D, next
  <2>2. PICK f \in [0..Len(s) -> D] :
          f[0] = << << >> >> /\ \A n \in 1..Len(s) : f[n] = next[n][f[n - 1]]
    <3> DEFINE k == Len(s)
               a == << << >> >>
    <3>1. k \in Nat /\ a \in D /\ next \in [1..k -> [D -> D]]
      BY <1>1, <1>2, <1>3
    <3> HIDE DEF k, a
    <3>2. \E f : Follows(f, D, a, k, next)
      BY <3>1, Recursion
    <3> QED BY <3>2 DEF k, a, Follows
  <2>3. ASSUME NEW n \in 1..Len(s)
        PROVE  f[n] = SplitStep(f[n - 1], s[n], sep)
    <3>1. n - 1 \in 0..Len(s)
      BY <1>1
    <3>2. f[n - 1] \in D
      BY <2>2, <3>1
    <3> QED BY <2>1, <2>2, <3>2
  <2>4. ASSUME NEW n \in 0..Len(s)
        PROVE  f[n] = IF n = 0 THEN << << >> >>
                      ELSE IF s[n] = sep THEN Append(f[n - 1], << >>)
                           ELSE [f[n - 1] EXCEPT ![Len(f[n - 1])] = Append(@, s[n])]
    <3>1. CASE n = 0
      BY <2>2, <3>1
    <3>2. CASE n # 0
      <4>1. n \in 1..Len(s)
        BY <1>1, <3>2
      <4> QED BY <2>3, <3>2, <4>1 DEF SplitStep
    <3> QED BY <3>1, <3>2
  <2>5. f = [n \in 0..Len(s) |-> f[n]]
    BY <2>2
  <2>6. IsUpTo(f)
    BY <2>4, <2>5, Zenon
  <2> QED BY <2>6
<1>6. IsUpTo(upTo)
  BY <1>5, Zenon
<1> HIDE DEF upTo
<1>7. DOMAIN upTo = 0..Len(s) /\ upTo[0] = << << >> >>
  BY <1>1, <1>6
<1>8. \A n \in 1..Len(s) : upTo[n] = SplitStep(upTo[n - 1], s[n], sep)
  <2> TAKE n \in 1..Len(s)
  <2>1. n \in 0..Len(s) /\ n # 0
    BY <1>1
  <2> QED BY <1>6, <2>1 DEF SplitStep
<1>9. \A n \in 0..Len(s) : upTo[n] \in D
  <2>1. ASSUME NEW n \in 1..Len(s), upTo[n - 1] \in D
        PROVE  upTo[n] \in D
    BY <1>1, <1>8, <2>1, SplitStepType
  <2> DEFINE T == {n \in Nat : n <= Len(s) => upTo[n] \in D}
  <2>2. 0 \in T
    BY <1>2, <1>7
  <2>3. ASSUME NEW n \in Nat, n \in T
        PROVE  n + 1 \in T
    <3> SUFFICES ASSUME n + 1 <= Len(s)
                 PROVE  upTo[n + 1] \in D
      OBVIOUS
    <3>1. n + 1 \in 1..Len(s) /\ (n + 1) - 1 = n /\ upTo[n] \in D
      BY <1>1, <2>3
    <3> QED BY <2>1, <3>1
  <2> HIDE DEF T
  <2>4. Nat \subseteq T
    BY <2>2, <2>3, NatSetInduction
  <2> QED BY <1>1, <2>4 DEF T
<1>10. upTo \in [0..Len(s) -> D]
  <2>1. upTo = [n \in 0..Len(s) |-> upTo[n]]
    BY <1>6, <1>7
  <2> QED BY <1>9, <2>1
<1> QED BY <1>4, <1>7, <1>8, <1>10

LEMMA SplitAppend ==
  ASSUME NEW s \in Texts, NEW c \in Nat, NEW sep
  PROVE  /\ Split(s, sep) \in Seq(Texts) /\ Split(s, sep) # << >>
         /\ Split(Append(s, c), sep) = SplitStep(Split(s, sep), c, sep)
<1> DEFINE u == Append(s, c)
<1>1. /\ u \in Texts /\ Len(u) = Len(s) + 1 /\ u[Len(s) + 1] = c /\ Len(s) \in Nat
      /\ \A n \in 1..Len(s) : u[n] = s[n]
  BY AppendProperties DEF Texts
<1> HIDE DEF u
<1>2. PICK f \in [0..Len(s) -> Seq(Texts) \ {<< >>}] :
        /\ f[0] = << << >> >> /\ Split(s, sep) = f[Len(s)]
        /\ \A n \in 1..Len(s) : f[n] = SplitStep(f[n - 1], s[n], sep)
  BY SplitFn
<1>3. PICK g \in [0..Len(u) -> Seq(Texts) \ {<< >>}] :
        /\ g[0] = << << >> >> /\ Split(u, sep) = g[Len(u)]
        /\ \A n \in 1..Len(u) : g[n] = SplitStep(g[n - 1], u[n], sep)
  BY <1>1, SplitFn
<1>4. f[Len(s)] = g[Len(s)]
  <2>1. \A n \in 1..Len(s) : n \in 1..Len(u) /\ u[n] = s[n]
    BY <1>1
  <2>2. Agree(f, g, Len(s))
    BY <1>2, <1>3, <2>1 DEF Agree
  <2> QED BY <1>1, <2>2, SameRecursion
<1>5. g[Len(s) + 1] = SplitStep(g[Len(s)], c, sep)
  <2>1. Len(s) + 1 \in 1..Len(u) /\ (Len(s) + 1) - 1 = Len(s)
    BY <1>1
  <2> QED BY <1>1, <1>3, <2>1
<1>6. f[Len(s)] \in Seq(Texts) /\ f[Len(s)] # << >>
  <2>1. Len(s) \in 0..Len(s)
    BY <1>1
  <2> QED BY <1>2, <2>1
<1>7. Split(u, sep) = SplitStep(Split(s, sep), c, sep)
  BY <1>1, <1>2, <1>3, <1>4, <1>5
<1> QED BY <1>2, <1>6, <1>7 DEF u

LEMMA SplitEmpty ==
  ASSUME NEW sep
  PROVE  Split(<< >>, sep) = << << >> >>
<1>1. << >> \in Texts /\ Len(<< >>) = 0
  BY DEF Texts
<1> QED BY <1>1, SplitFn

LEMMA ConcatAppend ==
  ASSUME NEW s \in Seq(Nat), NEW x \in Seq(Nat), NEW c \in Nat
  PROVE  s \o x \in Seq(Nat) /\ s \o Append(x, c) = Append(s \o x, c)
<1> DEFINE y == <<c>>
<1>1. y \in Seq(Nat) /\ s \o x \in Seq(Nat)
  OBVIOUS
<1>2. Append(x, c) = x \o y /\ Append(s \o x, c) = (s \o x) \o y
  BY <1>1, AppendIsConcat
<1> HIDE DEF y
<1>3. (s \o x) \o y = s \o (x \o y)
  BY <1>1
<1> QED BY <1>1, <1>2, <1>3

LEMMA ReplaceLast ==
  ASSUME NEW S, NEW parts \in Seq(S), NEW x \in S, NEW q \in S
  PROVE  [Append(parts, x) EXCEPT ![Len(parts) + 1] = q] = Append(parts, q)
<1> DEFINE n == Len(parts) + 1
           p == Append(parts, x)
           a == [p EXCEPT ![n] = q]
           b == Append(parts, q)
<1>1. /\ p \in Seq(S) /\ Len(p) = n /\ n \in 1..n
      /\ \A i \in 1..n : p[i] = IF i = n THEN x ELSE parts[i]
  BY AppendProperties
<1>2. b \in Seq(S) /\ Len(b) = n /\ \A i \in 1..n : b[i] = IF i = n THEN q ELSE parts[i]
  BY AppendProperties
<1> HIDE DEF p, b
<1>3. p = [i \in 1..n |-> p[i]] /\ b = [i \in 1..n |-> b[i]]
  <2>1. \A t \in Seq(S) : t = [i \in 1..Len(t) |-> t[i]]
    OBVIOUS
  <2> HIDE DEF n
  <2> QED BY <1>1, <1>2, <2>1
<1>4. a = [i \in 1..n |-> IF i = n THEN q ELSE p[i]]
  BY <1>1, <1>3
<1>5. \A i \in 1..n : b[i] = IF i = n THEN q ELSE p[i]
  BY <1>1, <1>2
<1> HIDE DEF n, a
<1>6. a = b
  BY <1>3, <1>4, <1>5
<1> QED BY <1>6 DEF a, b, n, p

(* A piece without separators goes to the last part as it is.              *)
Piece(t, sep) == t \in Texts /\ \A i \in 1..Len(t) : t[i] # sep
Parted(s, sep, parts, t) == Split(s \o t, sep) = Append(parts, t)

LEMMA SplitPiece ==
  ASSUME NEW s \in Texts, NEW sep \in Nat, NEW parts \in Seq(Texts),
         Split(s, sep) = Append(parts, << >>), NEW t, Piece(t, sep)
  PROVE  Parted(s, sep, parts, t)
<1>0. t \in Texts /\ \A i \in 1..Len(t) : t[i] # sep
  BY DEF Piece
<1> DEFINE upTo(m) == SubSeq(t, 1, m)
           S == {m \in Nat : m <= Len(t) => Split(s \o upTo(m), sep) = Append(parts, upTo(m))}
<1>1. 0 \in S
  <2>1. upTo(0) = << >> /\ s \o << >> = s
    BY <1>0 DEF Texts
  <2> QED BY <2>1
<1>2. ASSUME NEW m \in Nat, m \in S
      PROVE  m + 1 \in S
  <2> SUFFICES ASSUME m + 1 <= Len(t)
               PROVE  Split(s \o upTo(m + 1), sep) = Append(parts, upTo(m + 1))
    OBVIOUS
  <2> DEFINE x == upTo(m)
             c == t[m + 1]
  <2>1. x \in Texts /\ c \in Nat /\ c # sep /\ upTo(m + 1) = Append(x, c)
    <3>1. Len(t) \in Nat /\ t \in Seq(Nat)
      BY <1>0 DEF Texts
    <3>2. m + 1 \in 1..Len(t)
      BY <3>1
    <3>3. c \in Nat /\ c # sep
      BY <1>0, <3>1, <3>2
    <3>4. x \in Seq(Nat) /\ Len(x) = m /\ \A i \in 1..m : x[i] = t[i]
      BY <3>1, <3>2
    <3>5. SubSeq(t, 1, m + 1) = Append(SubSeq(t, 1, m), t[m + 1])
      BY <3>1, <3>2
    <3> QED BY <3>3, <3>4, <3>5 DEF Texts
  <2>2. Split(s \o x, sep) = Append(parts, x)
    BY <1>2, <2>1
  <2> HIDE DEF x, c
  <2>3. s \o x \in Texts /\ s \o Append(x, c) = Append(s \o x, c)
    <3>1. s \in Seq(Nat) /\ x \in Seq(Nat) /\ c \in Nat
      BY <2>1 DEF Texts
    <3>2. s \o x \in Seq(Nat) /\ s \o Append(x, c) = Append(s \o x, c)
      BY <3>1, ConcatAppend
    <3> QED BY <3>2 DEF Texts
  <2>4. Split(Append(s \o x, c), sep) = SplitStep(Append(parts, x), c, sep)
    <3> DEFINE u == s \o x
    <3>1. u \in Texts /\ Split(u, sep) = Append(parts, x)
      BY <2>2, <2>3
    <3> HIDE DEF u
    <3>2. Split(Append(u, c), sep) = SplitStep(Split(u, sep), c, sep)
      BY <2>1, <3>1, SplitAppend, Zenon
    <3> QED BY <3>1, <3>2 DEF u
  <2>5. SplitStep(Append(parts, x), c, sep) = Append(parts, Append(x, c))
    <3> DEFINE p == Append(parts, x)
               n == Len(parts) + 1
               q == Append(x, c)
    <3>1. p \in Seq(Texts) /\ Len(p) = n /\ p[n] = x /\ n \in Nat /\ q \in Texts
      BY <2>1, AppendProperties DEF Texts
    <3>2. SplitStep(p, c, sep) = [p EXCEPT ![n] = q]
      BY <2>1, <3>1 DEF SplitStep
    <3> HIDE DEF q
    <3>3. [p EXCEPT ![n] = q] = Append(parts, q)
      BY <2>1, <3>1, ReplaceLast
    <3> QED BY <3>2, <3>3 DEF q
  <2> QED BY <2>1, <2>3, <2>4, <2>5
<1> HIDE DEF S
<1>3. Nat \subseteq S
  BY <1>1, <1>2, NatSetInduction
<1>4. Len(t) \in Nat /\ upTo(Len(t)) = t
  BY <1>0 DEF Texts
<1>5. Len(t) \in S
  BY <1>3, <1>4
<1>6. Split(s \o upTo(Len(t)), sep) = Append(parts, upTo(Len(t)))
  BY <1>4, <1>5 DEF S
<1> QED BY <1>4, <1>6 DEF Parted

LEMMA SplitLast ==
  ASSUME NEW sep \in Nat, NEW t \in Texts, \A i \in 1..Len(t) : t[i] # sep
  PROVE  /\ Split(t, sep) = <<t>>
         /\ \A s \in Texts : Split((s \o <<sep>>) \o t, sep) = Append(Split(s, sep), t)
<1>0. Piece(t, sep)
  BY DEF Piece
<1>1. Split(t, sep) = <<t>>
  <2> DEFINE e == << >>
  <2>1. e \in Texts /\ e \in Seq(Texts) /\ Split(e, sep) = Append(e, << >>)
    BY SplitEmpty DEF Texts
  <2> HIDE DEF e
  <2>2. Parted(e, sep, e, t)
    BY <1>0, <2>1, SplitPiece
  <2>3. << >> \o t = t /\ Append(<< >>, t) = <<t>>
    BY DEF Texts
  <2> QED BY <2>2, <2>3 DEF e, Parted
<1>2. ASSUME NEW s \in Texts
      PROVE  Split((s \o <<sep>>) \o t, sep) = Append(Split(s, sep), t)
  <2> DEFINE w == s \o <<sep>>
  <2>1. w \in Texts /\ w = Append(s, sep)
    BY AppendIsConcat DEF Texts
  <2>2. Split(w, sep) = Append(Split(s, sep), << >>) /\ Split(s, sep) \in Seq(Texts)
    BY <2>1, SplitAppend DEF SplitStep
  <2> HIDE DEF w
  <2>3. Parted(w, sep, Split(s, sep), t)
    BY <1>0, <2>1, <2>2, SplitPiece
  <2> QED BY <2>3 DEF w, Parted
<1> QED BY <1>1, <1>2

LEMMA JoinedFn ==
  ASSUME NEW lines \in Seq(Texts)
  PROVE  \E f \in [0..Len(lines) -> Texts] :
           /\ f[0] = << >> /\ Joined(lines) = f[Len(lines)]
           /\ \A n \in 1..Len(lines) : f[n] = f[n - 1] \o lines[n] \o <<NL>>
<1> DEFINE D == Texts
           k == Len(lines)
           a == << >>
           next == [n \in 1..k |-> [t \in D |-> t \o lines[n] \o <<NL>>]]
           IsFirst(g) == g = [n \in 0..Len(lines) |->
                                IF n = 0 THEN << >> ELSE g[n - 1] \o lines[n] \o <<NL>>]
           first == CHOOSE g : IsFirst(g)
<1>1. k \in Nat /\ \A n \in 1..k : lines[n] \in D
  OBVIOUS
<1>2. a \in D
  BY DEF Texts
<1>3. ASSUME NEW t \in D, NEW l \in D
      PROVE  t \o l \o <<NL>> \in D
  BY <1>3 DEF Texts, NL
<1>4. next \in [1..k -> [D -> D]] /\ \A n \in 1..k : \A t \in D : next[n][t] = t \o lines[n] \o <<NL>>
  BY <1>1, <1>3
<1> HIDE DEF D, k, a, next
<1>5. \E f : Follows(f, D, a, k, next)
  BY <1>1, <1>2, <1>4, Recursion
<1>6. PICK f : f \in [0..k -> D] /\ f[0] = a /\ \A n \in 1..k : f[n] = next[n][f[n - 1]]
  BY <1>5 DEF Follows
<1>7. ASSUME NEW n \in 1..k
      PROVE  f[n] = f[n - 1] \o lines[n] \o <<NL>>
  <2>1. n - 1 \in 0..k
    BY <1>1
  <2>2. f[n - 1] \in D
    BY <1>6, <2>1
  <2> QED BY <1>4, <1>6, <2>2
<1>8. IsFirst(f)
  <2>1. ASSUME NEW n \in 0..k
        PROVE  f[n] = IF n = 0 THEN << >> ELSE f[n - 1] \o lines[n] \o <<NL>>
    <3>1. CASE n = 0
      BY <1>6, <3>1 DEF a
    <3>2. CASE n # 0
      <4>1. n \in 1..k
        BY <1>1, <3>2
      <4> QED BY <1>7, <3>2, <4>1
    <3> QED BY <3>1, <3>2
  <2>2. f = [n \in 0..k |-> f[n]]
    BY <1>6
  <2>3. f = [n \in 0..k |-> IF n = 0 THEN << >> ELSE f[n - 1] \o lines[n] \o <<NL>>]
    BY <2>1, <2>2, Zenon
  <2> QED BY <2>3 DEF k
<1>9. IsFirst(first)
  BY <1>8, Zenon
<1>10. Joined(lines) = first[Len(lines)]
  BY DEF Joined
<1> HIDE DEF first
<1>11. first[k] = f[k]
  <2>1. first[0] = << >>
    BY <1>1, <1>9 DEF k
  <2>2. \A n \in 1..k : first[n] = first[n - 1] \o lines[n] \o <<NL>>
    <3> TAKE n \in 1..k
    <3>1. n \in 0..Len(lines) /\ n # 0
      BY <1>1 DEF k
    <3> QED BY <1>9, <3>1
  <2>3. Agree(first, f, k)
    BY <1>6, <1>7, <2>1, <2>2 DEF Agree, a
  <2> QED BY <1>1, <2>3, SameRecursion
<1> QED BY <1>6, <1>7, <1>10, <1>11 DEF D, k, a

LEMMA Trimmed ==
  ASSUME NEW w \in Texts, w # << >>, w[Len(w)] # NL
  PROVE  TrimRight(w \o <<NL>>, NL) = w
<1> DEFINE s == w \o <<NL>>
           m == Len(w)
           Cut(n) == (\A i \in (n + 1)..Len(s) : s[i] = NL) /\ (n > 0 => s[n] # NL)
<1>1. /\ s \in Seq(Nat) /\ m \in Nat /\ m > 0 /\ Len(s) = m + 1 /\ s[m + 1] = NL
      /\ \A i \in 1..m : s[i] = w[i]
  <2>1. w \in Seq(Nat) /\ <<NL>> \in Seq(Nat) /\ Len(<<NL>>) = 1 /\ <<NL>>[1] = NL
    BY DEF Texts, NL
  <2>2. m \in Nat /\ m # 0
    BY <2>1, EmptySeq
  <2>3. /\ s \in Seq(Nat) /\ Len(s) = m + Len(<<NL>>)
        /\ \A i \in 1..(m + Len(<<NL>>)) : s[i] = IF i <= m THEN w[i] ELSE <<NL>>[i - m]
    BY <2>1, ConcatProperties
  <2> QED BY <2>1, <2>2, <2>3
<1>2. SubSeq(s, 1, m) = w
  <2>1. w \in Seq(Nat)
    BY DEF Texts
  <2> HIDE DEF s
  <2>2. SubSeq(s, 1, m) = [i \in 1..m |-> s[i]] /\ w = [i \in 1..m |-> w[i]]
    BY <1>1, <2>1
  <2> QED BY <1>1, <2>2
<1> HIDE DEF s
<1>3. Cut(m) /\ m \in 0..Len(s) /\ \A n \in 0..Len(s) : Cut(n) => n = m
  <2> HIDE DEF m
  <2>1. s[m] # NL
    BY <1>1 DEF m
  <2>2. Cut(m) /\ m \in 0..Len(s)
    BY <1>1, <2>1
  <2>3. ASSUME NEW n \in 0..Len(s), Cut(n), n # m
        PROVE  FALSE
    <3>1. CASE n = m + 1
      BY <1>1, <2>3, <3>1
    <3>2. CASE n < m
      BY <1>1, <2>1, <2>3, <3>2
    <3> QED BY <1>1, <2>3, <3>1, <3>2
  <2> QED BY <2>2, <2>3
<1>4. TrimRight(s, NL) = SubSeq(s, 1, CHOOSE n \in 0..Len(s) : Cut(n))
  BY DEF TrimRight
<1> HIDE DEF Cut, m
<1>5. (CHOOSE n \in 0..Len(s) : Cut(n)) = m
  BY <1>3
<1> QED BY <1>2, <1>4, <1>5 DEF s

(* Lines without a newline or a NUL come back from the text they make.     *)
Plain(s) == \A i \in 1..Len(s) : s[i] \notin {NL, NUL}

LEMMA ConcatTexts ==
  ASSUME NEW s \in Texts, NEW t \in Texts
  PROVE  /\ s \o t \in Texts /\ Len(s \o t) = Len(s) + Len(t)
         /\ Len(s) \in Nat /\ Len(t) \in Nat
         /\ \A i \in 1..Len(s) : (s \o t)[i] = s[i]
         /\ \A i \in 1..Len(t) : (s \o t)[Len(s) + i] = t[i]
         /\ NoNUL(s) /\ NoNUL(t) => NoNUL(s \o t)
         /\ t # << >> => s \o t # << >> /\ (s \o t)[Len(s \o t)] = t[Len(t)]
<1> DEFINE u == s \o t
<1>1. s \in Seq(Nat) /\ t \in Seq(Nat) /\ Len(s) \in Nat /\ Len(t) \in Nat
  BY DEF Texts
<1>2. /\ u \in Seq(Nat) /\ Len(u) = Len(s) + Len(t)
      /\ \A i \in 1..(Len(s) + Len(t)) : u[i] = IF i <= Len(s) THEN s[i] ELSE t[i - Len(s)]
  BY <1>1, ConcatProperties
<1> HIDE DEF u
<1>3. ASSUME NEW i \in 1..Len(s)
      PROVE  u[i] = s[i]
  <2>1. i \in 1..(Len(s) + Len(t)) /\ i <= Len(s)
    BY <1>1
  <2> QED BY <1>2, <2>1
<1>4. ASSUME NEW i \in 1..Len(t)
      PROVE  u[Len(s) + i] = t[i]
  <2>1. Len(s) + i \in 1..(Len(s) + Len(t)) /\ ~(Len(s) + i <= Len(s)) /\ (Len(s) + i) - Len(s) = i
    BY <1>1
  <2> QED BY <1>2, <2>1
<1>5. ASSUME NoNUL(s), NoNUL(t)
      PROVE  NoNUL(u)
  <2>1. /\ \A i \in 1..Len(s) : s[i] # NUL
        /\ \A i \in 1..Len(t) : t[i] # NUL
    BY <1>1, <1>5 DEF NoNUL
  <2>2. ASSUME NEW i \in 1..Len(u)
        PROVE  u[i] # NUL
    <3>1. CASE i <= Len(s)
      <4>1. i \in 1..Len(s)
        BY <1>1, <1>2, <3>1
      <4> QED BY <1>3, <2>1, <4>1
    <3>2. CASE ~(i <= Len(s))
      <4>1. i - Len(s) \in 1..Len(t) /\ Len(s) + (i - Len(s)) = i
        BY <1>1, <1>2, <3>2
      <4> QED BY <1>4, <2>1, <4>1
    <3> QED BY <3>1, <3>2
  <2> QED BY <1>2, <2>2 DEF NoNUL
<1>6. ASSUME t # << >>
      PROVE  u # << >> /\ u[Len(u)] = t[Len(t)]
  <2>1. Len(t) # 0
    BY <1>1, <1>6, EmptySeq
  <2>2. Len(t) \in 1..Len(t) /\ Len(u) # 0
    BY <1>1, <1>2, <2>1
  <2> QED BY <1>2, <1>4, <2>2
<1> QED BY <1>1, <1>2, <1>3, <1>4, <1>5, <1>6 DEF u, Texts

LEMMA OneChar ==
  ASSUME NEW c \in Nat
  PROVE  <<c>> \in Texts /\ Len(<<c>>) = 1 /\ <<c>>[1] = c /\ (c # NUL => NoNUL(<<c>>))
BY DEF Texts, NoNUL

LEMMA PlainText ==
  ASSUME NEW l \in Texts, Plain(l)
  PROVE  /\ NoNUL(l) /\ \A i \in 1..Len(l) : l[i] # NL
         /\ l # << >> => l[Len(l)] # NL
<1>1. l \in Seq(Nat) /\ Len(l) \in Nat /\ DOMAIN l = 1..Len(l)
  BY DEF Texts
<1>2. l # << >> => Len(l) \in 1..Len(l)
  BY <1>1, EmptySeq
<1> QED BY <1>1, <1>2 DEF Plain, NoNUL

LEMMA AddLine ==
  ASSUME NEW w \in Texts, NoNUL(w), NEW l \in Texts, Plain(l)
  PROVE  \E v \in Texts :
           /\ v = (w \o <<NL>>) \o l /\ NoNUL(v)
           /\ Split(v, NL) = Append(Split(w, NL), l)
           /\ l # << >> => v # << >> /\ v[Len(v)] # NL
<1> DEFINE b == w \o <<NL>>
           v == b \o l
<1>1. NL \in Nat /\ NL # NUL
  BY DEF NL, NUL
<1>2. NoNUL(l) /\ (\A i \in 1..Len(l) : l[i] # NL) /\ (l # << >> => l[Len(l)] # NL)
  BY PlainText
<1>3. b \in Texts /\ NoNUL(b)
  <2>1. <<NL>> \in Texts /\ NoNUL(<<NL>>)
    BY <1>1, OneChar
  <2> QED BY <2>1, ConcatTexts
<1>4. Split(v, NL) = Append(Split(w, NL), l)
  BY <1>1, <1>2, SplitLast
<1> HIDE DEF b
<1>5. v \in Texts /\ NoNUL(v) /\ (l # << >> => v # << >> /\ v[Len(v)] = l[Len(l)])
  BY <1>2, <1>3, ConcatTexts
<1> QED BY <1>2, <1>4, <1>5 DEF b

LEMMA TextOfLines ==
  ASSUME NEW lines \in Seq(Texts), lines # << >>,
         \A n \in 1..Len(lines) : Plain(lines[n]), lines[Len(lines)] # << >>
  PROVE  /\ CString(Joined(lines)) = Joined(lines)
         /\ TrimRight(Joined(lines), NL) # << >>
         /\ Split(TrimRight(Joined(lines), NL), NL) = lines
<1> DEFINE k == Len(lines)
           Body(w, n) == /\ NoNUL(w) /\ Split(w, NL) = SubSeq(lines, 1, n)
                         /\ lines[n] # << >> => w # << >> /\ w[Len(w)] # NL
<1>1. k \in Nat /\ k # 0 /\ \A n \in 1..k : lines[n] \in Texts
  BY EmptySeq
<1>2. PICK f \in [0..k -> Texts] :
        /\ f[0] = << >> /\ Joined(lines) = f[k]
        /\ \A n \in 1..k : f[n] = f[n - 1] \o lines[n] \o <<NL>>
  BY JoinedFn
<1> DEFINE Claim(n) == n \in 1..k => \E w \in Texts : f[n] = w \o <<NL>> /\ Body(w, n)
           S == {n \in Nat : Claim(n)}
<1> HIDE DEF Body
<1>3. 0 \in S
  OBVIOUS
<1>4. ASSUME NEW n \in Nat, n \in S
      PROVE  n + 1 \in S
  <2> SUFFICES ASSUME n + 1 \in 1..k
               PROVE  \E w \in Texts : f[n + 1] = w \o <<NL>> /\ Body(w, n + 1)
    <3>1. Claim(n + 1) => n + 1 \in S
      <4> HIDE DEF Claim
      <4> QED OBVIOUS
    <3>2. CASE n + 1 \in 1..k
      BY <3>1, <3>2
    <3>3. CASE n + 1 \notin 1..k
      BY <3>1, <3>3
    <3> QED BY <3>2, <3>3
  <2> DEFINE l == lines[n + 1]
  <2>1. l \in Texts /\ Plain(l) /\ f[n + 1] = (f[n] \o l) \o <<NL>>
    <3>1. (n + 1) - 1 = n
      OBVIOUS
    <3> QED BY <1>1, <1>2, <3>1
  <2>2. CASE n = 0
    <3>1. f[0] \o l = l
      BY <1>2, <2>1 DEF Texts
    <3>2. NoNUL(l) /\ (\A i \in 1..Len(l) : l[i] # NL) /\ (l # << >> => l[Len(l)] # NL)
      BY <2>1, PlainText
    <3>3. Split(l, NL) = <<l>>
      BY <2>1, <3>2, SplitLast DEF NL
    <3>4. SubSeq(lines, 1, 1) = <<l>>
      BY <1>1, <2>2
    <3>5. Body(l, n + 1)
      BY <2>2, <3>2, <3>3, <3>4 DEF Body
    <3>6. f[n + 1] = l \o <<NL>>
      BY <2>1, <2>2, <3>1
    <3> HIDE DEF l
    <3> QED BY <2>1, <3>5, <3>6
  <2>3. CASE n # 0
    <3>1. n \in 1..k
      BY <1>1, <2>3
    <3>2. PICK w \in Texts : f[n] = w \o <<NL>> /\ Body(w, n)
      BY <1>4, <3>1
    <3> HIDE DEF l
    <3>3. PICK v \in Texts : /\ v = (w \o <<NL>>) \o l /\ NoNUL(v)
                             /\ Split(v, NL) = Append(Split(w, NL), l)
                             /\ l # << >> => v # << >> /\ v[Len(v)] # NL
      BY <2>1, <3>2, AddLine DEF Body
    <3>4. f[n + 1] = v \o <<NL>>
      BY <2>1, <3>2, <3>3
    <3>5. SubSeq(lines, 1, n + 1) = Append(SubSeq(lines, 1, n), l)
      BY <1>1, <3>1 DEF l
    <3>6. Body(v, n + 1)
      BY <3>2, <3>3, <3>5 DEF l, Body
    <3> QED BY <3>4, <3>6
  <2> QED BY <2>2, <2>3
<1> HIDE DEF S
<1>5. k \in S
  BY <1>1, <1>3, <1>4, NatSetInduction
<1>6. PICK w \in Texts : f[k] = w \o <<NL>> /\ Body(w, k)
  <2>1. k \in 1..k
    BY <1>1
  <2> QED BY <1>5, <2>1 DEF S
<1>7. SubSeq(lines, 1, k) = lines
  BY SubSeqFull
<1>8. NoNUL(w) /\ Split(w, NL) = lines /\ w # << >> /\ w[Len(w)] # NL
  BY <1>6, <1>7 DEF Body
<1>9. TrimRight(Joined(lines), NL) = w
  BY <1>2, <1>6, <1>8, Trimmed
<1>10. CString(Joined(lines)) = Joined(lines)
  <2>1. <<NL>> \in Texts /\ NoNUL(<<NL>>)
    BY OneChar DEF NL, NUL
  <2>2. Joined(lines) \in Seq(Nat) /\ NoNUL(Joined(lines))
    <3>1. Joined(lines) = w \o <<NL>>
      BY <1>2, <1>6
    <3>2. w \o <<NL>> \in Texts /\ NoNUL(w \o <<NL>>)
      BY <1>8, <2>1, ConcatTexts
    <3> QED BY <3>1, <3>2 DEF Texts
  <2> QED BY <2>2, CStringOf
<1> QED BY <1>8, <1>9, <1>10

(* A column is one line of four parts.                                     *)
ColumnSpecs == [name : Texts, sqlType : Texts, nullable : BOOLEAN, pk : BOOLEAN]

LEMMA Tuples ==
  ASSUME NEW S, NEW a \in S, NEW b \in S, NEW c \in S, NEW d \in S
  PROVE  /\ Append(<<a>>, b) = <<a, b>>
         /\ Append(<<a, b>>, c) = <<a, b, c>>
         /\ Append(<<a, b, c>>, d) = <<a, b, c, d>>
<1>1. ASSUME NEW t \in Seq(S), NEW e \in S
      PROVE  /\ Append(t, e) \in Seq(S) /\ Len(Append(t, e)) = Len(t) + 1
             /\ Append(t, e)[Len(t) + 1] = e
             /\ \A i \in 1..Len(t) : Append(t, e)[i] = t[i]
  BY AppendProperties
<1>2. \A f \in Seq(S) : f \in [1..Len(f) -> S]
  OBVIOUS
<1>3. /\ \A f \in [1..2 -> S] : f = <<f[1], f[2]>>
      /\ \A f \in [1..3 -> S] : f = <<f[1], f[2], f[3]>>
      /\ \A f \in [1..4 -> S] : f = <<f[1], f[2], f[3], f[4]>>
  OBVIOUS
<1>4. Append(<<a>>, b) = <<a, b>>
  <2> DEFINE t == <<a>>
             u == Append(t, b)
  <2>1. t \in Seq(S) /\ Len(t) = 1 /\ t[1] = a
    OBVIOUS
  <2> HIDE DEF t
  <2>2. u \in Seq(S) /\ Len(u) = 2 /\ u[2] = b /\ u[1] = a
    <3>1. /\ u \in Seq(S) /\ Len(u) = Len(t) + 1 /\ u[Len(t) + 1] = b
          /\ \A i \in 1..Len(t) : u[i] = t[i]
      BY <1>1, <2>1
    <3> HIDE DEF u
    <3> QED BY <2>1, <3>1
  <2> HIDE DEF u
  <2>3. u = <<u[1], u[2]>>
    <3>1. u \in [1..2 -> S]
      BY <1>2, <2>2
    <3> QED BY <1>3, <3>1
  <2> QED BY <2>2, <2>3 DEF t, u
<1>5. Append(<<a, b>>, c) = <<a, b, c>>
  <2> DEFINE t == <<a, b>>
             u == Append(t, c)
  <2>1. t \in Seq(S) /\ Len(t) = 2 /\ t[1] = a /\ t[2] = b
    OBVIOUS
  <2> HIDE DEF t
  <2>2. u \in Seq(S) /\ Len(u) = 3 /\ u[3] = c /\ u[1] = a /\ u[2] = b
    <3>1. /\ u \in Seq(S) /\ Len(u) = Len(t) + 1 /\ u[Len(t) + 1] = c
          /\ \A i \in 1..Len(t) : u[i] = t[i]
      BY <1>1, <2>1
    <3> HIDE DEF u
    <3> QED BY <2>1, <3>1
  <2> HIDE DEF u
  <2>3. u = <<u[1], u[2], u[3]>>
    <3>1. u \in [1..3 -> S]
      BY <1>2, <2>2
    <3> QED BY <1>3, <3>1
  <2> QED BY <2>2, <2>3 DEF t, u
<1>6. Append(<<a, b, c>>, d) = <<a, b, c, d>>
  <2> DEFINE t == <<a, b, c>>
             u == Append(t, d)
  <2>1. t \in Seq(S) /\ Len(t) = 3 /\ t[1] = a /\ t[2] = b /\ t[3] = c
    OBVIOUS
  <2> HIDE DEF t
  <2>2. u \in Seq(S) /\ Len(u) = 4 /\ u[4] = d /\ u[1] = a /\ u[2] = b /\ u[3] = c
    <3>1. /\ u \in Seq(S) /\ Len(u) = Len(t) + 1 /\ u[Len(t) + 1] = d
          /\ \A i \in 1..Len(t) : u[i] = t[i]
      BY <1>1, <2>1
    <3> HIDE DEF u
    <3> QED BY <2>1, <3>1
  <2> HIDE DEF u
  <2>3. u = <<u[1], u[2], u[3], u[4]>>
    <3>1. u \in [1..4 -> S]
      BY <1>2, <2>2
    <3> QED BY <1>3, <3>1
  <2> QED BY <2>2, <2>3 DEF t, u
<1> QED BY <1>4, <1>5, <1>6

OneByOne(x, a, b, c, d) == x \o <<a, b, c, d>> = (((x \o <<a>>) \o <<b>>) \o <<c>>) \o <<d>>

LEMMA FourChars ==
  ASSUME NEW x \in Texts, NEW a \in Nat, NEW b \in Nat, NEW c \in Nat, NEW d \in Nat
  PROVE  OneByOne(x, a, b, c, d)
<1>1. x \in Seq(Nat)
  BY DEF Texts
<1>2. \A y \in Seq(Nat) : \A e \in Nat : /\ Append(y, e) = y \o <<e>> /\ Append(y, e) \in Seq(Nat)
                                         /\ x \o Append(y, e) = Append(x \o y, e)
                                         /\ x \o y \in Seq(Nat)
  <2> TAKE y \in Seq(Nat)
  <2> TAKE e \in Nat
  <2>1. x \o Append(y, e) = Append(x \o y, e) /\ x \o y \in Seq(Nat)
    BY <1>1, ConcatAppend
  <2>2. Append(y, e) = y \o <<e>> /\ Append(y, e) \in Seq(Nat)
    BY AppendIsConcat
  <2> QED BY <2>1, <2>2
<1> DEFINE y1 == <<a>>
           y2 == Append(y1, b)
           y3 == Append(y2, c)
           y4 == Append(y3, d)
<1>3. y4 = <<a, b, c, d>> /\ y1 \in Seq(Nat)
  <2>1. /\ Append(<<a>>, b) = <<a, b>>
        /\ Append(<<a, b>>, c) = <<a, b, c>>
        /\ Append(<<a, b, c>>, d) = <<a, b, c, d>>
    <3> DEFINE T == Nat
    <3>1. a \in T /\ b \in T /\ c \in T /\ d \in T
      OBVIOUS
    <3> HIDE DEF T
    <3> QED BY <3>1, Tuples
  <2>2. y1 \in Seq(Nat)
    OBVIOUS
  <2> HIDE DEF y1
  <2>3. y2 = <<a, b>>
    BY <2>1 DEF y1
  <2>4. y3 = <<a, b, c>>
    BY <2>1, <2>3
  <2>5. y4 = <<a, b, c, d>>
    BY <2>1, <2>4
  <2> QED BY <2>2, <2>5
<1> HIDE DEF y1
<1>4. y2 \in Seq(Nat) /\ x \o y2 = Append(x \o y1, b) /\ x \o y1 \in Seq(Nat)
  BY <1>2, <1>3
<1> HIDE DEF y2
<1>5. y3 \in Seq(Nat) /\ x \o y3 = Append(x \o y2, c) /\ x \o y2 \in Seq(Nat)
  BY <1>2, <1>4
<1> HIDE DEF y3
<1>6. x \o y4 = Append(x \o y3, d) /\ x \o y3 \in Seq(Nat)
  BY <1>2, <1>5
<1>7. /\ Append(x \o y1, b) = (x \o y1) \o <<b>>
      /\ Append(x \o y2, c) = (x \o y2) \o <<c>>
      /\ Append(x \o y3, d) = (x \o y3) \o <<d>>
  BY <1>2, <1>4, <1>5, <1>6
<1> HIDE DEF y4
<1>8. x \o y4 = (((x \o y1) \o <<b>>) \o <<c>>) \o <<d>>
  BY <1>4, <1>5, <1>6, <1>7
<1> QED BY <1>3, <1>8 DEF y1, OneByOne

LEMMA PlainConcat ==
  ASSUME NEW s \in Texts, NEW t \in Texts, Plain(s), Plain(t)
  PROVE  s \o t \in Texts /\ Plain(s \o t)
<1> DEFINE u == s \o t
<1>1. /\ u \in Texts /\ Len(u) = Len(s) + Len(t) /\ Len(s) \in Nat /\ Len(t) \in Nat
      /\ \A i \in 1..Len(s) : u[i] = s[i]
      /\ \A i \in 1..Len(t) : u[Len(s) + i] = t[i]
  BY ConcatTexts
<1> HIDE DEF u
<1>2. ASSUME NEW i \in 1..Len(u)
      PROVE  u[i] \notin {NL, NUL}
  <2>1. CASE i <= Len(s)
    <3>1. i \in 1..Len(s)
      BY <1>1, <2>1
    <3> QED BY <1>1, <3>1 DEF Plain
  <2>2. CASE ~(i <= Len(s))
    <3>1. i - Len(s) \in 1..Len(t) /\ Len(s) + (i - Len(s)) = i
      BY <1>1, <2>2
    <3> QED BY <1>1, <3>1 DEF Plain
  <2> QED BY <2>1, <2>2
<1>3. u \in Texts /\ Plain(u)
  BY <1>1, <1>2 DEF Plain
<1> QED BY <1>3 DEF u

LEMMA QuotableText ==
  ASSUME NEW s \in Texts, Quotable(s)
  PROVE  Plain(s) /\ NoNUL(s) /\ \A i \in 1..Len(s) : s[i] # TAB
<1>1. DOMAIN s = 1..Len(s)
  BY DEF Texts
<1>2. \A i \in 1..Len(s) : s[i] \notin {NL, TAB, NUL}
  BY <1>1 DEF Quotable
<1> QED BY <1>1, <1>2 DEF Plain, NoNUL

LEMMA ColumnLines ==
  ASSUME NEW c \in ColumnSpecs, Quotable(c.name), Quotable(c.sqlType)
  PROVE  /\ ColumnLine(c) \in Texts /\ Plain(ColumnLine(c)) /\ ColumnLine(c) # << >>
         /\ Len(Split(ColumnLine(c), TAB)) = 4
         /\ ParseColumn(ColumnLine(c)) = c
<1> DEFINE d == Digit(c.nullable)
           e == Digit(c.pk)
           x == (c.name \o <<TAB>>) \o c.sqlType
           y == (x \o <<TAB>>) \o <<d>>
           z == (y \o <<TAB>>) \o <<e>>
           line == ColumnLine(c)
<1>1. c.name \in Texts /\ c.sqlType \in Texts /\ c.nullable \in BOOLEAN /\ c.pk \in BOOLEAN
  BY DEF ColumnSpecs
<1>2. /\ Plain(c.name) /\ \A i \in 1..Len(c.name) : c.name[i] # TAB
      /\ Plain(c.sqlType) /\ \A i \in 1..Len(c.sqlType) : c.sqlType[i] # TAB
  BY <1>1, QuotableText
<1>3. /\ TAB \in Nat /\ d \in Nat /\ e \in Nat /\ d # TAB /\ e # TAB
      /\ TAB \notin {NL, NUL} /\ d \notin {NL, NUL} /\ e \notin {NL, NUL}
      /\ d = Digit(TRUE) <=> c.nullable
      /\ e = Digit(TRUE) <=> c.pk
  BY <1>1 DEF Digit, TAB, NL, NUL
<1> HIDE DEF d, e
<1>4. \A f \in Nat : /\ <<f>> \in Texts /\ Len(<<f>>) = 1 /\ <<f>>[1] = f
                     /\ f \notin {NL, NUL} => Plain(<<f>>)
                     /\ f # TAB => \A i \in 1..Len(<<f>>) : <<f>>[i] # TAB
  <2> TAKE f \in Nat
  <2>1. <<f>> \in Texts /\ Len(<<f>>) = 1 /\ <<f>>[1] = f
    BY OneChar
  <2>2. \A i \in 1..Len(<<f>>) : i = 1
    BY <2>1
  <2> QED BY <2>1, <2>2 DEF Plain
<1>5. x \in Texts /\ Plain(x)
  BY <1>1, <1>2, <1>3, <1>4, PlainConcat
<1>6. y \in Texts /\ Plain(y)
  <2> HIDE DEF x
  <2>1. x \o <<TAB>> \in Texts /\ Plain(x \o <<TAB>>)
    BY <1>3, <1>4, <1>5, PlainConcat
  <2> QED BY <1>3, <1>4, <2>1, PlainConcat
<1>7. z \in Texts /\ Plain(z) /\ z # << >>
  <2> HIDE DEF y
  <2>1. y \o <<TAB>> \in Texts /\ Plain(y \o <<TAB>>)
    BY <1>3, <1>4, <1>6, PlainConcat
  <2>2. <<e>> # << >>
    OBVIOUS
  <2> QED BY <1>3, <1>4, <2>1, <2>2, PlainConcat, ConcatTexts
<1>8. line = z
  <2>1. line = x \o <<TAB, d, TAB, e>>
    BY DEF ColumnLine, d, e
  <2> HIDE DEF x
  <2>2. x \o <<TAB, d, TAB, e>> = (((x \o <<TAB>>) \o <<d>>) \o <<TAB>>) \o <<e>>
    <3>1. x \in Texts /\ TAB \in Nat /\ d \in Nat /\ e \in Nat
      BY <1>3, <1>5
    <3>2. OneByOne(x, TAB, d, TAB, e)
      BY <3>1, FourChars
    <3> QED BY <3>2 DEF OneByOne
  <2> QED BY <2>1, <2>2, Zenon
<1> HIDE DEF line
<1>9. Split(c.name, TAB) = <<c.name>>
  BY <1>1, <1>2, <1>3, SplitLast
<1>10. Split(x, TAB) = Append(Split(c.name, TAB), c.sqlType)
  BY <1>1, <1>2, <1>3, SplitLast
<1>11. Split(y, TAB) = Append(Split(x, TAB), <<d>>)
  <2> HIDE DEF x
  <2> QED BY <1>3, <1>4, <1>5, SplitLast
<1>12. Split(z, TAB) = Append(Split(y, TAB), <<e>>)
  <2> HIDE DEF y
  <2> QED BY <1>3, <1>4, <1>6, SplitLast
<1> DEFINE p == <<c.name, c.sqlType, <<d>>, <<e>> >>
<1>13. Split(line, TAB) = p
  <2> HIDE DEF x, y, z
  <2>1. Append(Append(Append(<<c.name>>, c.sqlType), <<d>>), <<e>>) = p
    <3>1. <<d>> \in Texts /\ <<e>> \in Texts
      BY <1>3, <1>4
    <3> DEFINE q == <<d>>
               r == <<e>>
    <3> HIDE DEF q, r
    <3>2. /\ Append(<<c.name>>, c.sqlType) = <<c.name, c.sqlType>>
          /\ Append(<<c.name, c.sqlType>>, q) = <<c.name, c.sqlType, q>>
          /\ Append(<<c.name, c.sqlType, q>>, r) = <<c.name, c.sqlType, q, r>>
      <4>1. c.name \in Texts /\ c.sqlType \in Texts /\ q \in Texts /\ r \in Texts
        BY <1>1, <3>1 DEF q, r
      <4> QED BY <4>1, Tuples
    <3> QED BY <3>2 DEF q, r
  <2> QED BY <1>8, <1>9, <1>10, <1>11, <1>12, <2>1
<1>14. ParseColumn(line) = [name |-> c.name, sqlType |-> c.sqlType,
                           nullable |-> <<d>> = <<Digit(TRUE)>>, pk |-> <<e>> = <<Digit(TRUE)>>]
  <2>1. p[1] = c.name /\ p[2] = c.sqlType /\ p[3] = <<d>> /\ p[4] = <<e>>
    OBVIOUS
  <2> HIDE DEF p
  <2> QED BY <1>13, <2>1 DEF ParseColumn
<1>15. (<<d>> = <<Digit(TRUE)>>) = c.nullable /\ (<<e>> = <<Digit(TRUE)>>) = c.pk
  <2>1. \A a, b : <<a>> = <<b>> <=> a = b
    OBVIOUS
  <2> QED BY <1>1, <1>3, <2>1, Zenon
<1>16. c = [name |-> c.name, sqlType |-> c.sqlType, nullable |-> c.nullable, pk |-> c.pk]
  BY DEF ColumnSpecs
<1>17. ParseColumn(line) = c
  BY <1>14, <1>15, <1>16, Zenon
<1>18. Len(Split(line, TAB)) = 4
  BY <1>13
<1>19. line \in Texts /\ Plain(line) /\ line # << >>
  BY <1>7, <1>8, Zenon
<1> QED BY <1>17, <1>18, <1>19 DEF line

(* A table is its name and a line for every column, and nothing is lost.   *)
QuotableTable(t) ==
  /\ Quotable(t.name)
  /\ \A i \in DOMAIN t.columns : Quotable(t.columns[i].name) /\ Quotable(t.columns[i].sqlType)

LEMMA TableLines ==
  ASSUME NEW t \in TableSpecs, QuotableTable(t)
  PROVE  \E lines \in Seq(Texts) :
           /\ TableText(t) = Joined(lines) /\ Len(lines) = Len(t.columns) + 1
           /\ lines[1] = t.name /\ Tail(lines) = [i \in DOMAIN t.columns |-> ColumnLine(t.columns[i])]
           /\ \A n \in 1..Len(lines) : Plain(lines[n]) /\ lines[n] # << >>
<1> DEFINE k == Len(t.columns)
           rest == [i \in 1..k |-> ColumnLine(t.columns[i])]
           head == <<t.name>>
           lines == head \o rest
<1>1. /\ t.name \in Texts /\ t.name # << >> /\ t.columns \in Seq(ColumnSpecs)
      /\ k \in Nat /\ DOMAIN t.columns = 1..k
  BY DEF TableSpecs, ColumnSpecs, Texts
<1>2. ASSUME NEW i \in 1..k
      PROVE  rest[i] \in Texts /\ Plain(rest[i]) /\ rest[i] # << >>
  <2>1. t.columns[i] \in ColumnSpecs
    BY <1>1
  <2>2. Quotable(t.columns[i].name) /\ Quotable(t.columns[i].sqlType)
    BY <1>1 DEF QuotableTable
  <2> DEFINE c == t.columns[i]
  <2> HIDE DEF c
  <2>3. ColumnLine(c) \in Texts /\ Plain(ColumnLine(c)) /\ ColumnLine(c) # << >>
    BY <2>1, <2>2, ColumnLines DEF c
  <2>4. rest[i] = ColumnLine(c)
    BY DEF c
  <2> QED BY <2>3, <2>4
<1>3. rest \in Seq(Texts) /\ Len(rest) = k /\ rest = [i \in DOMAIN t.columns |-> ColumnLine(t.columns[i])]
  <2>1. rest \in [1..k -> Texts]
    <3>1. \A i \in 1..k : ColumnLine(t.columns[i]) \in Texts
      BY <1>2
    <3> QED BY <3>1
  <2>2. rest = [i \in DOMAIN t.columns |-> ColumnLine(t.columns[i])]
    BY <1>1
  <2> HIDE DEF rest, k
  <2> QED BY <1>1, <2>1, <2>2
<1>4. TableText(t) = Joined(lines)
  BY <1>3 DEF TableText
<1> HIDE DEF rest, k
<1>5. /\ lines \in Seq(Texts) /\ Len(lines) = k + 1 /\ lines[1] = t.name /\ Tail(lines) = rest
      /\ \A n \in 1..(k + 1) : lines[n] = IF n = 1 THEN t.name ELSE rest[n - 1]
  <2>1. head \in Seq(Texts) /\ Len(head) = 1 /\ head[1] = t.name
    BY <1>1
  <2> HIDE DEF head
  <2>2. /\ lines \in Seq(Texts) /\ Len(lines) = 1 + k
        /\ \A n \in 1..(1 + k) : lines[n] = IF n <= 1 THEN head[n] ELSE rest[n - 1]
    <3>1. /\ lines \in Seq(Texts) /\ Len(lines) = Len(head) + Len(rest)
          /\ \A n \in 1..(Len(head) + Len(rest)) :
                lines[n] = IF n <= Len(head) THEN head[n] ELSE rest[n - Len(head)]
      BY <1>3, <2>1, ConcatProperties
    <3> HIDE DEF lines
    <3> QED BY <1>3, <2>1, <3>1
  <2> HIDE DEF lines
  <2>3. Len(lines) = k + 1 /\ \A n \in 1..(k + 1) : lines[n] = IF n = 1 THEN t.name ELSE rest[n - 1]
    BY <1>1, <2>1, <2>2
  <2>4. lines[1] = t.name /\ lines # << >>
    BY <1>1, <2>2, <2>3
  <2>5. Tail(lines) \in Seq(Texts) /\ Len(Tail(lines)) = k /\ \A i \in 1..k : Tail(lines)[i] = lines[i + 1]
    BY <1>1, <2>2, <2>3, <2>4, HeadTailProperties
  <2>6. \A i \in 1..k : Tail(lines)[i] = rest[i]
    BY <1>1, <2>3, <2>5
  <2>7. Tail(lines) = [i \in 1..k |-> Tail(lines)[i]] /\ rest = [i \in 1..k |-> rest[i]]
    <3>1. \A s \in Seq(Texts) : s = [i \in 1..Len(s) |-> s[i]]
      OBVIOUS
    <3> QED BY <1>3, <2>5, <3>1
  <2> QED BY <2>2, <2>3, <2>4, <2>6, <2>7
<1> HIDE DEF lines
<1>6. ASSUME NEW n \in 1..Len(lines)
      PROVE  Plain(lines[n]) /\ lines[n] # << >>
  <2>1. CASE n = 1
    <3>1. Plain(t.name)
      BY <1>1, QuotableText DEF QuotableTable
    <3> QED BY <1>1, <1>5, <2>1, <3>1
  <2>2. CASE n # 1
    <3>1. n \in 1..(k + 1) /\ n - 1 \in 1..k
      BY <1>1, <1>5, <2>2
    <3> QED BY <1>2, <1>5, <2>2, <3>1
  <2> QED BY <2>1, <2>2
<1> QED BY <1>3, <1>4, <1>5, <1>6 DEF k

LEMMA TableParsed ==
  ASSUME NEW t \in TableSpecs, QuotableTable(t)
  PROVE  ParseTableInfo(CString(TableText(t))) = t
<1>1. PICK lines \in Seq(Texts) :
        /\ TableText(t) = Joined(lines) /\ Len(lines) = Len(t.columns) + 1
        /\ lines[1] = t.name /\ Tail(lines) = [i \in DOMAIN t.columns |-> ColumnLine(t.columns[i])]
        /\ \A n \in 1..Len(lines) : Plain(lines[n]) /\ lines[n] # << >>
  BY TableLines
<1> DEFINE text == CString(TableText(t))
           k == Len(t.columns)
           others == Tail(lines)
           IsUpTo(g) == g = [n \in 0..Len(others) |->
                               IF n = 0 THEN << >>
                               ELSE IF others[n] # << >> /\ Len(Split(others[n], TAB)) >= 4
                                    THEN Append(g[n - 1], ParseColumn(others[n])) ELSE g[n - 1]]
           upTo == CHOOSE g : IsUpTo(g)
<1>2. /\ t.columns \in Seq(ColumnSpecs) /\ k \in Nat /\ DOMAIN t.columns = 1..k
      /\ t = [name |-> t.name, columns |-> t.columns]
  BY DEF TableSpecs, ColumnSpecs, Texts
<1>3. Split(TrimRight(text, NL), NL) = lines
  <2>1. Len(lines) \in 1..Len(lines) /\ lines # << >>
    BY <1>1, <1>2
  <2>2. lines[Len(lines)] # << >>
    BY <1>1, <2>1
  <2>3. CString(Joined(lines)) = Joined(lines) /\ Split(TrimRight(Joined(lines), NL), NL) = lines
    BY <1>1, <2>1, <2>2, TextOfLines
  <2> QED BY <1>1, <2>3
<1>4. ParseTableInfo(text) = [name |-> lines[1], columns |-> upTo[Len(others)]]
  BY <1>3 DEF ParseTableInfo
<1>5. ASSUME NEW i \in 1..k
      PROVE  /\ others[i] # << >> /\ Len(Split(others[i], TAB)) >= 4
             /\ ParseColumn(others[i]) = t.columns[i]
  <2>1. others[i] = ColumnLine(t.columns[i])
    BY <1>1, <1>2
  <2>2. t.columns[i] \in ColumnSpecs
    BY <1>2
  <2>3. Quotable(t.columns[i].name) /\ Quotable(t.columns[i].sqlType)
    BY <1>2 DEF QuotableTable
  <2> DEFINE c == t.columns[i]
  <2> HIDE DEF c
  <2>4. ColumnLine(c) # << >> /\ Len(Split(ColumnLine(c), TAB)) = 4 /\ ParseColumn(ColumnLine(c)) = c
    BY <2>2, <2>3, ColumnLines DEF c
  <2>5. others[i] = ColumnLine(c)
    BY <2>1 DEF c
  <2> HIDE DEF others
  <2>6. Len(Split(others[i], TAB)) >= 4
    <3> DEFINE n == Len(Split(others[i], TAB))
    <3>1. n = 4
      BY <2>4, <2>5, Zenon
    <3> HIDE DEF n
    <3>2. n >= 4
      BY <3>1
    <3> QED BY <3>2 DEF n
  <2>7. others[i] # << >> /\ ParseColumn(others[i]) = c
    BY <2>4, <2>5
  <2> QED BY <2>6, <2>7 DEF c
<1>6. Len(others) = k
  <2>1. others = [i \in 1..k |-> ColumnLine(t.columns[i])]
    BY <1>1, <1>2
  <2> HIDE DEF others
  <2>2. DOMAIN others = 1..k
    BY <2>1
  <2>3. others \in Seq(Texts)
    <3>1. lines # << >>
      BY <1>1, <1>2
    <3> QED BY <1>1, <3>1, HeadTailProperties DEF others
  <2>4. DOMAIN others = 1..Len(others) /\ Len(others) \in Nat
    BY <2>3
  <2> QED BY <1>2, <2>2, <2>4
<1> HIDE DEF others, k
<1> DEFINE f == [n \in 0..k |-> SubSeq(t.columns, 1, n)]
<1>7. f[0] = << >> /\ f[k] = t.columns /\ \A n \in 1..k : f[n] = Append(f[n - 1], t.columns[n])
  <2>1. SubSeq(t.columns, 1, 0) = << >> /\ SubSeq(t.columns, 1, k) = t.columns
    BY <1>2 DEF k
  <2>2. ASSUME NEW n \in 1..k
        PROVE  f[n] = Append(f[n - 1], t.columns[n])
    <3>1. n \in 0..k /\ n - 1 \in 0..k
      BY <1>2
    <3>2. SubSeq(t.columns, 1, n) = Append(SubSeq(t.columns, 1, n - 1), t.columns[n])
      BY <1>2 DEF k
    <3> QED BY <3>1, <3>2
  <2>3. 0 \in 0..k /\ k \in 0..k
    BY <1>2
  <2> QED BY <2>1, <2>2, <2>3
<1>8. IsUpTo(f)
  <2>1. ASSUME NEW n \in 0..k
        PROVE  f[n] = IF n = 0 THEN << >>
                      ELSE IF others[n] # << >> /\ Len(Split(others[n], TAB)) >= 4
                           THEN Append(f[n - 1], ParseColumn(others[n])) ELSE f[n - 1]
    <3>1. CASE n = 0
      BY <1>7, <3>1
    <3>2. CASE n # 0
      <4>1. n \in 1..k
        BY <1>2, <3>2
      <4> HIDE DEF f
      <4> QED BY <1>5, <1>7, <3>2, <4>1
    <3> QED BY <3>1, <3>2
  <2>2. f = [n \in 0..k |-> f[n]]
    OBVIOUS
  <2> HIDE DEF f
  <2>3. f = [n \in 0..k |-> IF n = 0 THEN << >>
                            ELSE IF others[n] # << >> /\ Len(Split(others[n], TAB)) >= 4
                                 THEN Append(f[n - 1], ParseColumn(others[n])) ELSE f[n - 1]]
    BY <2>1, <2>2, Zenon
  <2> QED BY <1>6, <2>3
<1> HIDE DEF f
<1>9. IsUpTo(upTo)
  BY <1>8, Zenon
<1>10. upTo[k] = t.columns
  <2> HIDE DEF upTo
  <2>1. upTo[0] = << >>
    BY <1>2, <1>6, <1>9
  <2>2. \A n \in 1..k : upTo[n] = Append(upTo[n - 1], t.columns[n])
    <3> TAKE n \in 1..k
    <3>1. n \in 0..Len(others) /\ n # 0
      BY <1>2, <1>6
    <3> QED BY <1>5, <1>9, <3>1
  <2>3. Agree(upTo, f, k)
    BY <1>7, <2>1, <2>2 DEF Agree
  <2>4. upTo[k] = f[k]
    BY <1>2, <2>3, SameRecursion
  <2> QED BY <1>7, <2>4
<1> QED BY <1>1, <1>2, <1>4, <1>6, <1>10

(* The order of the engine is strict and total, so a list in that order    *)
(* exists, and holds every name exactly once.                              *)
LEMMA BeforeStrict ==
  ASSUME NEW a \in Texts
  PROVE  ~Before(a, a)
<1>1. a \in Seq(Nat) /\ Len(a) \in Nat /\ \A i \in 1..Len(a) : a[i] \in Nat
  BY DEF Texts
<1> QED BY <1>1 DEF Before

LEMMA BeforeTransitive ==
  ASSUME NEW a \in Texts, NEW b \in Texts, NEW c \in Texts, Before(a, b), Before(b, c)
  PROVE  Before(a, c)
<1>1. /\ Len(a) \in Nat /\ \A i \in 1..Len(a) : a[i] \in Nat
      /\ Len(b) \in Nat /\ \A i \in 1..Len(b) : b[i] \in Nat
      /\ Len(c) \in Nat /\ \A i \in 1..Len(c) : c[i] \in Nat
  BY DEF Texts
<1>2. PICK n \in 1..Len(b) : /\ n - 1 <= Len(a) /\ \A i \in 1..(n - 1) : a[i] = b[i]
                             /\ n <= Len(a) => a[n] < b[n]
  BY DEF Before
<1>3. PICK m \in 1..Len(c) : /\ m - 1 <= Len(b) /\ \A i \in 1..(m - 1) : b[i] = c[i]
                             /\ m <= Len(b) => b[m] < c[m]
  BY DEF Before
<1>4. CASE n <= m
  <2>1. n \in 1..Len(c) /\ \A i \in 1..(n - 1) : a[i] = c[i]
    BY <1>1, <1>2, <1>3, <1>4
  <2>2. ASSUME n <= Len(a)
        PROVE  a[n] < c[n]
    <3>1. n \in 1..Len(a) /\ a[n] < b[n] /\ a[n] \in Nat /\ b[n] \in Nat /\ c[n] \in Nat
      BY <1>1, <1>2, <2>1, <2>2
    <3>2. b[n] <= c[n]
      <4>1. CASE n = m
        BY <1>2, <1>3, <3>1, <4>1
      <4>2. CASE n # m
        <5>1. n \in 1..(m - 1)
          BY <1>1, <1>2, <1>3, <1>4, <4>2
        <5> QED BY <1>3, <3>1, <5>1
      <4> QED BY <4>1, <4>2
    <3> QED BY <3>1, <3>2
  <2> QED BY <1>2, <2>1, <2>2 DEF Before
<1>5. CASE ~(n <= m)
  <2>1. /\ m \in 1..Len(c) /\ m \in 1..(n - 1) /\ m <= Len(a) /\ m <= Len(b)
        /\ \A i \in 1..(m - 1) : a[i] = c[i]
    BY <1>1, <1>2, <1>3, <1>5
  <2>2. a[m] = b[m] /\ b[m] < c[m]
    BY <1>2, <1>3, <2>1
  <2>3. a[m] < c[m] /\ m - 1 <= Len(a)
    BY <1>1, <2>1, <2>2
  <2> QED BY <2>1, <2>3 DEF Before
<1> QED BY <1>4, <1>5

LEMMA BeforeTotal ==
  ASSUME NEW a \in Texts, NEW b \in Texts
  PROVE  a = b \/ Before(a, b) \/ Before(b, a)
<1>1. /\ Len(a) \in Nat /\ (\A i \in 1..Len(a) : a[i] \in Nat) /\ a = [i \in 1..Len(a) |-> a[i]]
      /\ Len(b) \in Nat /\ (\A i \in 1..Len(b) : b[i] \in Nat) /\ b = [i \in 1..Len(b) |-> b[i]]
  BY DEF Texts
<1> DEFINE D == {n \in Nat \ {0} : n > Len(a) \/ n > Len(b) \/ a[n] # b[n]}
<1>2. D \in SUBSET Nat /\ Len(a) + 1 \in D
  BY <1>1
<1>3. PICK m \in D : \A n \in D : m <= n
  <2>1. D # {}
    BY <1>2
  <2> HIDE DEF D
  <2> QED BY <1>2, <2>1, Smallest
<1>4. m \in Nat \ {0} /\ (m > Len(a) \/ m > Len(b) \/ a[m] # b[m])
  BY <1>3
<1>5. \A i \in 1..(m - 1) : i <= Len(a) /\ i <= Len(b) /\ a[i] = b[i]
  <2> TAKE i \in 1..(m - 1)
  <2>1. i \in Nat \ {0} /\ i < m
    BY <1>4
  <2>2. i \notin D
    BY <1>2, <1>3, <1>4, <2>1
  <2> QED BY <1>1, <2>1, <2>2
<1> HIDE DEF D
<1>6. m - 1 <= Len(a) /\ m - 1 <= Len(b)
  <2>1. CASE m = 1
    BY <1>1, <2>1
  <2>2. CASE m # 1
    <3>1. m - 1 \in 1..(m - 1)
      BY <1>4, <2>2
    <3> QED BY <1>5, <3>1
  <2> QED BY <2>1, <2>2
<1>7. CASE m <= Len(a) /\ m <= Len(b)
  <2>1. m \in 1..Len(a) /\ m \in 1..Len(b) /\ (a[m] < b[m] \/ b[m] < a[m])
    BY <1>1, <1>4, <1>7
  <2> QED BY <1>5, <1>6, <2>1 DEF Before
<1>8. CASE m > Len(a) /\ m <= Len(b)
  <2>1. m \in 1..Len(b) /\ ~(m <= Len(a))
    BY <1>1, <1>4, <1>8
  <2> QED BY <1>5, <1>6, <2>1 DEF Before
<1>9. CASE m <= Len(a) /\ m > Len(b)
  <2>1. m \in 1..Len(a) /\ ~(m <= Len(b))
    BY <1>1, <1>4, <1>9
  <2> QED BY <1>5, <1>6, <2>1 DEF Before
<1>10. CASE m > Len(a) /\ m > Len(b)
  <2>1. Len(a) = Len(b) /\ Len(a) = m - 1
    <3>1. Len(a) \in Nat /\ Len(b) \in Nat
      BY <1>1
    <3>2. m \in Nat
      BY <1>4
    <3> QED BY <1>6, <1>10, <3>1, <3>2
  <2>2. \A i \in 1..Len(a) : a[i] = b[i]
    BY <1>5, <2>1
  <2> QED BY <1>1, <2>1, <2>2
<1> QED BY <1>1, <1>4, <1>7, <1>8, <1>9, <1>10

LEMMA SortedNames ==
  ASSUME NEW N \in SUBSET Texts, IsFiniteSet(N)
  PROVE  /\ Sorted(N) \in [1..Cardinality(N) -> N] /\ Cardinality(N) \in Nat
         /\ \A i, j \in 1..Cardinality(N) : i < j => Before(Sorted(N)[i], Sorted(N)[j])
         /\ {Sorted(N)[i] : i \in 1..Cardinality(N)} = N
<1> DEFINE n == Cardinality(N)
           R == {r \in N \X N : Before(r[1], r[2])}
           InOrder(s) == \A i, j \in DOMAIN s : i < j => Before(s[i], s[j])
<1>1. n \in Nat
  BY FS_CardinalityType
<1>2. \A a, b \in N : <<a, b>> \in R <=> Before(a, b)
  OBVIOUS
<1>3. /\ \A a \in N : <<a, a>> \notin R
      /\ \A a, b, c \in N : <<a, b>> \in R /\ <<b, c>> \in R => <<a, c>> \in R
      /\ \A a, b \in N : a = b \/ <<a, b>> \in R \/ <<b, a>> \in R
  <2> HIDE DEF R
  <2>1. \A a \in N : a \in Texts
    OBVIOUS
  <2> QED BY <1>2, <2>1, BeforeStrict, BeforeTransitive, BeforeTotal
<1> HIDE DEF R
<1>4. PICK f \in [1..n -> N] : \A i, j \in 1..n : i < j => <<f[i], f[j]>> \in R
  BY <1>3, Enumeration
<1>5. f \in [1..n -> N] /\ InOrder(f)
  BY <1>2, <1>4
<1>6. Sorted(N) \in [1..n -> N] /\ InOrder(Sorted(N))
  <2>1. \E s \in [1..n -> N] : InOrder(s)
    BY <1>5
  <2>2. Sorted(N) = CHOOSE s \in [1..n -> N] : InOrder(s)
    BY DEF Sorted
  <2> HIDE DEF InOrder, n
  <2> QED BY <2>1, <2>2
<1> DEFINE s == Sorted(N)
<1> HIDE DEF s
<1>7. s \in [1..n -> N] /\ \A i, j \in 1..n : i < j => Before(s[i], s[j])
  BY <1>6 DEF s
<1>8. \A i, j \in 1..n : s[i] = s[j] => i = j
  <2> SUFFICES ASSUME NEW i \in 1..n, NEW j \in 1..n, i < j, s[i] = s[j]
               PROVE  FALSE
    BY <1>1
  <2>1. s[i] \in Texts
    BY <1>7
  <2>2. Before(s[i], s[i])
    BY <1>7
  <2> QED BY <2>1, <2>2, BeforeStrict
<1>9. \A a \in N : \E i \in 1..n : s[i] = a
  <2>1. s \in Injection(1..n, N)
    BY <1>7, <1>8 DEF Injection, IsInjective
  <2>2. IsFiniteSet(1..n) /\ Cardinality(1..n) = n
    BY <1>1, FS_Interval
  <2>3. s \in Surjection(1..n, N)
    BY <2>1, <2>2, FS_Injection
  <2> QED BY <2>3 DEF Surjection
<1>10. {s[i] : i \in 1..n} = N
  BY <1>7, <1>9
<1> QED BY <1>1, <1>7, <1>10 DEF s

LEMMA ListParsed ==
  ASSUME NEW N \in SUBSET Texts, IsFiniteSet(N), << >> \notin N, \A a \in N : Quotable(a)
  PROVE  ParseList(CString(ListText(N))) = Sorted(N)
<1> DEFINE n == Cardinality(N)
           lines == Sorted(N)
<1>1. lines \in [1..n -> N] /\ n \in Nat
  BY SortedNames
<1> HIDE DEF n, lines
<1>2. lines \in Seq(Texts) /\ Len(lines) = n /\ \A i \in 1..n : lines[i] \in N
  BY <1>1
<1>3. CASE n = 0
  <2>1. lines = << >>
    BY <1>2, <1>3, EmptySeq
  <2>2. Joined(lines) = << >>
    <3>1. PICK f \in [0..Len(lines) -> Texts] : f[0] = << >> /\ Joined(lines) = f[Len(lines)]
      BY <1>2, JoinedFn
    <3> QED BY <1>2, <1>3, <3>1
  <2>3. CString(<< >>) = << >>
    BY DEF CString
  <2>4. TrimRight(<< >>, NL) = << >>
    <3> DEFINE e == << >>
               Cut(m) == (\A i \in (m + 1)..Len(e) : e[i] = NL) /\ (m > 0 => e[m] # NL)
               m == CHOOSE m \in 0..Len(e) : Cut(m)
    <3>1. e \in Seq(Nat) /\ Len(e) = 0
      OBVIOUS
    <3>2. TrimRight(e, NL) = SubSeq(e, 1, m)
      BY DEF TrimRight
    <3>3. m = 0
      <4>1. 0 \in 0..Len(e) /\ Cut(0)
        BY <3>1
      <4> HIDE DEF Cut
      <4>2. m \in 0..Len(e)
        BY <4>1
      <4> HIDE DEF m
      <4> QED BY <3>1, <4>2
    <3> HIDE DEF m
    <3>4. SubSeq(e, 1, 0) = << >>
      BY <3>1
    <3> QED BY <3>2, <3>3, <3>4
  <2> QED BY <2>1, <2>2, <2>3, <2>4 DEF ListText, ParseList, lines
<1>4. CASE n # 0
  <2>1. lines # << >> /\ lines[Len(lines)] # << >>
    BY <1>1, <1>2, <1>4
  <2>2. \A i \in 1..Len(lines) : Plain(lines[i])
    <3> TAKE i \in 1..Len(lines)
    <3> DEFINE a == lines[i]
    <3>1. a \in Texts /\ Quotable(a)
      BY <1>2
    <3> HIDE DEF a
    <3>2. Plain(a)
      BY <3>1, QuotableText
    <3> QED BY <3>2 DEF a
  <2>3. /\ CString(Joined(lines)) = Joined(lines)
        /\ TrimRight(Joined(lines), NL) # << >>
        /\ Split(TrimRight(Joined(lines), NL), NL) = lines
    BY <1>2, <2>1, <2>2, TextOfLines
  <2> QED BY <2>3 DEF ListText, ParseList, lines
<1> QED BY <1>3, <1>4 DEF lines

(***************************************************************************)
(* The catalog.  CREATE keeps names apart, so that a name picks one table; *)
(* an answer is the text of the catalog as it is now, parsed.              *)
(***************************************************************************)
AnswerInv ==
  /\ tables \in SUBSET Tables /\ IsFiniteSet(tables)
  /\ \A t, u \in tables : t.name = u.name => t = u
  /\ answer.kind = "list" => answer.got = ParseList(CString(ListText(names)))
  /\ answer.kind = "info" =>
       \/ CString(answer.name) \notin names /\ answer.got = << >>
       \/ \E t \in tables : /\ t.name = CString(answer.name)
                            /\ answer.got = <<ParseTableInfo(CString(TableText(t)))>>

LEMMA Unanswered ==
  ASSUME tables \in SUBSET Tables, IsFiniteSet(tables),
         \A t, u \in tables : t.name = u.name => t = u, answer = NoAnswer
  PROVE  AnswerInv
BY DEF AnswerInv, NoAnswer

LEMMA AnswerStep ==
  ASSUME AnswerInv, [Next]_vars
  PROVE  AnswerInv'
<1>1. ASSUME UNCHANGED <<tables, answer>>
      PROVE  AnswerInv'
  BY <1>1 DEF AnswerInv, names
<1>2. ASSUME NEW args \in ArgLists, NativeExec(args) \/ DriverExec(args)
      PROVE  AnswerInv'
  BY <1>1, <1>2 DEF NativeExec, DriverExec, Run
<1>3. ASSUME NEW cells \in Cells, SqlWrites(cells)
      PROVE  AnswerInv'
  BY <1>1, <1>3 DEF SqlWrites
<1>4. ASSUME NEW dests \in DestLists, Scan(dests)
      PROVE  AnswerInv'
  BY <1>1, <1>4 DEF Scan
<1>5. CASE DriverNext \/ RowsClose
  BY <1>1, <1>5 DEF DriverNext, RowsClose
<1>6. ASSUME NEW t \in Tables, CreateTable(t)
      PROVE  AnswerInv'
  <2>1. /\ tables' = tables \cup {t} /\ answer' = NoAnswer
        /\ \A u \in tables : u.name # t.name
    BY <1>6 DEF CreateTable, names
  <2>2. IsFiniteSet(tables')
    BY <2>1, FS_AddElement DEF AnswerInv
  <2> QED BY <2>1, <2>2 DEF AnswerInv, NoAnswer
<1>7. ASSUME NEW t \in Tables, DropTable(t)
      PROVE  AnswerInv'
  <2>1. tables' = tables \ {t} /\ answer' = NoAnswer
    BY <1>7 DEF DropTable
  <2>2. IsFiniteSet(tables')
    BY <2>1, FS_RemoveElement DEF AnswerInv
  <2> QED BY <2>1, <2>2 DEF AnswerInv, NoAnswer
<1>8. CASE ListTables
  <2>1. tables' = tables /\ answer'.kind = "list" /\ answer'.got = ParseList(CString(ListText(names)))
    BY <1>8 DEF ListTables, Replies
  <2>2. names' = names
    BY <2>1 DEF names
  <2> QED BY <2>1, <2>2 DEF AnswerInv
<1>9. ASSUME NEW name \in Lookups, TableInfo(name)
      PROVE  AnswerInv'
  <2>1. tables' = tables /\ names' = names
    BY <1>9 DEF TableInfo, names
  <2>2. CASE CString(name) \notin names /\ Replies("info", name, << >>)
    <3>1. answer'.kind = "info" /\ answer'.name = name /\ answer'.got = << >>
      BY <2>2 DEF Replies
    <3> QED BY <2>1, <2>2, <3>1 DEF AnswerInv
  <2>3. ASSUME NEW t \in tables, t.name = CString(name),
               Replies("info", name, <<ParseTableInfo(CString(TableText(t)))>>)
        PROVE  AnswerInv'
    <3>1. /\ answer'.kind = "info" /\ answer'.name = name
          /\ answer'.got = <<ParseTableInfo(CString(TableText(t)))>>
      BY <2>3 DEF Replies
    <3> QED BY <2>1, <2>3, <3>1 DEF AnswerInv
  <2> QED BY <1>9, <2>2, <2>3 DEF TableInfo
<1>10. CASE UNCHANGED vars
  BY <1>1, <1>10 DEF vars
<1> QED BY <1>2, <1>3, <1>4, <1>5, <1>6, <1>7, <1>8, <1>9, <1>10 DEF Next

LEMMA Answers == Spec => []AnswerInv
<1>1. ASSUME Init
      PROVE  AnswerInv
  BY <1>1, FS_EmptySet, Unanswered DEF Init
<1>2. AnswerInv /\ [Next]_vars => AnswerInv'
  BY AnswerStep
<1> QED BY <1>1, <1>2, PTL DEF Spec

LEMMA CatalogNames ==
  ASSUME AnswerInv
  PROVE  names \in SUBSET Texts /\ IsFiniteSet(names) /\ << >> \notin names
<1>1. \A t \in tables : t.name \in Texts /\ t.name # << >>
  BY InputTypes DEF AnswerInv, TableSpecs, Texts
<1>2. IsFiniteSet(names)
  <2>1. IsFiniteSet(tables)
    BY DEF AnswerInv
  <2> DEFINE f == [t \in tables |-> t.name]
  <2>2. f \in Surjection(tables, names)
    BY DEF Surjection, names
  <2> QED BY <2>1, <2>2, FS_Surjection
<1> QED BY <1>1, <1>2 DEF names

LEMMA AnswersFaithful ==
  ASSUME AnswerInv
  PROVE  CatalogFaithful
<1>1. ASSUME answer.kind = "list", \A nm \in names : Quotable(nm)
      PROVE  /\ {answer.got[i] : i \in DOMAIN answer.got} = names
             /\ \A i, j \in DOMAIN answer.got : i < j => Before(answer.got[i], answer.got[j])
  <2> DEFINE N == names
  <2>1. N \in SUBSET Texts /\ IsFiniteSet(N) /\ << >> \notin N
    BY CatalogNames
  <2>2. answer.got = ParseList(CString(ListText(N))) /\ \A a \in N : Quotable(a)
    BY <1>1 DEF AnswerInv
  <2> HIDE DEF N
  <2>3. answer.got = Sorted(N)
    BY <2>1, <2>2, ListParsed
  <2>4. /\ Sorted(N) \in [1..Cardinality(N) -> N]
        /\ \A i, j \in 1..Cardinality(N) : i < j => Before(Sorted(N)[i], Sorted(N)[j])
        /\ {Sorted(N)[i] : i \in 1..Cardinality(N)} = N
    BY <2>1, SortedNames
  <2>5. DOMAIN Sorted(N) = 1..Cardinality(N)
    BY <2>4
  <2> QED BY <2>3, <2>4, <2>5 DEF N
<1>2. ASSUME answer.kind = "info", Quotable(answer.name)
      PROVE  /\ answer.got = << >> <=> answer.name \notin names
             /\ \A t \in tables : t.name = answer.name /\ (\A i \in DOMAIN t.columns :
                    Quotable(t.columns[i].name) /\ Quotable(t.columns[i].sqlType))
                  => answer.got = <<t>>
  <2>1. CString(answer.name) = answer.name
    BY <1>2 DEF CString, Quotable
  <2>2. CASE answer.name \notin names /\ answer.got = << >>
    BY <2>2 DEF names
  <2>3. ASSUME NEW u \in tables, u.name = answer.name,
               answer.got = <<ParseTableInfo(CString(TableText(u)))>>
        PROVE  /\ answer.got # << >> /\ answer.name \in names
               /\ \A t \in tables : t.name = answer.name /\ QuotableTable(t) => answer.got = <<t>>
    <3>1. answer.got # << >> /\ answer.name \in names
      BY <2>3 DEF names
    <3>2. ASSUME NEW t \in tables, t.name = answer.name, QuotableTable(t)
          PROVE  answer.got = <<t>>
      <4>1. t = u
        BY <2>3, <3>2 DEF AnswerInv
      <4>2. t \in TableSpecs
        BY InputTypes DEF AnswerInv
      <4>3. ParseTableInfo(CString(TableText(t))) = t
        BY <3>2, <4>2, TableParsed
      <4> QED BY <2>3, <4>1, <4>3
    <3> QED BY <3>1, <3>2
  <2>4. ASSUME NEW t \in tables, t.name = answer.name, \A i \in DOMAIN t.columns :
                    Quotable(t.columns[i].name) /\ Quotable(t.columns[i].sqlType)
        PROVE  QuotableTable(t)
    BY <1>2, <2>4 DEF QuotableTable
  <2>5. \/ answer.name \notin names /\ answer.got = << >>
        \/ \E u \in tables : u.name = answer.name /\ answer.got = <<ParseTableInfo(CString(TableText(u)))>>
    BY <1>2, <2>1 DEF AnswerInv
  <2> QED BY <2>2, <2>3, <2>4, <2>5
<1> QED BY <1>1, <1>2 DEF CatalogFaithful

(* ListTables, TableInfo and parseTableInfo: the program is told of the    *)
(* tables there are and of their columns, as they are.                     *)
THEOREM CatalogReported == Spec => []CatalogFaithful
<1>1. AnswerInv => CatalogFaithful
  BY AnswersFaithful
<1> QED BY <1>1, Answers, PTL
=============================================================================
