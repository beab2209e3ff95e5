----------------------------- MODULE SchemaText -----------------------------
(***************************************************************************)
(* The catalog as text: what zeta_list_tables and zeta_table_info hand     *)
(* over, and how ListTables, TableInfo and parseTableInfo (schema.go) take *)
(* it apart again.                                                         *)
(*                                                                         *)
(* A name and a SQL type are sequences of characters; the characters that  *)
(* matter are the newline, the tab, NUL, "0" and "1".                      *)
(***************************************************************************)
EXTENDS Values, FiniteSets

NL == 10
TAB == 9
Digit(b) == IF b THEN 49 ELSE 48     \* "1", "0"

(* strings.Split and strings.TrimRight of one character.                   *)
Split(s, sep) ==
  LET upTo[n \in 0..Len(s)] ==
        IF n = 0 THEN << << >> >>
        ELSE LET parts == upTo[n - 1]
             IN IF s[n] = sep THEN Append(parts, << >>)
                ELSE [parts EXCEPT ![Len(parts)] = Append(@, s[n])]
  IN upTo[Len(s)]
TrimRight(s, c) ==
  SubSeq(s, 1, CHOOSE n \in 0..Len(s) :
                 (\A i \in (n + 1)..Len(s) : s[i] = c) /\ (n > 0 => s[n] # c))

(* The formats of zeta.h.                                                  *)
Joined(lines) ==
  LET first[n \in 0..Len(lines)] ==
        IF n = 0 THEN << >> ELSE first[n - 1] \o lines[n] \o <<NL>>
  IN first[Len(lines)]
ColumnLine(c) == c.name \o <<TAB>> \o c.sqlType \o <<TAB, Digit(c.nullable), TAB, Digit(c.pk)>>
TableText(t) == Joined(<<t.name>> \o [i \in DOMAIN t.columns |-> ColumnLine(t.columns[i])])

(* The order of the engine: by character, shorter first.                   *)
Before(a, b) ==
  \E n \in 1..Len(b) :
    /\ n - 1 <= Len(a) /\ \A i \in 1..(n - 1) : a[i] = b[i]
    /\ n <= Len(a) => a[n] < b[n]
Sorted(names) == CHOOSE s \in [1..Cardinality(names) -> names] :
                   \A i, j \in DOMAIN s : i < j => Before(s[i], s[j])
ListText(names) == Joined(Sorted(names))
-----------------------------------------------------------------------------
(* Mutant: the newline at the end is not cut off.                          *)
ParseListUncut(text) == IF text = << >> THEN << >> ELSE Split(text, NL)

ParseList(text) ==
  LET s == TrimRight(text, NL) IN IF s = << >> THEN << >> ELSE Split(s, NL)

(* Mutant: the flags are taken in the other order.                         *)
ParseColumnSwapped(line) ==
  LET p == Split(line, TAB)
  IN [name |-> p[1], sqlType |-> p[2],
      nullable |-> p[4] = <<Digit(TRUE)>>, pk |-> p[3] = <<Digit(TRUE)>>]

ParseColumn(line) ==
  LET p == Split(line, TAB)
  IN [name |-> p[1], sqlType |-> p[2],
      nullable |-> p[3] = <<Digit(TRUE)>>, pk |-> p[4] = <<Digit(TRUE)>>]

ParseTableInfo(text) ==
  LET lines == Split(TrimRight(text, NL), NL)
      others == Tail(lines)
      upTo[n \in 0..Len(others)] ==
        IF n = 0 THEN << >>
        ELSE IF others[n] # << >> /\ Len(Split(others[n], TAB)) >= 4
             THEN Append(upTo[n - 1], ParseColumn(others[n])) ELSE upTo[n - 1]
  IN [name |-> lines[1], columns |-> upTo[Len(others)]]
=============================================================================
