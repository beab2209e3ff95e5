----------------------------- MODULE MCBoundary -----------------------------
(* Boundary on small sets for TLC: int64 is -8..7 and int32 -4..3, so that *)
(* the values at both ends of both, and text longer than a C int counts,   *)
(* are among the arguments.                                                *)
EXTENDS Boundary

G(type, v) == Val(type, v)

Numbers == [type : {"int", "int64"}, v : {<<-8>>, <<0>>, <<7>>}]
      \cup [type : {"int32"}, v : {<<-4>>, <<3>>}]
      \cup [type : {"uint", "uint64"}, v : {<<7>>, <<8>>, <<15>>}]
      \cup {G("uint32", <<7>>), G("float32", <<3>>), G("float64", <<4>>)}
Others == {G("nil", << >>), G("bool", <<0>>), G("bool", <<1>>),
           G("string", << >>), G("string", Stamp(2)), G("string", <<1>>), G("string", <<1, 0, 2>>),
           G("string", <<1, 0, 2, 1>>), G("string", <<1, 2, 1, 2>>),
           G("string", <<1, 2, 1, 2, 1, 2, 1, 2, 1>>),
           G("[]byte", << >>), G("[]byte", <<0, 2>>), G("[]byte", <<0, 2, 0, 2>>),
           G("[]float32", << >>), G("[]float32", <<3, 0>>), G("[]float32", <<3, 0, 3, 0, 3>>),
           G("time.Time", <<5, 3>>), G("time.Time", <<-3, -2>>),
           G("struct", <<1>>), G("sql.NamedArg", <<1>>)}
Seconds == {G("nil", << >>), G("int64", <<1>>), G("struct", <<1>>)}
Pairs == {G("int", <<7>>), G("uint64", <<8>>), G("string", <<1>>), G("nil", << >>),
          G("time.Time", <<5, 3>>), G("struct", <<1>>)}
MCArgLists == {<< >>} \cup {<<a>> : a \in Numbers \cup Others}
              \cup {<<a, b>> : a \in Pairs, b \in Seconds}
              \cup {<<a, b, b>> : a \in {G("int", <<7>>)}, b \in Seconds}

Firsts == {Val("INT", <<n>>) : n \in {-8, -5, 3, 4}} \cup
          {Val("FLOAT", <<4>>), Val("FLOAT", <<3>>), Val("TEXT", <<1, 0>>), Val("TEXT", <<2>>),
           Val("BLOB", << >>), Val("BLOB", <<0>>), Val("BOOL", <<1>>), Val("BOOL", <<0>>),
           Val("TIMESTAMPTZ", <<-3>>), Val("DATE", <<2>>), Val("TIME", <<0>>), Val("TIME", <<Day>>),
           Null}
          \cup [type : {"DECIMAL", "UUID", "JSON", "VECTOR", "LATER"}, v : {<<1>>}]
MCCells == {<<a, b>> : a \in Firsts, b \in {Null, Val("INT", <<5>>)}}

MCDestLists == {<<d, e>> : d \in Documented \cup {"sql.NullString"}, e \in {"any", "int32", "time.Time", "[]float32"}}
               \cup {<<"any">>, <<"any", "any", "any">>}

Cols == {[name |-> <<1>>, sqlType |-> <<2>>, nullable |-> a, pk |-> b] : a, b \in BOOLEAN}
        \cup {[name |-> <<1, TAB>>, sqlType |-> <<2>>, nullable |-> TRUE, pk |-> FALSE]}
TableNames == {<<1>>, <<1, 2>>, <<2>>, <<2, NL>>}
MCTables == {[name |-> nm, columns |-> cs] : nm \in TableNames,
               cs \in {<< >>} \cup {<<c>> : c \in Cols}}
        \cup {[name |-> <<1>>, columns |-> <<c, d>>] : c, d \in Cols}
MCLookups == TableNames \cup {<<1, NUL, 2>>, << >>}
=============================================================================
