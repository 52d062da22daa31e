----------------------------- MODULE MCBinFile ------------------------------
(***************************************************************************)
(* A message with a member message, whose fields come in the order of      *)
(* their names in one draft only.  A byte has two bits and a block of MD5  *)
(* sixteen bytes.                                                          *)
(***************************************************************************)
EXTENDS BinFile

SomeNames == <<"hp", "hp1", "id", "on", "part", "rate", "tag">>
TwoLevels == [Part |-> 0, Row |-> 1]
Numbers   == [NIL |-> 0, ONE |-> 1, TWO |-> 2, SIX |-> 6]
OneFile   == [table |-> [package |-> "", scopes |-> <<>> :> [Kind |-> Numbers]]]

Field(name, type) ==
  [name |-> name, type |-> type, repeated |-> FALSE, count |-> <<>>, size |-> <<>>]
Counted(f, n)     == [f EXCEPT !.count = <<"Kind", n>>]
Repeated(f, n)    == [Counted(f, n) EXCEPT !.repeated = TRUE]
Sized(f, n)       == [f EXCEPT !.size = <<"Kind", n>>]

Hp == Field("hp", "int32")

\* Two columns of the same size in two orders; arrays of a basic type and of
\* messages; two counts of which either is an array's; a text; names that
\* collide; a count of 0 where Flatten needs none.
SomeDrafts ==
  [Part |-> {<<Hp, Field("id", "enum")>>, <<Field("id", "enum"), Hp>>},
   Row  |-> {<<Hp, Field("part", "Part")>>, <<Hp>>, <<Repeated(Hp, "ONE")>>,
             <<Repeated(Hp, "TWO"), Counted(Field("id", "int32"), "TWO")>>,
             <<Counted(Hp, "TWO"), Repeated(Field("id", "int32"), "TWO")>>,
             <<Repeated(Field("part", "Part"), "TWO"), Sized(Field("tag", "string"), "SIX")>>,
             <<Field("id", "int64"), Field("on", "bool"), Field("rate", "double")>>,
             <<Repeated(Hp, "TWO"), Field("hp1", "int32")>>,
             <<Counted(Hp, "NIL"), Field("id", "int32")>>}]

Cell(type, value) == [type |-> type, value |-> value]
Usual == [bool |-> Cell("Integer", 1), int32 |-> Cell("Integer", 7),
          enum |-> Cell("String", "TWO"), int64 |-> Cell("Integer", 300),
          double |-> Cell("Float", "0.5"), string |-> Cell("String", "sword")]

\* Numbers too large for the bool, the int32 and the enum; a number for a text
\* and for a double; a text too long, one that names no enum value; no value.
Large == [bool |-> Cell("Integer", 6), int32 |-> Cell("Integer", 300),
          enum |-> Cell("Integer", 300), int64 |-> Cell("Integer", 7),
          double |-> Cell("Integer", 1), string |-> Cell("Integer", 12345)]
Wrong == [bool |-> Cell("Boolean", TRUE), int32 |-> Cell("String", "TWO"),
          enum |-> Cell("String", "none"), int64 |-> Cell("Float", "0.5"),
          double |-> Cell("Empty", 0), string |-> Cell("String", "shield")]
Blank == [t \in DOMAIN Usual |-> Cell("Empty", 0)]

SomeRows == [usual |-> [more |-> 0, cells |-> Usual], short |-> [more |-> -1, cells |-> Usual],
             long  |-> [more |-> 1, cells |-> Usual], large |-> [more |-> 0, cells |-> Large],
             wrong |-> [more |-> 0, cells |-> Wrong], blank |-> [more |-> 0, cells |-> Blank]]
=============================================================================
