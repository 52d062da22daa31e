------------------------------ MODULE MCLayout ------------------------------
(* Two messages, three names of which two can collide, two files. *)
EXTENDS Layout

SomeNames == <<"hp", "hp1", "id">>
TwoLevels == [Part |-> 0, Row |-> 1]
FewFields == [Part |-> 1, Row |-> 2]
TwoHomes  == {[Part |-> f, Row |-> "table"] : f \in {"table", "common"}}

\* The prefix of table.proto's own options is no package; Com's MID is another
\* number than Res's.
SomeFiles ==
  [table  |-> [package |-> "Res",
               scopes  |-> <<>> :> [Len |-> [NIL |-> 0, MID |-> 2]]],
   common |-> [package |-> "Com",
               scopes  |-> <<>> :> [Size |-> [MID |-> 3, BIG |-> 4]]
                        @@ <<"Part">> :> [Kind |-> [PAIR |-> 2]]]]

Field(type, repeated, count, size) ==
  [type |-> type, repeated |-> repeated, count |-> count, size |-> size]

SomeShapes ==
  { Field("int32", FALSE, NoOption, NoOption),
    Field("int32", FALSE, <<"Len", "MID">>, NoOption),
    Field("int32", TRUE, <<"RES", "MID">>, NoOption),
    Field("int32", TRUE, <<"Len", "NIL">>, NoOption),
    Field("int32", TRUE, <<"Size", "MID">>, NoOption),
    Field("string", FALSE, NoOption, NoOption),
    Field("string", FALSE, NoOption, <<"Com", "MID">>),
    Field("string", FALSE, NoOption, <<"Res", "MID">>),
    Field("string", TRUE, <<"Len", "MID">>, <<"Com", "BIG">>),
    Field("bytes", FALSE, NoOption, <<"X", "Part", "Kind", "PAIR">>),
    Field("Part", FALSE, NoOption, NoOption),
    Field("Part", TRUE, <<"Len", "MID">>, NoOption) }
=============================================================================
