----------------------------- MODULE MCConverter -----------------------------
(***************************************************************************)
(* TLC instances of Converter: a key column, an enum column and a plain    *)
(* one.                                                                    *)
(***************************************************************************)
EXTENDS Converter

AllCols == {"key", "enum", "plain"}

\* A message with all columns, one without the plain column, and one with a
\* field after the key that Flatten cannot size.
SomeSchemas ==
  {[cols |-> AllCols, flat |-> AllCols],
   [cols |-> {"key", "enum"}, flat |-> {"key", "enum"}],
   [cols |-> AllCols, flat |-> {"key"}]}

FullSheet == [header |-> AllCols, rows |-> 1, bad |-> NoCol]

\* A good sheet, one without records, one without the plain column, one with
\* a bad plain cell and one with a bad key.
SomeSheets ==
  {FullSheet,
   [FullSheet EXCEPT !.rows = 0],
   [FullSheet EXCEPT !.header = {"key", "enum"}],
   [FullSheet EXCEPT !.bad = "plain"],
   [FullSheet EXCEPT !.bad = "key"]}

\* With two resources the sheets are good at first and the enum is one of the
\* two; edits lead to the rest.
AnEnum == CHOOSE e \in Enums : TRUE

FirstInit ==
  /\ Init
  /\ enumDef = AnEnum
  /\ xlsx = [r \in Resources |-> FullSheet]

FirstSpec == FirstInit /\ [][Next]_vars

\* Every resource in the one file of setup.json, or in the second of two.
OneFile    == [r \in Resources |-> 1]
SecondFile == [r \in Resources |-> 2]
==============================================================================
