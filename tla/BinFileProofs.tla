--------------------------- MODULE BinFileProofs ----------------------------
(***************************************************************************)
(* Proofs about BinFile, for any messages, sheets and rows.                *)
(***************************************************************************)
EXTENDS BinFile, BytesProofs

-----------------------------------------------------------------------------
(* Cells.                                                                  *)

Power(bytes) == 2^(ByteBits * bytes)

LEMMA PowerIs ==
  ASSUME NEW bytes \in {1, 4, 8}
  PROVE  \E half \in Nat : half > 0 /\ Power(bytes) = 2 * half /\ Power(bytes) \div 2 = half
<1> DEFINE n == Power(bytes)
           h == n \div 2
<1>1. n \in Nat /\ n > 0 /\ n = 2 * h
  BY CellsAssumption DEF CellsAssumption, Power
<1> HIDE DEF n
<1>2. h \in Nat
  BY <1>1
<1> HIDE DEF h
<1>3. h > 0
  BY <1>1, <1>2
<1> QED
  BY <1>1, <1>2, <1>3 DEF n, h

LEMMA RangeIs ==
  ASSUME NEW bytes \in {1, 4, 8}
  PROVE  \E half \in Nat :
           /\ half > 0
           /\ NumberRange(bytes, TRUE) = (-half)..(half - 1)
           /\ NumberRange(bytes, FALSE) = 0..(2 * half - 1)
           /\ \A v : Cast(v, bytes, TRUE) = ((v + half) % (2 * half)) - half
           /\ \A v : Cast(v, bytes, FALSE) = v % (2 * half)
<1>1. PICK half \in Nat :
             half > 0 /\ Power(bytes) = 2 * half /\ Power(bytes) \div 2 = half
  BY PowerIs
<1>2. /\ NumberRange(bytes, TRUE) = (-(Power(bytes) \div 2))..((Power(bytes) \div 2) - 1)
      /\ NumberRange(bytes, FALSE) = 0..(Power(bytes) - 1)
      /\ \A v : Cast(v, bytes, TRUE) =
                  ((v + Power(bytes) \div 2) % Power(bytes)) - (Power(bytes) \div 2)
      /\ \A v : Cast(v, bytes, FALSE) = v % Power(bytes)
  BY DEF NumberRange, Cast, Power
<1> QED
  BY <1>1, <1>2

LEMMA ModIs ==
  ASSUME NEW n \in Nat, n > 0, NEW v \in Int
  PROVE  /\ (v % n) \in Nat /\ (v % n) < n
         /\ v \in 0..(n - 1) => (v % n) = v
  OBVIOUS

\* A number of the type's range is kept, any other becomes one.
LEMMA CastIs ==
  ASSUME NEW bytes \in {1, 4, 8}, NEW signed \in BOOLEAN, NEW v \in Int
  PROVE  /\ Cast(v, bytes, signed) \in NumberRange(bytes, signed)
         /\ v \in NumberRange(bytes, signed) => Cast(v, bytes, signed) = v
         /\ 0 \in NumberRange(bytes, signed)
<1>1. PICK half \in Nat :
           /\ half > 0
           /\ NumberRange(bytes, TRUE) = (-half)..(half - 1)
           /\ NumberRange(bytes, FALSE) = 0..(2 * half - 1)
           /\ \A x : Cast(x, bytes, TRUE) = ((x + half) % (2 * half)) - half
           /\ \A x : Cast(x, bytes, FALSE) = x % (2 * half)
  BY RangeIs
<1> DEFINE n == 2 * half
           w == v + half
           a == w % n
           b == v % n
<1>2. n \in Nat /\ n > 0 /\ w \in Int
  BY <1>1
<1>3. CASE signed = TRUE
  <2>1. Cast(v, bytes, signed) = a - half
    BY <1>1, <1>3
  <2>2. NumberRange(bytes, signed) = (-half)..(half - 1)
    BY <1>1, <1>3
  <2>3. a \in Nat /\ a < n /\ (w \in 0..(n - 1) => a = w)
    <3> HIDE DEF n, w
    <3> QED
      BY <1>2, ModIs
  <2> HIDE DEF a
  <2>4. a - half \in (-half)..(half - 1)
    BY <1>1, <2>3
  <2>5. v \in (-half)..(half - 1) => a - half = v
    BY <1>1, <2>3
  <2>6. 0 \in (-half)..(half - 1)
    BY <1>1
  <2> QED
    BY <2>1, <2>2, <2>4, <2>5, <2>6
<1>4. CASE signed = FALSE
  <2>1. Cast(v, bytes, signed) = b
    BY <1>1, <1>4
  <2>2. NumberRange(bytes, signed) = 0..(n - 1)
    BY <1>1, <1>4
  <2>3. b \in Nat /\ b < n /\ (v \in 0..(n - 1) => b = v)
    <3> HIDE DEF n
    <3> QED
      BY <1>2, ModIs
  <2> HIDE DEF b, n
  <2> QED
    BY <1>2, <2>1, <2>2, <2>3
<1> QED
  BY <1>3, <1>4

NumberTypes == {"bool", "int32", "enum", "int64"}

LEMMA NumbersAre ==
  /\ DOMAIN NumberBytes = NumberTypes
  /\ \A type \in NumberTypes : /\ NumberBytes[type] \in {1, 4, 8}
                               /\ IsSigned(type) \in BOOLEAN
                               /\ ~IsText(type)
                               /\ type # "double"
  /\ NumberBytes["enum"] = 4 /\ IsSigned("enum") = TRUE
  BY DEF NumberBytes, NumberTypes, IsSigned, IsText

\* A number that is written has the width of its column.
LEMMA WrittenIs ==
  ASSUME NEW type \in NumberTypes, NEW size, NEW cell,
         cell.type = "Integer" => cell.value \in Int,
         NEW v \in Written(type, size, cell)
  PROVE  v \in NumberRange(NumberBytes[type], IsSigned(type))
<1> DEFINE R == NumberRange(NumberBytes[type], IsSigned(type))
<1>1. NumberBytes[type] \in {1, 4, 8} /\ IsSigned(type) \in BOOLEAN /\ ~IsText(type)
  BY NumbersAre
<1>2. type \in DOMAIN NumberBytes /\ type # "double"
  BY NumbersAre
<1>3. CASE cell.type = "Empty"
  <2>1. v = 0
    BY <1>1, <1>3 DEF Written
  <2>2. 0 \in Int
    OBVIOUS
  <2> QED
    BY <1>1, <2>1, <2>2, CastIs
<1>4. CASE cell.type = "Integer"
  <2>1. v = Cast(cell.value, NumberBytes[type], IsSigned(type))
    BY <1>1, <1>2, <1>4 DEF Written
  <2> QED
    BY <1>1, <1>4, <2>1, CastIs
<1>5. CASE cell.type # "Empty" /\ cell.type # "Integer"
  <2>1. type = "enum" /\ v \in EnumNumber(cell)
    BY <1>1, <1>2, <1>5 DEF Written
  <2>2. v \in NumberRange(4, TRUE)
    BY <2>1, CellsAssumption DEF CellsAssumption, EnumNumber
  <2> QED
    BY <2>1, <2>2, NumbersAre
<1> QED
  BY <1>3, <1>4, <1>5

LEMMA OneText ==
  ASSUME NEW cell
  PROVE  \A s, t \in TextOf(cell) : s = t
  BY DEF TextOf

\* Both formats get the same of a cell.
LEMMA SameOf ==
  ASSUME NEW type, NEW size, NEW cell
  PROVE  LET bin == Written(type, size, cell)
         IN  /\ type # "double" => bin \subseteq Json(type, cell)
             /\ ~(IsText(type) /\ bin = {}) => Json(type, cell) \subseteq bin
<1> DEFINE bin  == Written(type, size, cell)
           json == Json(type, cell)
<1>1. CASE cell.type = "Empty"
  BY <1>1 DEF Written, Json
<1>2. CASE cell.type # "Empty" /\ IsText(type)
  <2>0. type \notin DOMAIN NumberBytes /\ type # "enum" /\ type # "double"
    BY <1>2 DEF IsText, NumberBytes
  <2>1. bin = {t \in TextOf(cell) : Len(t) < size} /\ json = TextOf(cell)
    BY <1>2, <2>0, Zenon DEF Written, Json
  <2> HIDE DEF bin, json
  <2>2. bin \subseteq json /\ (bin # {} => json \subseteq bin)
    BY <2>1, OneText
  <2> QED
    BY <1>2, <2>2 DEF bin, json
<1>3. CASE cell.type # "Empty" /\ ~IsText(type) /\ type \in NumberTypes
  BY <1>3, NumbersAre DEF Written, Json, JsonBytes
<1>4. CASE cell.type # "Empty" /\ ~IsText(type) /\ type \notin NumberTypes
  BY <1>4, NumbersAre DEF Written, Json, NumberTypes
<1> QED
  BY <1>1, <1>2, <1>3, <1>4

LEMMA KeptOf ==
  ASSUME NEW type \in NumberTypes, NEW cell, cell.type = "Integer", cell.value \in Int,
         cell.value \in NumberRange(NumberBytes[type], IsSigned(type))
  PROVE  Json(type, cell) = {cell.value}
<1>1. /\ NumberBytes[type] \in {1, 4, 8} /\ IsSigned(type) \in BOOLEAN /\ ~IsText(type)
      /\ type \in DOMAIN NumberBytes
  BY NumbersAre
<1>2. Json(type, cell) = {Cast(cell.value, NumberBytes[type], IsSigned(type))}
  BY <1>1 DEF Json, JsonBytes
<1> QED
  BY <1>1, <1>2, CastIs

-----------------------------------------------------------------------------
(* What Flatten and a table are of any messages.                           *)

\* What Flatten gives for any messages.
FlatInner(F, at, f) ==
  IF f.type \in Messages THEN F[<<at[1], f.type>>] ELSE Now!Leaf(at[2], f)

FlatBody(messages, F, at) ==
  LET own == messages[at[2]]
  IN  [ok      |-> \A i \in DOMAIN own :
                     /\ own[i].repeated => Now!GetEnumValue(at[1], own[i].count) # 0
                     /\ FlatInner(F, at, own[i]).ok,
       columns |-> Now!FlattenSeq([i \in DOMAIN own |->
                     Now!Spread(Now!CopiesOf(at[1], own[i]),
                                FlatInner(F, at, own[i]).columns)])]

Flat(messages) ==
  CHOOSE F : F = [at \in (DOMAIN Files) \X Messages |-> FlatBody(messages, F, at)]

PassesOf(messages) == Flat(messages)[<<Main, Resource>>].ok

TableOf(messages) ==
  Now!FoldLeft(Now!CreateField, [size |-> 0, meta |-> <<>>],
               Flat(messages)[<<Main, Resource>>].columns)

LEMMA NowFlat == Now!Flatten = Flat(fields)
  BY DEF Now!Flatten, Flat, FlatBody, FlatInner

\* The names of the columns.
NamesOf(messages) ==
  LET columns == Flat(messages)[<<Main, Resource>>].columns
  IN  [i \in DOMAIN columns |-> columns[i].name]

LEMMA NowTable ==
  Now!GetsThrough(Resource) = PassesOf(fields) /\ Now!TableMeta(Resource) = TableOf(fields)
<1>1. InMain[Resource] = Main
  BY BinFileAssumption DEF BinFileAssumption, InMain
<1>2. Now!GetsThrough(Resource) = PassesOf(fields)
  BY <1>1, NowFlat, Zenon DEF Now!GetsThrough, PassesOf
<1>3. Now!TableMeta(Resource) = TableOf(fields)
  BY <1>1, NowFlat, Zenon DEF Now!TableMeta, TableOf
<1> QED
  BY <1>2, <1>3, Zenon

LEMMA NowNames == Now!ColumnNames(Resource) = NamesOf(fields)
<1>1. InMain[Resource] = Main
  BY BinFileAssumption DEF BinFileAssumption, InMain
<1> QED
  BY <1>1, NowFlat, Zenon DEF Now!ColumnNames, NamesOf

-----------------------------------------------------------------------------
(* The invariant.                                                          *)

IsSeq(s) == \E E : s \in Seq(E)

\* Drafts of all messages.
AreDrafts(f) ==
  /\ f \in [Messages -> UNION {Drafts[m] : m \in Messages}]
  /\ \A m \in Messages : f[m] \in Drafts[m]

\* The messages are drafts.
Drafted == AreDrafts(fields)

\* Every stage a conversion can be left in.
Stages == {"none", "empty", "head", "torn", "full"}

IsFile(f) ==
  f = [stage |-> f.stage, src |-> f.src, table |-> f.table, header |-> f.header,
       rows |-> f.rows, damage |-> f.damage, seen |-> f.seen]

\* Only a conversion that got to the records is on the disk with some, and then
\* all its columns were found and none of its rows failed.
FileOK ==
  /\ IsFile(file)
  /\ file.stage \in Stages
  /\ busy => file.stage \in {"empty", "head", "torn"}
  /\ IsSeq(file.header)
  /\ file.rows \in Seq(DOMAIN Rows)
  /\ file.seen \in 0..Len(file.rows)
  /\ file.stage \notin {"torn", "full"} => file.seen = 0
  /\ file.stage \in {"torn", "full"} \/ (busy /\ file.stage = "head") =>
       ColumnsFound(file.header)
  /\ file.stage \in {"torn", "full"} => \A i \in DOMAIN file.rows : ~RowFails(Row(i))

Inv ==
  /\ Drafted
  /\ edits \in 0..MaxEdits
  /\ busy \in BOOLEAN
  /\ FileOK

\* So were the messages of the header.
HeaderOK == compiled = NoMessages \/ AreDrafts(compiled)

\* The file was made from drafts that Flatten got through, and a full one has
\* all its records; the header compiles.
SourceOK ==
  busy \/ file.stage \in {"torn", "full"} =>
    /\ AreDrafts(file.src)
    /\ PassesOf(file.src)
    /\ file.table = TableOf(file.src)
    /\ file.stage = "full" => file.seen = Len(file.rows)

LEMMA HeadersAreSeq ==
  ASSUME NEW columns, IsSeq(columns), NEW header \in Headers(columns)
  PROVE  IsSeq(header)
<1>1. PICK E : columns \in Seq(E)
  BY DEF IsSeq
<1>2. CASE header = columns
  BY <1>2
<1>3. CASE header = Reverse(columns)
  <2> DEFINE n == Len(columns)
  <2>1. n \in Nat /\ \A i \in 1..n : columns[i] \in E
    BY <1>1
  <2>2. header = [i \in 1..n |-> columns[(n - i) + 1]]
    BY <1>3 DEF Reverse
  <2> HIDE DEF n
  <2>3. \A i \in 1..n : (n - i) + 1 \in 1..n
    BY <2>1
  <2>4. header \in Seq(E)
    BY <2>1, <2>2, <2>3
  <2> QED
    BY <2>4 DEF IsSeq
<1>4. CASE header = <<"note">> \o columns
  <2> DEFINE D == E \cup {"note"}
  <2>1. columns \in Seq(D) /\ <<"note">> \in Seq(D)
    BY <1>1
  <2>2. header \in Seq(D)
    BY <1>4, <2>1, ConcatProperties
  <2> QED
    BY <2>2 DEF IsSeq
<1>5. CASE header = SubSeq(columns, 2, Len(columns))
  <2> DEFINE n == Len(columns)
  <2>1. n \in Int /\ \A i \in 1..n : columns[i] \in E
    BY <1>1
  <2> HIDE DEF n
  <2>2. \A i \in 2..n : columns[i] \in E
    BY <2>1
  <2>3. SubSeq(columns, 2, n) \in Seq(E)
    BY <2>1, <2>2, SubSeqProperties
  <2> QED
    BY <1>5, <2>3 DEF IsSeq, n
<1>6. ASSUME NEW c \in ToSet(columns), header = Append(columns, c) PROVE IsSeq(header)
  <2>1. c \in E
    BY <1>1, <1>6 DEF ToSet
  <2>2. header \in Seq(E)
    BY <1>1, <1>6, <2>1, AppendProperties
  <2> QED
    BY <2>2 DEF IsSeq
<1> QED
  BY <1>2, <1>3, <1>4, <1>5, <1>6 DEF Headers

LEMMA InitInv == Init => Inv
<1> SUFFICES ASSUME Init PROVE Inv
  OBVIOUS
<1>1. file = NoFile /\ busy = FALSE /\ edits = 0
  BY DEF Init
<1>2. Drafted
  <2> DEFINE AllDrafts == UNION {Drafts[m] : m \in Messages}
  <2>1. fields \in {f \in [Messages -> AllDrafts] : \A m \in Messages : f[m] \in Drafts[m]}
    BY DEF Init
  <2>2. fields \in [Messages -> AllDrafts] /\ \A m \in Messages : fields[m] \in Drafts[m]
    <3> HIDE DEF AllDrafts
    <3> QED
      BY <2>1
  <2> QED
    BY <2>2 DEF Drafted, AreDrafts
<1>3. FileOK
  <2>1. <<>> \in Seq(DOMAIN Rows) /\ Len(<<>>) = 0
    BY EmptySeq
  <2>2. /\ file.stage = "none" /\ file.header = <<>> /\ file.rows = <<>> /\ file.seen = 0
        /\ IsFile(file)
    BY <1>1 DEF NoFile, IsFile
  <2> QED
    BY <1>1, <2>1, <2>2 DEF FileOK, Stages, IsSeq
<1>4. edits \in 0..MaxEdits /\ busy \in BOOLEAN
  <2>1. MaxEdits \in Nat
    BY BinFileAssumption, Zenon DEF BinFileAssumption
  <2>2. edits \in 0..MaxEdits
    BY <1>1, <2>1
  <2>3. busy \in BOOLEAN
    BY <1>1
  <2> QED
    BY <2>2, <2>3
<1> QED
  BY <1>2, <1>3, <1>4 DEF Inv

\* What a conversion leaves behind is a file of the stage it was in.
LEMMA AbandonOK ==
  ASSUME FileOK, busy, Abandon
  PROVE  FileOK' /\ busy' = FALSE /\ UNCHANGED <<fields, edits, compiled>>
<1>1. busy' = FALSE /\ UNCHANGED <<fields, edits, compiled>>
  BY DEF Abandon
<1>2. CASE file.stage = "torn"
  <2>1. file' = file
    BY <1>2 DEF Abandon
  <2> QED
    BY <1>1, <1>2, <2>1 DEF FileOK, ColumnsFound, Columns, RowFails, HasCell, Stored, CellOf, Row
<1>3. CASE file.stage # "torn"
  <2>1. file' = [NoFile EXCEPT !.stage = file.stage]
    BY <1>3 DEF Abandon
  <2>2. /\ file'.stage = file.stage /\ file'.header = <<>> /\ file'.rows = <<>>
        /\ file'.seen = 0 /\ IsFile(file')
    BY <2>1 DEF NoFile, IsFile
  <2>3. file.stage \in {"empty", "head"}
    BY <1>3 DEF FileOK
  <2>4. <<>> \in Seq(DOMAIN Rows) /\ Len(<<>>) = 0
    BY EmptySeq
  <2>5. IsFile(file)'
    BY <2>2 DEF IsFile
  <2> QED
    BY <1>1, <2>2, <2>3, <2>4, <2>5 DEF FileOK, Stages, IsSeq
<1> QED
  BY <1>1, <1>2, <1>3

\* The sheet and the table stay as they are while a file is written.
LEMMA SameSheetKept ==
  ASSUME file'.table = file.table, file'.header = file.header, file'.rows = file.rows
  PROVE  /\ ColumnsFound(file.header)' <=> ColumnsFound(file.header)
         /\ \A i \in DOMAIN file.rows : RowFails(Row(i))' <=> RowFails(Row(i))
  BY DEF ColumnsFound, Columns, RowFails, HasCell, Stored, CellOf, Row

LEMMA NextInv ==
  (OpenOutput => IsSeq(Now!ColumnNames(Resource))) /\ Inv /\ [Next]_vars => Inv'
<1> SUFFICES ASSUME OpenOutput => IsSeq(Now!ColumnNames(Resource)), Inv, [Next]_vars
             PROVE  Inv'
  OBVIOUS
<1> USE DEF Inv
<1>1. ASSUME NEW m \in Messages, EditProto(m) PROVE Inv'
  <2>1. file' = file /\ busy' = busy
    BY <1>1 DEF EditProto
  <2>2. FileOK'
    BY <2>1 DEF FileOK, ColumnsFound, Columns, RowFails, HasCell, Stored, CellOf, Row
  <2>3. Drafted'
    <3>1. PICK d \in Drafts[m] : fields' = [fields EXCEPT ![m] = d]
      BY <1>1 DEF EditProto
    <3> QED
      BY <3>1 DEF Drafted, AreDrafts
  <2>4. (edits \in 0..MaxEdits)'
    BY <1>1, BinFileAssumption DEF EditProto, BinFileAssumption
  <2> QED
    BY <2>1, <2>2, <2>3, <2>4
<1>2. ASSUME UNCHANGED <<fields, edits, file, busy>> PROVE Inv'
  BY <1>2 DEF Drafted, AreDrafts, FileOK, ColumnsFound, Columns, RowFails, HasCell, Stored,
              CellOf, Row
<1>3. CASE OpenOutput
  <2>1. PICK table \in {Now!TableMeta(Resource)},
             header \in Headers(Now!ColumnNames(Resource)),
             n \in SheetLengths, kind \in DOMAIN Rows :
               file' = [NoFile EXCEPT !.stage = "empty", !.src = fields, !.table = table,
                                      !.header = header, !.rows = [i \in 1..n |-> kind]]
    BY <1>3, Zenon DEF OpenOutput
  <2>2. busy' = TRUE /\ UNCHANGED <<fields, edits, compiled>>
    BY <1>3 DEF OpenOutput
  <2> DEFINE rows == [i \in 1..n |-> kind]
  <2>3. n \in Nat
    BY BinFileAssumption DEF BinFileAssumption
  <2>4. rows \in Seq(DOMAIN Rows) /\ Len(rows) \in Nat
    BY <2>3
  <2>5. IsSeq(header)
    BY <1>3, HeadersAreSeq
  <2> HIDE DEF rows
  <2>6. /\ file'.stage = "empty" /\ file'.header = header /\ file'.rows = rows
        /\ file'.seen = 0 /\ IsFile(file)'
    BY <2>1 DEF NoFile, IsFile, rows
  <2>7. FileOK'
    BY <2>2, <2>4, <2>5, <2>6 DEF FileOK, Stages, IsSeq
  <2>8. Drafted'
    BY <2>2 DEF Drafted, AreDrafts
  <2> QED
    BY <2>2, <2>7, <2>8
<1>4. CASE RefuseColumns \/ CellFails \/ Kill
  <2>1. busy /\ Abandon
    BY <1>4 DEF RefuseColumns, CellFails, Kill
  <2>2. FileOK' /\ busy' = FALSE /\ UNCHANGED <<fields, edits, compiled>>
    BY <2>1, AbandonOK
  <2>3. Drafted'
    BY <2>2 DEF Drafted, AreDrafts
  <2> QED
    BY <2>2, <2>3
<1>5. CASE WriteHead
  <2>1. /\ busy /\ file.stage = "empty" /\ ColumnsFound(file.header)
        /\ file' = [file EXCEPT !.stage = "head"]
        /\ UNCHANGED <<fields, edits, compiled, busy>>
    BY <1>5 DEF WriteHead
  <2>2. /\ file'.stage = "head" /\ file'.header = file.header /\ file'.rows = file.rows
        /\ file'.seen = file.seen /\ file'.table = file.table /\ IsFile(file)'
    BY <2>1 DEF FileOK, IsFile
  <2>3. FileOK'
    BY <2>1, <2>2, SameSheetKept DEF FileOK, Stages, IsSeq
  <2>4. Drafted'
    BY <2>1 DEF Drafted, AreDrafts
  <2> QED
    BY <2>1, <2>3, <2>4
<1>6. CASE WriteRecords
  <2>1. /\ busy /\ file.stage = "head"
        /\ \A i \in DOMAIN file.rows : ~RowFails(Row(i))
        /\ UNCHANGED <<fields, edits, compiled, busy>>
    BY <1>6 DEF WriteRecords
  <2> DEFINE long == \E i \in DOMAIN file.rows : Row(i).more > 0
  <2>2. PICK damage \in {{}} \cup (IF long THEN {{c} : c \in Columns} ELSE {}),
             seen \in 0..Len(file.rows) :
               file' = [file EXCEPT !.stage = "torn", !.damage = damage, !.seen = seen]
    BY <1>6, Zenon DEF WriteRecords
  <2>3. /\ file'.stage = "torn" /\ file'.header = file.header /\ file'.rows = file.rows
        /\ file'.seen = seen /\ file'.table = file.table /\ IsFile(file)'
    BY <2>2 DEF FileOK, IsFile
  <2>4. FileOK'
    BY <2>1, <2>3, SameSheetKept DEF FileOK, Stages, IsSeq
  <2>5. Drafted'
    BY <2>1 DEF Drafted, AreDrafts
  <2> QED
    BY <2>1, <2>4, <2>5
<1>7. CASE Close
  <2>1. /\ busy /\ file.stage = "torn"
        /\ file' = [file EXCEPT !.stage = "full", !.seen = Len(file.rows)]
        /\ busy' = FALSE
        /\ UNCHANGED <<fields, edits, compiled>>
    BY <1>7 DEF Close
  <2>2. /\ file'.stage = "full" /\ file'.header = file.header /\ file'.rows = file.rows
        /\ file'.seen = Len(file.rows) /\ file'.table = file.table /\ IsFile(file)'
    BY <2>1 DEF FileOK, IsFile
  <2>3. Len(file.rows) \in 0..Len(file.rows)
    BY DEF FileOK
  <2>4. FileOK'
    BY <2>1, <2>2, <2>3, SameSheetKept DEF FileOK, Stages, IsSeq
  <2>5. Drafted'
    BY <2>1 DEF Drafted, AreDrafts
  <2> QED
    BY <2>1, <2>4, <2>5
<1> QED
  BY <1>1, <1>2, <1>3, <1>4, <1>5, <1>6, <1>7 DEF Next, GenerateHeader, vars

LEMMA HeaderStep == Drafted /\ HeaderOK /\ [Next]_vars => HeaderOK'
<1> SUFFICES ASSUME Drafted, HeaderOK, [Next]_vars PROVE HeaderOK'
  OBVIOUS
<1>1. compiled' = compiled \/ compiled' = fields
  BY DEF Next, vars, EditProto, GenerateHeader, OpenOutput, RefuseColumns, WriteHead, CellFails,
         WriteRecords, Close, Kill, Abandon
<1> QED
  BY <1>1 DEF Drafted, HeaderOK, AreDrafts, NoMessages

LEMMA SourceStep == Inv /\ SourceOK /\ [Next]_vars => SourceOK'
<1> SUFFICES ASSUME Inv, SourceOK, [Next]_vars PROVE SourceOK'
  OBVIOUS
<1>1. IsFile(file) /\ Drafted /\ (busy => file.stage \in {"empty", "head", "torn"})
  BY DEF Inv, FileOK
<1>2. ASSUME file'.src = file.src, file'.table = file.table,
             busy \/ file.stage \in {"torn", "full"},
             file'.stage = "full" => file'.seen = Len(file'.rows)
      PROVE  SourceOK'
  BY <1>2 DEF SourceOK, AreDrafts, PassesOf, TableOf
<1>3. CASE file' = file /\ busy' = busy
  BY <1>3 DEF SourceOK, AreDrafts, PassesOf, TableOf
<1>4. CASE OpenOutput
  <2>1. PICK table \in {Now!TableMeta(Resource)},
             header \in Headers(Now!ColumnNames(Resource)),
             n \in SheetLengths, kind \in DOMAIN Rows :
               file' = [NoFile EXCEPT !.stage = "empty", !.src = fields, !.table = table,
                                      !.header = header, !.rows = [i \in 1..n |-> kind]]
    BY <1>4, Zenon DEF OpenOutput
  <2>2. file'.stage = "empty" /\ file'.src = fields /\ file'.table = Now!TableMeta(Resource)
    BY <2>1 DEF NoFile
  <2>3. Now!GetsThrough(Resource)
    BY <1>4 DEF OpenOutput
  <2>4. PassesOf(fields) /\ file'.table = TableOf(fields)
    BY <2>2, <2>3, NowTable
  <2>5. PassesOf(file'.src) /\ file'.table = TableOf(file'.src) /\ AreDrafts(file'.src)
    BY <1>1, <2>2, <2>4 DEF Drafted
  <2> QED
    BY <2>2, <2>5 DEF SourceOK
<1>5. CASE RefuseColumns \/ CellFails \/ Kill
  <2>1. busy /\ Abandon
    BY <1>5 DEF RefuseColumns, CellFails, Kill
  <2>2. CASE file.stage = "torn"
    <3>1. file' = file
      BY <2>1, <2>2 DEF Abandon
    <3> QED
      BY <1>2, <2>1, <2>2, <3>1
  <2>3. CASE file.stage # "torn"
    <3>1. busy' = FALSE /\ file' = [NoFile EXCEPT !.stage = file.stage]
      BY <2>1, <2>3 DEF Abandon
    <3>2. file'.stage \in {"empty", "head"}
      BY <1>1, <2>1, <2>3, <3>1 DEF NoFile
    <3> QED
      BY <3>1, <3>2 DEF SourceOK
  <2> QED
    BY <2>2, <2>3
<1>6. CASE WriteHead
  <2>1. busy /\ file' = [file EXCEPT !.stage = "head"]
    BY <1>6 DEF WriteHead
  <2>2. file'.stage = "head" /\ file'.src = file.src /\ file'.table = file.table
    BY <1>1, <2>1 DEF IsFile
  <2> QED
    BY <1>2, <2>1, <2>2
<1>7. CASE WriteRecords
  <2>1. busy /\ \E damage, seen :
                  file' = [file EXCEPT !.stage = "torn", !.damage = damage, !.seen = seen]
    BY <1>7, Zenon DEF WriteRecords
  <2>2. file'.stage = "torn" /\ file'.src = file.src /\ file'.table = file.table
    BY <1>1, <2>1 DEF IsFile
  <2> QED
    BY <1>2, <2>1, <2>2
<1>8. CASE Close
  <2>1. busy /\ file' = [file EXCEPT !.stage = "full", !.seen = Len(file.rows)]
    BY <1>8 DEF Close
  <2>2. /\ file'.src = file.src /\ file'.table = file.table
        /\ file'.seen = Len(file'.rows)
    BY <1>1, <2>1 DEF IsFile
  <2> QED
    BY <1>2, <2>1, <2>2
<1>9. \/ file' = file /\ busy' = busy
      \/ OpenOutput \/ RefuseColumns \/ CellFails \/ Kill \/ WriteHead \/ WriteRecords \/ Close
  BY DEF Next, EditProto, GenerateHeader, vars
<1> QED
  BY <1>3, <1>4, <1>5, <1>6, <1>7, <1>8, <1>9

\* The rows of a sheet are of one kind, and only one that is longer than the
\* header does damage.
DamageOK ==
  /\ \A i, j \in DOMAIN file.rows : file.rows[i] = file.rows[j]
  /\ file.damage # {} => \E i \in DOMAIN file.rows : Row(i).more > 0

LEMMA DamageInit == Init => DamageOK
  BY DEF Init, NoFile, DamageOK

LEMMA DamageStep == Inv /\ DamageOK /\ [Next]_vars => DamageOK'
<1> SUFFICES ASSUME Inv, DamageOK, [Next]_vars PROVE DamageOK'
  OBVIOUS
<1>1. IsFile(file)
  BY DEF Inv, FileOK
<1>2. ASSUME file'.rows = file.rows, file'.damage = file.damage PROVE DamageOK'
  BY <1>2 DEF DamageOK, Row
<1>3. CASE file' = file
  BY <1>2, <1>3
<1>4. ASSUME file'.damage = {}, \A i, j \in DOMAIN file'.rows : file'.rows[i] = file'.rows[j]
      PROVE  DamageOK'
  BY <1>4 DEF DamageOK
<1>5. CASE OpenOutput
  <2>1. PICK table \in {Now!TableMeta(Resource)},
             header \in Headers(Now!ColumnNames(Resource)),
             n \in SheetLengths, kind \in DOMAIN Rows :
               file' = [NoFile EXCEPT !.stage = "empty", !.src = fields, !.table = table,
                                      !.header = header, !.rows = [i \in 1..n |-> kind]]
    BY <1>5, Zenon DEF OpenOutput
  <2>2. file'.damage = {} /\ file'.rows = [i \in 1..n |-> kind]
    BY <2>1 DEF NoFile
  <2> QED
    BY <1>4, <2>2
<1>6. CASE RefuseColumns \/ CellFails \/ Kill
  <2>1. Abandon
    BY <1>6 DEF RefuseColumns, CellFails, Kill
  <2>2. file' = file \/ file' = [NoFile EXCEPT !.stage = file.stage]
    BY <2>1 DEF Abandon
  <2>3. ASSUME file' = [NoFile EXCEPT !.stage = file.stage] PROVE DamageOK'
    <3>1. file'.damage = {} /\ file'.rows = <<>>
      BY <2>3 DEF NoFile
    <3> QED
      BY <1>4, <3>1
  <2> QED
    BY <1>3, <2>2, <2>3
<1>7. CASE WriteHead \/ Close
  <2>1. \/ file' = [file EXCEPT !.stage = "head"]
        \/ file' = [file EXCEPT !.stage = "full", !.seen = Len(file.rows)]
    BY <1>7 DEF WriteHead, Close
  <2>2. file'.rows = file.rows /\ file'.damage = file.damage
    BY <1>1, <2>1, Zenon DEF IsFile
  <2> QED
    BY <1>2, <2>2
<1>8. CASE WriteRecords
  <2> DEFINE long == \E i \in DOMAIN file.rows : Row(i).more > 0
  <2>1. PICK damage \in {{}} \cup (IF long THEN {{c} : c \in Columns} ELSE {}),
             seen \in 0..Len(file.rows) :
               file' = [file EXCEPT !.stage = "torn", !.damage = damage, !.seen = seen]
    BY <1>8, Zenon DEF WriteRecords
  <2>2. file'.rows = file.rows /\ file'.damage = damage
    BY <1>1, <2>1 DEF IsFile
  <2>3. damage # {} => long
    BY <2>1
  <2>4. long => \E i \in DOMAIN file'.rows : Row(i)'.more > 0
    BY <2>2 DEF Row
  <2> QED
    BY <2>2, <2>3, <2>4 DEF DamageOK
<1>9. \/ file' = file \/ OpenOutput \/ RefuseColumns \/ CellFails \/ Kill
      \/ WriteHead \/ WriteRecords \/ Close
  BY DEF Next, EditProto, GenerateHeader, vars
<1> QED
  BY <1>3, <1>5, <1>6, <1>7, <1>8, <1>9

-----------------------------------------------------------------------------
(* What a record holds.                                                    *)

LEMMA CellsOf ==
  ASSUME FileOK, NEW i \in DOMAIN file.rows
  PROVE  /\ Row(i).more \in Int
         /\ \A c : LET type == file.table.meta[c].type
                       cell == CellOf(Row(i), c)
                   IN  type \in NumberTypes /\ cell.type = "Integer" => cell.value \in Int
<1>1. file.rows[i] \in DOMAIN Rows
  BY DEF FileOK
<1> DEFINE row == Rows[file.rows[i]]
<1>2. /\ row.more \in Int
      /\ \A type \in DOMAIN NumberBytes :
           row.cells[type].type = "Integer" => row.cells[type].value \in Int
  BY <1>1, BinFileAssumption, Zenon DEF BinFileAssumption
<1>3. Row(i) = row
  BY DEF Row
<1> HIDE DEF row
<1> QED
  BY <1>2, <1>3, NumbersAre DEF CellOf

LEMMA InvIsTypeOK == Inv => TypeOK
<1> SUFFICES ASSUME Inv PROVE TypeOK
  OBVIOUS
<1>1. /\ \A m \in Messages : fields[m] \in Drafts[m]
      /\ edits \in 0..MaxEdits /\ busy \in BOOLEAN
      /\ file.stage \in {"none", "empty", "head", "torn", "full"}
      /\ file.seen \in 0..Len(file.rows)
  BY DEF Inv, Drafted, AreDrafts, FileOK, Stages
<1>2. ASSUME NEW i \in DOMAIN Records, NEW c \in Columns,
             Records[i].cells[c].from = "cell",
             file.table.meta[c].type \in DOMAIN NumberBytes
      PROVE  Records[i].cells[c].value \in
               NumberRange(NumberBytes[file.table.meta[c].type],
                           IsSigned(file.table.meta[c].type))
  <2> DEFINE type == file.table.meta[c].type
             bin  == Stored(Row(i), c)
  <2>1. i \in 1..file.seen /\ Records[i] = Record(i)
    BY <1>2 DEF Records
  <2>2. i \in DOMAIN file.rows /\ file.stage \in {"torn", "full"}
    BY <1>1, <2>1 DEF Inv, FileOK
  <2>3. ~RowFails(Row(i))
    BY <2>2 DEF Inv, FileOK
  <2>4. HasCell(Row(i), c) /\ Record(i).cells[c].value = CHOOSE v \in bin : TRUE
    BY <1>2, <2>1 DEF Record, Value, Damaged, Unwritten
  <2>5. bin # {}
    BY <2>3, <2>4 DEF RowFails
  <2>6. Record(i).cells[c].value \in bin
    BY <2>4, <2>5
  <2>7. bin = Written(type, file.table.meta[c].size, CellOf(Row(i), c))
    BY DEF Stored
  <2>8. type \in NumberTypes
    BY <1>2, NumbersAre
  <2>9. CellOf(Row(i), c).type = "Integer" => CellOf(Row(i), c).value \in Int
    BY <2>2, <2>8, CellsOf DEF Inv
  <2> HIDE DEF bin, type
  <2>10. Record(i).cells[c].value \in NumberRange(NumberBytes[type], IsSigned(type))
    BY <2>6, <2>7, <2>8, <2>9, WrittenIs
  <2> QED
    BY <2>1, <2>10 DEF type
<1> QED
  BY <1>1, <1>2 DEF TypeOK

\* A row that reaches to the last column has a cell for every column.
LEMMA HasEveryCell ==
  ASSUME FileOK, file.stage \in {"torn", "full"}, NEW i \in DOMAIN file.rows,
         NEW c \in Columns, Row(i).more >= 0
  PROVE  HasCell(Row(i), c)
<1>1. ColumnsFound(file.header)
  BY DEF FileOK
<1>2. PICK p \in DOMAIN file.header : file.header[p] = c
  BY <1>1 DEF ColumnsFound, ToSet
<1>3. Len(file.header) \in Nat /\ DOMAIN file.header = 1..Len(file.header)
  BY DEF FileOK, IsSeq
<1>4. Row(i).more \in Int
  BY CellsOf
<1>5. p <= Len(file.header) + Row(i).more
  BY <1>2, <1>3, <1>4
<1> QED
  BY <1>2, <1>5 DEF HasCell

LEMMA SameInBothOf ==
  ASSUME Inv
  PROVE  SameInBothFormats
<1> SUFFICES ASSUME NEW i \in DOMAIN file.rows, NEW c \in Columns
             PROVE  LET type == file.table.meta[c].type
                        cell == CellOf(Row(i), c)
                        bin  == Stored(Row(i), c)
                    IN  /\ type # "double" => bin \subseteq Json(type, cell)
                        /\ ~(IsText(type) /\ bin = {}) => Json(type, cell) \subseteq bin
                        /\ (/\ cell.type = "Integer" /\ type \in DOMAIN NumberBytes
                            /\ cell.value \in NumberRange(NumberBytes[type], IsSigned(type)))
                             => Json(type, cell) = {cell.value}
  BY DEF SameInBothFormats
<1> DEFINE type == file.table.meta[c].type
           cell == CellOf(Row(i), c)
           bin  == Stored(Row(i), c)
<1>1. bin = Written(type, file.table.meta[c].size, cell)
  BY DEF Stored
<1>2. type \in NumberTypes /\ cell.type = "Integer" => cell.value \in Int
  BY CellsOf DEF Inv
<1> HIDE DEF type, cell, bin
<1>3. /\ type # "double" => bin \subseteq Json(type, cell)
      /\ ~(IsText(type) /\ bin = {}) => Json(type, cell) \subseteq bin
  BY <1>1, SameOf
<1>4. (/\ cell.type = "Integer" /\ type \in DOMAIN NumberBytes
       /\ cell.value \in NumberRange(NumberBytes[type], IsSigned(type)))
        => Json(type, cell) = {cell.value}
  BY <1>2, KeptOf, NumbersAre
<1> QED
  BY <1>3, <1>4 DEF type, cell, bin

-----------------------------------------------------------------------------
(* The meta data of a header are what the codec is about.                  *)

LEMMA NamesAreTexts ==
  /\ \A m \in Messages : m \in Texts
  /\ \A name \in ToSet(Names) : name \in Texts
  /\ \A type \in Now!Leaves : TypeName[type] \in Texts
  /\ Main \in Texts
  /\ \A e \in DOMAIN Enums : e \in Texts /\ \A v \in DOMAIN Enums[e] : v \in Texts
<1>1. Now!Leaves = DOMAIN TypeName
  BY DEF Now!Leaves, Now!Width, Now!Blocks, TypeName
<1> QED
  BY <1>1 DEF Texts

LEMMA TextsAreNames ==
  \A s \in Texts : s \in STRING /\ Len(s) \in Nat \ {0} /\ Text(s) \in Name
<1> TAKE s \in Texts
<1>1. s \in STRING /\ Len(s) \in Nat \ {0}
  BY BinFileAssumption, Zenon DEF BinFileAssumption
<1>2. Len(s) \in Nat
  <2> DEFINE n == Len(s)
  <2>1. n \in Nat \ {0}
    BY <1>1, Zenon
  <2> HIDE DEF n
  <2>2. n \in Nat
    BY <2>1
  <2> QED
    BY <2>2 DEF n
<1>3. Text(s) \in Name
  BY <1>1, <1>2, TextIsName, Zenon
<1> QED
  BY <1>1, <1>3, Zenon

\* What CreateFieldMeta makes of any draft.
IsMeta(g) ==
  /\ g.name \in ToSet(Names) /\ g.type \in Now!Leaves \cup Messages
  /\ g.size \in Nat /\ g.count \in Nat /\ g.offset \in Nat

AreMetas(metas) == IsSeq(metas) /\ \A i \in DOMAIN metas : IsMeta(metas[i])

\* What GenerateMeta is told of a message.
HeaderMetas(m) == Header!MessageMeta(Main, m).metas

\* One of them as it is written.
WrittenMeta(g) ==
  [name |-> Text(g.name), size |-> g.size, offset |-> g.offset, count |-> g.count,
   type |-> Text(IF g.type \in Messages THEN g.type ELSE TypeName[g.type])]

LEMMA WrittenMetaIs ==
  ASSUME NEW g, IsMeta(g)
  PROVE  WrittenMeta(g) \in FieldMetas
<1> DEFINE type == IF g.type \in Messages THEN g.type ELSE TypeName[g.type]
<1>1. g.name \in Texts /\ type \in Texts
  BY NamesAreTexts DEF IsMeta
<1> HIDE DEF type
<1>2. g.size \in Nat /\ g.count \in Nat /\ g.offset \in Nat
  BY DEF IsMeta
<1>3. Text(g.name) \in Name /\ Text(type) \in Name
  BY <1>1, TextsAreNames
<1>4. WrittenMeta(g) = [name |-> Text(g.name), size |-> g.size, offset |-> g.offset,
                        count |-> g.count, type |-> Text(type)]
  BY DEF WrittenMeta, type
<1> QED
  BY <1>2, <1>3, <1>4 DEF FieldMetas

LEMMA MetaOfIs ==
  ASSUME NEW m \in Messages, NEW metas, AreMetas(metas)
  PROVE  MetaOf(m, metas) \in MessageMetas
<1> DEFINE n == Len(metas)
           f == [i \in 1..n |-> WrittenMeta(metas[i])]
           S == {f[i] : i \in 1..n}
           W == {WrittenMeta(g) : g \in ToSet(metas)}
<1>1. n \in Nat /\ DOMAIN metas = 1..n
  BY DEF AreMetas, IsSeq
<1>2. MetaOf(m, metas) = [name |-> Text(m), fields |-> W]
  BY Zenon DEF MetaOf, WrittenMeta
<1>3. ToSet(metas) = {metas[i] : i \in 1..n}
  BY <1>1 DEF ToSet
<1>4. W = S
  BY <1>3
<1>5. \A i \in 1..n : f[i] \in FieldMetas
  BY <1>1, WrittenMetaIs DEF AreMetas
<1>6. IsOn(f, 1..n) /\ IsFiniteSet(1..n)
  BY <1>1, FS_Interval DEF IsOn
<1> HIDE DEF f, W, n
<1>7. IsFiniteSet(Values(f, 1..n))
  BY <1>6, FiniteImage
<1>8. IsFiniteSet(S) /\ S \in SUBSET FieldMetas
  BY <1>5, <1>7 DEF Values
<1>9. Text(m) \in Name
  BY NamesAreTexts, TextsAreNames
<1> HIDE DEF S
<1> QED
  BY <1>2, <1>4, <1>8, <1>9 DEF MessageMetas

LEMMA AreMetasPrefix ==
  ASSUME NEW metas, AreMetas(metas), NEW k \in 0..Len(metas)
  PROVE  AreMetas(SubSeq(metas, 1, k))
<1> DEFINE s == SubSeq(metas, 1, k)
<1>1. PICK E : metas \in Seq(E)
  BY DEF AreMetas, IsSeq
<1>2. /\ Len(metas) \in Nat /\ DOMAIN metas = 1..Len(metas)
      /\ 1 \in Int /\ k \in Nat /\ k <= Len(metas)
  BY <1>1
<1>3. \A i \in 1..k : metas[i] \in E
  BY <1>1, <1>2
<1>4. s \in Seq(E) /\ Len(s) = k /\ \A i \in 1..k : s[i] = metas[i]
  <2>1. k \in Int /\ 1 \in 1..(Len(metas) + 1) /\ k \in (1 - 1)..Len(metas)
    BY <1>2
  <2> QED
    BY <1>1, <1>2, <1>3, <2>1, SubSeqProperties
<1>5. DOMAIN s = 1..k
  BY <1>4
<1>6. IsSeq(s)
  BY <1>4 DEF IsSeq
<1> HIDE DEF s
<1>7. \A i \in 1..k : IsMeta(s[i])
  BY <1>2, <1>4 DEF AreMetas
<1> QED
  BY <1>5, <1>6, <1>7 DEF AreMetas, s

LEMMA EnumMetaIs ==
  ASSUME NEW e \in DOMAIN Enums
  PROVE  EnumMeta(e) \in EnumMetas
<1> DEFINE D == DOMAIN Enums[e]
           f == [v \in D |-> [name |-> Text(v), value |-> Enums[e][v]]]
           S == {f[v] : v \in D}
           W == {[name |-> Text(v), value |-> Enums[e][v]] : v \in D}
<1>1. EnumMeta(e) = [name |-> Text(e), values |-> W]
  BY Zenon DEF EnumMeta
<1>2. W = S
  OBVIOUS
<1>3. IsFiniteSet(D)
  BY BinFileAssumption, Zenon DEF BinFileAssumption
<1>4. \A v \in D : Enums[e][v] \in Nat
  <2>1. Main \in DOMAIN Files
    BY BinFileAssumption DEF BinFileAssumption
  <2>2. /\ <<>> \in DOMAIN Files[Main].scopes
        /\ \A s \in DOMAIN Files[Main].scopes : \A d \in DOMAIN Files[Main].scopes[s] :
             \A v \in DOMAIN Files[Main].scopes[s][d] : Files[Main].scopes[s][d][v] \in Nat
    BY <2>1, BinFileAssumption, Zenon DEF BinFileAssumption
  <2> QED
    BY <2>2 DEF Enums
<1>5. Text(e) \in Name /\ \A v \in D : Text(v) \in Name
  BY NamesAreTexts, TextsAreNames
<1>6. \A v \in D : f[v] \in ValueMetas
  BY <1>4, <1>5 DEF ValueMetas
<1>7. IsOn(f, D)
  BY DEF IsOn
<1> HIDE DEF f, W, D
<1>8. IsFiniteSet(Values(f, D))
  BY <1>3, <1>7, FiniteImage
<1>9. IsFiniteSet(S) /\ S \in SUBSET ValueMetas
  BY <1>6, <1>8 DEF Values
<1> HIDE DEF S
<1> QED
  BY <1>1, <1>2, <1>5, <1>9 DEF EnumMetas

\* A message's meta data are found by its name.
LEMMA FoundIs ==
  Find(FileMeta, Text(Resource)) = GeneratedMeta(Resource)
<1> DEFINE S == {GeneratedMeta(m) : m \in Messages}
           at == Text(Resource)
<1>1. Resource \in Messages
  BY BinFileAssumption DEF BinFileAssumption
<1>2. FileMeta.messages = S
  BY DEF FileMeta
<1>3. \A m \in Messages : GeneratedMeta(m).name = Text(m)
  BY DEF GeneratedMeta, MetaOf
<1>4. \A m \in Messages : Text(m) = at => m = Resource
  BY <1>1, NamesAreTexts, TextsAreNames, TextIsOf, Zenon
<1>5. Find(FileMeta, at) = CHOOSE g \in S : g.name = at
  BY <1>2, Zenon DEF Find
<1> HIDE DEF at
<1>6. \A g \in S : g.name = at <=> g = GeneratedMeta(Resource)
  BY <1>1, <1>3, <1>4 DEF at
<1>7. GeneratedMeta(Resource) \in S
  BY <1>1
<1> HIDE DEF S
<1>8. (CHOOSE g \in S : g.name = at) = GeneratedMeta(Resource)
  BY <1>6, <1>7
<1> QED
  BY <1>5, <1>8 DEF at

-----------------------------------------------------------------------------
(* Layout's lemmas hold of the messages the header was made of.            *)

ProvedHeader == INSTANCE LayoutProofs WITH imports <- {}, home <- InMain, Homes <- {InMain},
                                           MaxFields <- NoFields, Shapes <- {},
                                           fields <- compiled

LEMMA HeaderAssumption == ProvedHeader!LayoutAssumption
<1>1. ProvedHeader!Leaves = Now!Leaves
  BY DEF ProvedHeader!Leaves, ProvedHeader!Width, ProvedHeader!Blocks,
         Now!Leaves, Now!Width, Now!Blocks
<1> QED
  BY <1>1, BinFileAssumption
  DEF BinFileAssumption, ProvedHeader!LayoutAssumption, InMain, NoFields

LEMMA LegalHeader ==
  ASSUME AreDrafts(compiled)
  PROVE  ProvedHeader!Legal /\ ProvedHeader!Distinct
<1>1. ProvedHeader!Leaves = Now!Leaves
  BY DEF ProvedHeader!Leaves, ProvedHeader!Width, ProvedHeader!Blocks,
         Now!Leaves, Now!Width, Now!Blocks
<1>2. \A s : ProvedHeader!ToSet(s) = ToSet(s)
  BY DEF ProvedHeader!ToSet, ToSet
<1>3. \A m \in Messages :
        /\ compiled[m] \in Seq(ProvedHeader!Field)
        /\ \A i \in DOMAIN compiled[m] :
             compiled[m][i].type \in Messages => Level[compiled[m][i].type] < Level[m]
  BY <1>1, <1>2, BinFileAssumption DEF BinFileAssumption, AreDrafts, ProvedHeader!Field
<1>4. compiled \in [Messages -> Seq(ProvedHeader!Field)]
  BY <1>3 DEF AreDrafts
<1>5. ProvedHeader!Distinct
  BY BinFileAssumption DEF BinFileAssumption, AreDrafts, ProvedHeader!Distinct
<1> QED
  BY <1>3, <1>4, <1>5 DEF ProvedHeader!Legal, ProvedHeader!Typed, ProvedHeader!Nested

LEMMA HeaderValues ==
  \A f, name : Header!GetEnumValue(f, name) = ProvedHeader!GetEnumValue(f, name)
<1>1. \A f, r : Header!FindEnumInFile(f, r) = ProvedHeader!FindEnumInFile(f, r)
  BY DEF Header!FindEnumInFile, ProvedHeader!FindEnumInFile, Header!Last, ProvedHeader!Last
<1>2. \A v : Header!TheOnly(v) = ProvedHeader!TheOnly(v)
  BY DEF Header!TheOnly, ProvedHeader!TheOnly
<1>3. \A f, r : Header!InDependency(f, r) = ProvedHeader!InDependency(f, r)
  BY <1>1 DEF Header!InDependency, ProvedHeader!InDependency,
              Header!Dependencies, ProvedHeader!Dependencies
<1>4. \A f, r : Header!InThisFile(f, r) = ProvedHeader!InThisFile(f, r)
  BY <1>1 DEF Header!InThisFile, ProvedHeader!InThisFile
<1>5. Header!NoOption = ProvedHeader!NoOption
  BY DEF Header!NoOption, ProvedHeader!NoOption
<1> QED
  BY <1>2, <1>3, <1>4, <1>5 DEF Header!GetEnumValue, ProvedHeader!GetEnumValue

LEMMA HeaderLeaf ==
  \A m, f : Header!LeafSize(m, f) = ProvedHeader!LeafSize(m, f)
  BY HeaderValues
  DEF Header!LeafSize, ProvedHeader!LeafSize, Header!Width, ProvedHeader!Width,
      Header!Blocks, ProvedHeader!Blocks

LEMMA HeaderSizeOf ==
  \A s : Header!SizeOf(s) = ProvedHeader!SizeOf(s)
  BY DEF Header!SizeOf, ProvedHeader!SizeOf, Header!FoldLeft, ProvedHeader!FoldLeft,
         Header!MapThenFoldSet, ProvedHeader!MapThenFoldSet, Header!Max, ProvedHeader!Max

LEMMA HeaderTypeSize ==
  \A m, f : Header!GetTypeSize(m, f) = ProvedHeader!GetTypeSize(m, f)
<1>1. Header!MessageSize = ProvedHeader!MessageSize
  BY HeaderLeaf, HeaderSizeOf, Zenon DEF Header!MessageSize, ProvedHeader!MessageSize
<1> QED
  BY <1>1, HeaderLeaf DEF Header!GetTypeSize, ProvedHeader!GetTypeSize

LEMMA HeaderFieldMeta ==
  /\ \A g, m, f : Header!HasMeta(g, m, f) = ProvedHeader!HasMeta(g, m, f)
  /\ \A g, m, f : Header!FieldMeta(g, m, f) = ProvedHeader!FieldMeta(g, m, f)
<1>1. Header!NoOption = ProvedHeader!NoOption
  BY DEF Header!NoOption, ProvedHeader!NoOption
<1>2. \A g, f : Header!MetaCount(g, f) = ProvedHeader!MetaCount(g, f)
  BY <1>1, HeaderValues DEF Header!MetaCount, ProvedHeader!MetaCount
<1>3. \A g, m, f : Header!HasMeta(g, m, f) = ProvedHeader!HasMeta(g, m, f)
  BY <1>1, <1>2, HeaderTypeSize DEF Header!HasMeta, ProvedHeader!HasMeta
<1>4. \A g, m, f : Header!FieldMeta(g, m, f) = ProvedHeader!FieldMeta(g, m, f)
  BY <1>1, <1>2, HeaderTypeSize DEF Header!FieldMeta, ProvedHeader!FieldMeta
<1> QED
  BY <1>3, <1>4, Zenon

LEMMA HeaderMeta ==
  \A g, m : Header!MessageMeta(g, m) = ProvedHeader!MessageMeta(g, m)
<1> SUFFICES ASSUME NEW g, NEW m
             PROVE  Header!MessageMeta(g, m) = ProvedHeader!MessageMeta(g, m)
  OBVIOUS
<1> DEFINE ok     == \A i \in DOMAIN compiled[m] : Header!HasMeta(g, m, compiled[m][i])
           okP    == \A i \in DOMAIN compiled[m] : ProvedHeader!HasMeta(g, m, compiled[m][i])
           given  == [i \in DOMAIN compiled[m] |-> Header!FieldMeta(g, m, compiled[m][i])]
           givenP == [i \in DOMAIN compiled[m] |-> ProvedHeader!FieldMeta(g, m, compiled[m][i])]
           metas  == Header!FoldLeft(Header!CreateFieldMeta, <<>>, given)
           metasP == ProvedHeader!FoldLeft(ProvedHeader!CreateFieldMeta, <<>>, givenP)
<1>1. \A base, seq : Header!FoldLeft(Header!CreateFieldMeta, base, seq)
                       = ProvedHeader!FoldLeft(ProvedHeader!CreateFieldMeta, base, seq)
  BY DEF Header!FoldLeft, ProvedHeader!FoldLeft, Header!MapThenFoldSet,
         ProvedHeader!MapThenFoldSet, Header!Max, ProvedHeader!Max,
         Header!CreateFieldMeta, ProvedHeader!CreateFieldMeta, Header!Last, ProvedHeader!Last
<1>2. ok = okP
  BY HeaderFieldMeta, Zenon
<1>3. given = givenP
  BY HeaderFieldMeta
<1> HIDE DEF given, givenP
<1>4. metas = metasP
  BY <1>1, <1>3
<1>5. Header!MessageMeta(g, m) = [ok |-> ok, metas |-> metas]
  BY DEF Header!MessageMeta, given
<1>6. ProvedHeader!MessageMeta(g, m) = [ok |-> okP, metas |-> metasP]
  BY DEF ProvedHeader!MessageMeta, givenP
<1> HIDE DEF ok, okP, metas, metasP
<1> QED
  BY <1>2, <1>4, <1>5, <1>6

LEMMA HeaderMetasAre ==
  ASSUME AreDrafts(compiled), NEW m \in Messages
  PROVE  /\ AreMetas(HeaderMetas(m)) /\ IsSeq(compiled[m])
         /\ DOMAIN HeaderMetas(m) = DOMAIN compiled[m]
<1> DEFINE own   == compiled[m]
           metas == HeaderMetas(m)
<1>1. ProvedHeader!Legal
  BY LegalHeader
<1>2. own \in Drafts[m]
  BY DEF AreDrafts
<1> DEFINE F == [name : ToSet(Names), type : Now!Leaves \cup Messages,
                 repeated : BOOLEAN, count : Seq(STRING), size : Seq(STRING)]
<1>3. /\ IsSeq(own)
      /\ \A i \in DOMAIN own : own[i].name \in ToSet(Names)
                              /\ own[i].type \in Now!Leaves \cup Messages
  <2>1. own \in Seq(F)
    BY <1>2, BinFileAssumption, Zenon DEF BinFileAssumption
  <2>2. \A f \in F : f.name \in ToSet(Names) /\ f.type \in Now!Leaves \cup Messages
    OBVIOUS
  <2> HIDE DEF F, own
  <2>3. IsSeq(own) /\ \A i \in DOMAIN own : own[i] \in F
    BY <2>1 DEF IsSeq
  <2> QED
    BY <2>2, <2>3
<1>4. metas = ProvedHeader!MetasOf(Main, m)
  BY HeaderMeta DEF HeaderMetas, ProvedHeader!MetasOf
<1>5. ProvedHeader!IsSeq(own)
  BY <1>3 DEF IsSeq, ProvedHeader!IsSeq
<1>6. Main \in DOMAIN Files
  BY BinFileAssumption DEF BinFileAssumption
<1> HIDE DEF metas, own
<1>7. /\ ProvedHeader!IsSeq(metas) /\ DOMAIN metas = DOMAIN own
      /\ \A i \in DOMAIN own : metas[i].name = own[i].name /\ metas[i].type = own[i].type
  BY <1>4, <1>5, HeaderAssumption, ProvedHeader!MetaIs DEF own
<1>8. \A i \in DOMAIN metas :
        metas[i].size \in Nat /\ metas[i].count \in Nat /\ metas[i].offset \in Nat
  BY <1>1, <1>4, <1>6, HeaderAssumption, ProvedHeader!MetaNumbers
<1>9. IsSeq(metas)
  BY <1>7 DEF ProvedHeader!IsSeq, IsSeq
<1> QED
  BY <1>3, <1>7, <1>8, <1>9 DEF own, metas, AreMetas, IsMeta

\* A header has a message's fields up to the first that fails.
LEMMA GeneratedIs ==
  ASSUME AreDrafts(compiled), NEW m \in Messages
  PROVE  GeneratedMeta(m) \in MessageMetas
<1> DEFINE own   == compiled[m]
           fails == {i \in DOMAIN own : ~Header!HasMeta(Main, m, own[i])}
           least == CHOOSE i \in fails : \A j \in fails : i <= j
           last  == IF fails = {} THEN Len(own) ELSE least - 1
           metas == SubSeq(HeaderMetas(m), 1, last)
<1>1. GeneratedMeta(m) = MetaOf(m, metas)
  BY DEF GeneratedMeta, HeaderMetas
<1>2. AreMetas(HeaderMetas(m)) /\ DOMAIN HeaderMetas(m) = DOMAIN own /\ IsSeq(own)
  BY HeaderMetasAre
<1>3. Len(HeaderMetas(m)) = Len(own) /\ Len(own) \in Nat /\ DOMAIN own = 1..Len(own)
  BY <1>2 DEF AreMetas, IsSeq
<1>4. last \in 0..Len(own)
  <2>1. CASE fails = {}
    BY <1>3, <2>1
  <2>2. CASE fails # {}
    <3>1. fails \in SUBSET (Nat \ {0}) /\ fails \subseteq 1..Len(own)
      BY <1>3
    <3> HIDE DEF fails
    <3>2. \E i \in fails : \A j \in fails : i <= j
      BY <2>2, <3>1, LeastIs
    <3>3. least \in fails
      BY <3>2
    <3> HIDE DEF least
    <3>4. least - 1 \in 0..Len(own)
      BY <1>3, <3>1, <3>3
    <3> QED
      BY <2>2, <3>4
  <2> QED
    BY <2>1, <2>2
<1> HIDE DEF last
<1>5. AreMetas(metas)
  BY <1>2, <1>3, <1>4, AreMetasPrefix
<1> HIDE DEF metas
<1> QED
  BY <1>1, <1>5, MetaOfIs

LEMMA FileMetaIs ==
  ASSUME AreDrafts(compiled)
  PROVE  FileMeta \in FileMetas
<1> DEFINE E == DOMAIN Enums
           f == [m \in Messages |-> GeneratedMeta(m)]
           g == [e \in E |-> EnumMeta(e)]
           S == {GeneratedMeta(m) : m \in Messages}
           T == {EnumMeta(e) : e \in E}
<1>1. FileMeta = [name |-> Text(Main), messages |-> S, enums |-> T]
  BY Zenon DEF FileMeta
<1>2. S = Values(f, Messages) /\ T = Values(g, E)
  BY DEF Values
<1>3. IsFiniteSet(Messages) /\ IsFiniteSet(E)
  BY BinFileAssumption, Zenon DEF BinFileAssumption
<1>4. IsOn(f, Messages) /\ IsOn(g, E)
  BY DEF IsOn
<1>5. S \in SUBSET MessageMetas /\ T \in SUBSET EnumMetas
  BY GeneratedIs, EnumMetaIs
<1> HIDE DEF f, g, E, S, T
<1>6. IsFiniteSet(S)
  BY <1>2, <1>3, <1>4, FiniteImage
<1>7. IsFiniteSet(T)
  BY <1>2, <1>3, <1>4, FiniteImage
<1>8. Text(Main) \in Name
  BY NamesAreTexts, TextsAreNames
<1> QED
  BY <1>1, <1>5, <1>6, <1>7, <1>8 DEF FileMetas

\* The digest of a header's message is RFC 1321's however it is cut.
LEMMA DigestOf ==
  ASSUME HeaderOK
  PROVE  DigestAgrees
<1> SUFFICES ASSUME AreDrafts(compiled)
             PROVE  CutsAgree(MessageBytes(GeneratedMeta(Resource)))
  BY DEF HeaderOK, DigestAgrees
<1>1. GeneratedMeta(Resource) \in MessageMetas
  BY GeneratedIs, BinFileAssumption DEF BinFileAssumption
<1>2. MessageBytes(GeneratedMeta(Resource)) \in Seq(Byte)
  BY <1>1, MessageIs
<1> QED
  BY <1>2, AnyCuts

LEMMA RoundTripOf ==
  ASSUME HeaderOK
  PROVE  FileFits(FileMeta) => MetaRoundTrip
<1> SUFFICES ASSUME AreDrafts(compiled), FileFits(FileMeta)
             PROVE  \A meta \in {FileMeta} : \A bytes \in {FileBytes(meta)} :
                      ReadFile(bytes) = {meta} /\ Len(bytes) = FileSize(meta)
  BY DEF HeaderOK, MetaRoundTrip
<1>1. FileMeta \in FileMetas
  BY FileMetaIs
<1>2. /\ ReadFile(FileBytes(FileMeta)) = {FileMeta}
      /\ Len(FileBytes(FileMeta)) = FileSize(FileMeta)
  BY <1>1, WrittenIsRead
<1> QED
  BY <1>2

-----------------------------------------------------------------------------
(* Its struct, and the size and the digest of a file made of the same.     *)

LEMMA MadeValues ==
  \A f, name : Now!GetEnumValue(f, name) = ProvedHeader!GetEnumValue(f, name)
<1>1. \A f, r : Now!FindEnumInFile(f, r) = ProvedHeader!FindEnumInFile(f, r)
  BY DEF Now!FindEnumInFile, ProvedHeader!FindEnumInFile, Now!Last, ProvedHeader!Last
<1>2. \A v : Now!TheOnly(v) = ProvedHeader!TheOnly(v)
  BY DEF Now!TheOnly, ProvedHeader!TheOnly
<1>3. \A f, r : Now!InDependency(f, r) = ProvedHeader!InDependency(f, r)
  BY <1>1 DEF Now!InDependency, ProvedHeader!InDependency,
              Now!Dependencies, ProvedHeader!Dependencies
<1>4. \A f, r : Now!InThisFile(f, r) = ProvedHeader!InThisFile(f, r)
  BY <1>1 DEF Now!InThisFile, ProvedHeader!InThisFile
<1>5. Now!NoOption = ProvedHeader!NoOption
  BY DEF Now!NoOption, ProvedHeader!NoOption
<1> QED
  BY <1>2, <1>3, <1>4, <1>5 DEF Now!GetEnumValue, ProvedHeader!GetEnumValue

LEMMA MadeLeafSize ==
  \A m, f : Now!LeafSize(m, f) = ProvedHeader!LeafSize(m, f)
  BY MadeValues
  DEF Now!LeafSize, ProvedHeader!LeafSize, Now!Width, ProvedHeader!Width,
      Now!Blocks, ProvedHeader!Blocks

LEMMA MadeLeaf == \A m, f : Now!Leaf(m, f) = ProvedHeader!Leaf(m, f)
  BY MadeLeafSize, Zenon DEF Now!Leaf, ProvedHeader!Leaf

LEMMA MadeSpread ==
  /\ \A n, k : Now!Numbered(n, k) = ProvedHeader!Numbered(n, k)
  /\ \A s : Now!FlattenSeq(s) = ProvedHeader!FlattenSeq(s)
  /\ \A c, i : Now!Spread(c, i) = ProvedHeader!Spread(c, i)
<1>1. \A n, k : Now!Numbered(n, k) = ProvedHeader!Numbered(n, k)
  BY DEF Now!Numbered, ProvedHeader!Numbered
<1>2. \A s : Now!FlattenSeq(s) = ProvedHeader!FlattenSeq(s)
  BY DEF Now!FlattenSeq, ProvedHeader!FlattenSeq
<1>3. \A p, n : Now!Concat(p, n) = ProvedHeader!Concat(p, n)
  BY DEF Now!Concat, ProvedHeader!Concat
<1>4. \A c, i : Now!Spread(c, i) = ProvedHeader!Spread(c, i)
  BY <1>2, <1>3 DEF Now!Spread, ProvedHeader!Spread
<1> QED
  BY <1>1, <1>2, <1>4, Zenon

LEMMA MadeCopies == \A f, g : Now!CopiesOf(f, g) = ProvedHeader!CopiesOf(f, g)
  BY MadeSpread, MadeValues DEF Now!CopiesOf, ProvedHeader!CopiesOf

LEMMA MadeFlat == ProvedHeader!Flatten = Flat(compiled)
<1> DEFINE In(F, at, f) ==
             IF f.type \in Messages THEN F[<<at[1], f.type>>] ELSE ProvedHeader!Leaf(at[2], f)
           Body(F, at) ==
             LET own == compiled[at[2]]
             IN  [ok      |-> \A i \in DOMAIN own :
                                /\ own[i].repeated =>
                                     ProvedHeader!GetEnumValue(at[1], own[i].count) # 0
                                /\ In(F, at, own[i]).ok,
                  columns |-> ProvedHeader!FlattenSeq([i \in DOMAIN own |->
                                ProvedHeader!Spread(ProvedHeader!CopiesOf(at[1], own[i]),
                                                    In(F, at, own[i]).columns)])]
           D == (DOMAIN Files) \X Messages
<1>1. ASSUME NEW F, NEW at PROVE Body(F, at) = FlatBody(compiled, F, at)
  <2>1. \A f : In(F, at, f) = FlatInner(F, at, f)
    BY MadeLeaf DEF FlatInner
  <2> HIDE DEF In
  <2> QED
    BY <2>1, MadeCopies, MadeSpread, MadeValues, Zenon DEF FlatBody
<1>2. ProvedHeader!Flatten = CHOOSE F : F = [at \in D |-> Body(F, at)]
  BY DEF ProvedHeader!Flatten
<1>3. Flat(compiled) = CHOOSE F : F = [at \in D |-> FlatBody(compiled, F, at)]
  BY DEF Flat
<1> HIDE DEF Body, D
<1>4. \A F : (F = [at \in D |-> Body(F, at)]) <=> (F = [at \in D |-> FlatBody(compiled, F, at)])
  BY <1>1
<1> QED
  BY <1>2, <1>3, <1>4

LEMMA MadeTable ==
  /\ ProvedHeader!GetsThrough(Resource) = PassesOf(compiled)
  /\ ProvedHeader!TableMeta(Resource) = TableOf(compiled)
<1>1. InMain[Resource] = Main
  BY BinFileAssumption DEF BinFileAssumption, InMain
<1>2. ProvedHeader!GetsThrough(Resource) = PassesOf(compiled)
  BY <1>1, MadeFlat, Zenon DEF ProvedHeader!GetsThrough, PassesOf
<1>3. \A base, seq : Now!FoldLeft(Now!CreateField, base, seq)
                       = ProvedHeader!FoldLeft(ProvedHeader!CreateField, base, seq)
  BY DEF Now!FoldLeft, ProvedHeader!FoldLeft, Now!MapThenFoldSet,
         ProvedHeader!MapThenFoldSet, Now!Max, ProvedHeader!Max,
         Now!CreateField, ProvedHeader!CreateField, Now!Emplace, ProvedHeader!Emplace
<1>4. ProvedHeader!TableMeta(Resource) = TableOf(compiled)
  BY <1>1, <1>3, MadeFlat, Zenon DEF ProvedHeader!TableMeta, TableOf
<1> QED
  BY <1>2, <1>4, Zenon

LEMMA MadeCppValue == \A f, name : Now!CppValue(f, name) = ProvedHeader!CppValue(f, name)
<1>1. \A f, r : Now!FindEnumInFile(f, r) = ProvedHeader!FindEnumInFile(f, r)
  BY DEF Now!FindEnumInFile, ProvedHeader!FindEnumInFile, Now!Last, ProvedHeader!Last
<1>2. \A v : Now!TheOnly(v) = ProvedHeader!TheOnly(v)
  BY DEF Now!TheOnly, ProvedHeader!TheOnly
<1>3. \A f : Now!Visible(f) = ProvedHeader!Visible(f)
  BY DEF Now!Visible, ProvedHeader!Visible, Now!Dependencies, ProvedHeader!Dependencies
<1>4. Now!NoOption = ProvedHeader!NoOption
  BY DEF Now!NoOption, ProvedHeader!NoOption
<1> QED
  BY <1>1, <1>2, <1>3, <1>4, Zenon DEF Now!CppValue, ProvedHeader!CppValue

LEMMA NextCompiles ==
  ASSUME compiled' = fields
  PROVE  ProvedHeader!Compiles(Resource)' <=> Now!Compiles(Resource)
<1>1. ProvedHeader!Reach' = Now!Reach
  BY DEF ProvedHeader!Reach, Now!Reach
<1>2. \A m : ProvedHeader!FieldsOf(m)' = Now!FieldsOf(m)
  BY DEF ProvedHeader!FieldsOf, Now!FieldsOf, ProvedHeader!ToSet, Now!ToSet
<1> QED
  BY <1>1, <1>2, MadeCppValue DEF ProvedHeader!Compiles, Now!Compiles

CompiledOK == compiled # NoMessages => ProvedHeader!Compiles(Resource)

LEMMA CompiledStep == CompiledOK /\ [Next]_vars => CompiledOK'
<1> SUFFICES ASSUME CompiledOK, [Next]_vars PROVE CompiledOK'
  OBVIOUS
<1>1. \/ compiled' = compiled
      \/ compiled' = fields /\ Now!Compiles(Resource)
  BY Zenon DEF Next, vars, EditProto, GenerateHeader, OpenOutput, RefuseColumns, WriteHead, CellFails,
         WriteRecords, Close, Kill, Abandon
<1>2. CASE compiled' = compiled
  <2>1. ProvedHeader!Compiles(Resource)' <=> ProvedHeader!Compiles(Resource)
    BY <1>2 DEF ProvedHeader!Compiles, ProvedHeader!Reach, ProvedHeader!FieldsOf
  <2> QED
    BY <1>2, <2>1 DEF CompiledOK, NoMessages
<1>3. CASE compiled' = fields /\ Now!Compiles(Resource)
  BY <1>3, NextCompiles DEF CompiledOK, NoMessages
<1> QED
  BY <1>1, <1>2, <1>3

LEMMA HeaderCppValue == \A f, name : Header!CppValue(f, name) = ProvedHeader!CppValue(f, name)
<1>1. \A f, r : Header!FindEnumInFile(f, r) = ProvedHeader!FindEnumInFile(f, r)
  BY DEF Header!FindEnumInFile, ProvedHeader!FindEnumInFile, Header!Last, ProvedHeader!Last
<1>2. \A v : Header!TheOnly(v) = ProvedHeader!TheOnly(v)
  BY DEF Header!TheOnly, ProvedHeader!TheOnly
<1>3. \A f : Header!Visible(f) = ProvedHeader!Visible(f)
  BY DEF Header!Visible, ProvedHeader!Visible, Header!Dependencies, ProvedHeader!Dependencies
<1>4. Header!NoOption = ProvedHeader!NoOption
  BY DEF Header!NoOption, ProvedHeader!NoOption
<1> QED
  BY <1>1, <1>2, <1>3, <1>4, Zenon DEF Header!CppValue, ProvedHeader!CppValue

LEMMA HeaderSpread ==
  /\ \A n, k : Header!Numbered(n, k) = ProvedHeader!Numbered(n, k)
  /\ \A s : Header!FlattenSeq(s) = ProvedHeader!FlattenSeq(s)
  /\ \A c, i : Header!Spread(c, i) = ProvedHeader!Spread(c, i)
<1>1. \A n, k : Header!Numbered(n, k) = ProvedHeader!Numbered(n, k)
  BY DEF Header!Numbered, ProvedHeader!Numbered
<1>2. \A s : Header!FlattenSeq(s) = ProvedHeader!FlattenSeq(s)
  BY DEF Header!FlattenSeq, ProvedHeader!FlattenSeq
<1>3. \A p, n : Header!Concat(p, n) = ProvedHeader!Concat(p, n)
  BY DEF Header!Concat, ProvedHeader!Concat
<1>4. \A c, i : Header!Spread(c, i) = ProvedHeader!Spread(c, i)
  BY <1>2, <1>3 DEF Header!Spread, ProvedHeader!Spread
<1> QED
  BY <1>1, <1>2, <1>4, Zenon

LEMMA HeaderMembers == \A m : Header!Members(m) = ProvedHeader!Members(m)
<1>1. \A S : Header!Cardinality(S) = ProvedHeader!Cardinality(S)
  BY DEF Header!Cardinality, ProvedHeader!Cardinality
<1>2. \A m, f : Header!Before(m, f) = ProvedHeader!Before(m, f)
  BY DEF Header!Before, ProvedHeader!Before, Header!Position, ProvedHeader!Position,
         Header!ToSet, ProvedHeader!ToSet
<1> QED
  BY <1>1, <1>2 DEF Header!Members, ProvedHeader!Members, Header!ToSet, ProvedHeader!ToSet

LEMMA HeaderStruct == Header!StructLeaves = ProvedHeader!StructLeaves
<1> DEFINE InH(F, m, f) ==
             CASE f.type \in Messages -> F[f.type]
               [] f.type = "string" ->
                    <<[name |-> "", size |-> Header!CppValue(InMain[m], f.size)]>>
               [] f.type = "bytes"  -> <<[name |-> "", size |-> 1]>>
               [] OTHER             -> <<[name |-> "", size |-> Header!Width[f.type]]>>
           CopiesH(m, f) ==
             IF f.repeated THEN Header!Numbered(f.name, Header!CppValue(InMain[m], f.count))
             ELSE <<f.name>>
           BodyH(F, m) ==
             LET members == Header!Members(m)
             IN  Header!FlattenSeq([i \in DOMAIN members |->
                   Header!Spread(CopiesH(m, members[i]), InH(F, m, members[i]))])
           InP(F, m, f) ==
             CASE f.type \in Messages -> F[f.type]
               [] f.type = "string" ->
                    <<[name |-> "", size |-> ProvedHeader!CppValue(InMain[m], f.size)]>>
               [] f.type = "bytes"  -> <<[name |-> "", size |-> 1]>>
               [] OTHER             -> <<[name |-> "", size |-> ProvedHeader!Width[f.type]]>>
           CopiesP(m, f) ==
             IF f.repeated
             THEN ProvedHeader!Numbered(f.name, ProvedHeader!CppValue(InMain[m], f.count))
             ELSE <<f.name>>
           BodyP(F, m) ==
             LET members == ProvedHeader!Members(m)
             IN  ProvedHeader!FlattenSeq([i \in DOMAIN members |->
                   ProvedHeader!Spread(CopiesP(m, members[i]), InP(F, m, members[i]))])
<1>1. Header!Width = ProvedHeader!Width
  BY DEF Header!Width, ProvedHeader!Width
<1>2. \A m, f : CopiesH(m, f) = CopiesP(m, f)
  BY HeaderSpread, HeaderCppValue, Zenon
<1>3. \A F, m, f : InH(F, m, f) = InP(F, m, f)
  BY <1>1, HeaderCppValue, Zenon
<1>4. Header!StructLeaves = CHOOSE F : F = [m \in Messages |-> BodyH(F, m)]
  BY DEF Header!StructLeaves
<1>5. ProvedHeader!StructLeaves = CHOOSE F : F = [m \in Messages |-> BodyP(F, m)]
  BY DEF ProvedHeader!StructLeaves
<1> HIDE DEF InH, InP, CopiesH, CopiesP
<1>6. \A F, m : BodyH(F, m) = BodyP(F, m)
  BY <1>2, <1>3, HeaderMembers, HeaderSpread
<1> HIDE DEF BodyH, BodyP
<1>7. \A F : (F = [m \in Messages |-> BodyH(F, m)]) <=> (F = [m \in Messages |-> BodyP(F, m)])
  BY <1>6
<1> QED
  BY <1>4, <1>5, <1>7

LEMMA SourceValues ==
  \A f, name : Source!GetEnumValue(f, name) = ProvedHeader!GetEnumValue(f, name)
<1>1. \A f, r : Source!FindEnumInFile(f, r) = ProvedHeader!FindEnumInFile(f, r)
  BY DEF Source!FindEnumInFile, ProvedHeader!FindEnumInFile, Source!Last, ProvedHeader!Last
<1>2. \A v : Source!TheOnly(v) = ProvedHeader!TheOnly(v)
  BY DEF Source!TheOnly, ProvedHeader!TheOnly
<1>3. \A f, r : Source!InDependency(f, r) = ProvedHeader!InDependency(f, r)
  BY <1>1 DEF Source!InDependency, ProvedHeader!InDependency,
              Source!Dependencies, ProvedHeader!Dependencies
<1>4. \A f, r : Source!InThisFile(f, r) = ProvedHeader!InThisFile(f, r)
  BY <1>1 DEF Source!InThisFile, ProvedHeader!InThisFile
<1>5. Source!NoOption = ProvedHeader!NoOption
  BY DEF Source!NoOption, ProvedHeader!NoOption
<1> QED
  BY <1>2, <1>3, <1>4, <1>5 DEF Source!GetEnumValue, ProvedHeader!GetEnumValue

LEMMA SourceLeafSize ==
  \A m, f : Source!LeafSize(m, f) = ProvedHeader!LeafSize(m, f)
  BY SourceValues
  DEF Source!LeafSize, ProvedHeader!LeafSize, Source!Width, ProvedHeader!Width,
      Source!Blocks, ProvedHeader!Blocks

\* The meta data a conversion makes of the messages of the header.
LEMMA SourceMeta ==
  ASSUME file.src = compiled
  PROVE  Source!MessageMeta(Main, Resource) = ProvedHeader!MessageMeta(Main, Resource)
<1>1. \A s : Source!SizeOf(s) = ProvedHeader!SizeOf(s)
  BY DEF Source!SizeOf, ProvedHeader!SizeOf, Source!FoldLeft, ProvedHeader!FoldLeft,
         Source!MapThenFoldSet, ProvedHeader!MapThenFoldSet, Source!Max, ProvedHeader!Max
<1>2. Source!MessageSize = ProvedHeader!MessageSize
  BY <1>1, SourceLeafSize DEF Source!MessageSize, ProvedHeader!MessageSize
<1>3. \A m, f : Source!GetTypeSize(m, f) = ProvedHeader!GetTypeSize(m, f)
  BY <1>2, SourceLeafSize DEF Source!GetTypeSize, ProvedHeader!GetTypeSize
<1>4. Source!NoOption = ProvedHeader!NoOption
  BY DEF Source!NoOption, ProvedHeader!NoOption
<1>5. \A g, f : Source!MetaCount(g, f) = ProvedHeader!MetaCount(g, f)
  BY <1>4, SourceValues DEF Source!MetaCount, ProvedHeader!MetaCount
<1>6. \A g, m, f : Source!HasMeta(g, m, f) = ProvedHeader!HasMeta(g, m, f)
  BY <1>3, <1>4, <1>5 DEF Source!HasMeta, ProvedHeader!HasMeta
<1>7. \A g, m, f : Source!FieldMeta(g, m, f) = ProvedHeader!FieldMeta(g, m, f)
  BY <1>3, <1>4, <1>5 DEF Source!FieldMeta, ProvedHeader!FieldMeta
<1>8. \A base, seq : Source!FoldLeft(Source!CreateFieldMeta, base, seq)
                       = ProvedHeader!FoldLeft(ProvedHeader!CreateFieldMeta, base, seq)
  BY DEF Source!FoldLeft, ProvedHeader!FoldLeft, Source!MapThenFoldSet,
         ProvedHeader!MapThenFoldSet, Source!Max, ProvedHeader!Max,
         Source!CreateFieldMeta, ProvedHeader!CreateFieldMeta, Source!Last, ProvedHeader!Last
<1> DEFINE own    == compiled[Resource]
           given  == [i \in DOMAIN own |-> Source!FieldMeta(Main, Resource, own[i])]
           givenP == [i \in DOMAIN own |-> ProvedHeader!FieldMeta(Main, Resource, own[i])]
           ok     == \A i \in DOMAIN own : Source!HasMeta(Main, Resource, own[i])
           okP    == \A i \in DOMAIN own : ProvedHeader!HasMeta(Main, Resource, own[i])
           metas  == Source!FoldLeft(Source!CreateFieldMeta, <<>>, given)
           metasP == ProvedHeader!FoldLeft(ProvedHeader!CreateFieldMeta, <<>>, givenP)
<1>9. given = givenP
  BY <1>7
<1>10. ok = okP
  BY <1>6, Zenon
<1>11. Source!MessageMeta(Main, Resource) = [ok |-> ok, metas |-> metas]
  BY DEF Source!MessageMeta
<1>12. ProvedHeader!MessageMeta(Main, Resource) = [ok |-> okP, metas |-> metasP]
  BY DEF ProvedHeader!MessageMeta
<1> HIDE DEF given, givenP, ok, okP
<1>13. metas = metasP
  BY <1>8, <1>9
<1> HIDE DEF metas, metasP
<1> QED
  BY <1>10, <1>11, <1>12, <1>13

\* All of them are in the header if none failed.
LEMMA WholeMeta ==
  ASSUME AreDrafts(compiled), Header!MessageMeta(Main, Resource).ok
  PROVE  GeneratedMeta(Resource) = MetaOf(Resource, HeaderMetas(Resource))
<1> DEFINE own   == compiled[Resource]
           metas == HeaderMetas(Resource)
           fails == {i \in DOMAIN own : ~Header!HasMeta(Main, Resource, own[i])}
<1>1. Resource \in Messages
  BY BinFileAssumption DEF BinFileAssumption
<1>2. AreMetas(metas) /\ DOMAIN metas = DOMAIN own /\ IsSeq(own)
  BY <1>1, HeaderMetasAre
<1>3. fails = {}
  BY DEF Header!MessageMeta
<1>4. GeneratedMeta(Resource) = MetaOf(Resource, SubSeq(metas, 1, Len(own)))
  BY <1>3 DEF GeneratedMeta, HeaderMetas
<1> HIDE DEF metas, own
<1>5. Len(own) = Len(metas) /\ SubSeq(metas, 1, Len(metas)) = metas
  BY <1>2 DEF AreMetas, IsSeq
<1> QED
  BY <1>4, <1>5, Zenon DEF metas

LEMMA SameDigest ==
  ASSUME AreDrafts(compiled), file.src = compiled, Header!MessageMeta(Main, Resource).ok,
         FileFits(FileMeta)
  PROVE  ConvertMD5 \in ReadersMD5
<1>1. Source!MessageMeta(Main, Resource) = Header!MessageMeta(Main, Resource)
  BY SourceMeta, HeaderMeta
<1>2. ConvertMD5 = MD5(MessageBytes(MetaOf(Resource, HeaderMetas(Resource))))
  BY <1>1, Zenon DEF ConvertMD5, HeaderMetas
<1>3. FileMeta \in FileMetas
  BY FileMetaIs
<1>4. ReadFile(FileBytes(FileMeta)) = {FileMeta}
  BY <1>3, WrittenIsRead
<1>5. MD5(MessageBytes(Find(FileMeta, Text(Resource)))) \in ReadersMD5
  BY <1>4 DEF ReadersMD5
<1> QED
  BY <1>2, <1>5, FoundIs, WholeMeta

LEMMA SameSize ==
  ASSUME AreDrafts(compiled), ProvedHeader!Compiles(Resource), PassesOf(compiled)
  PROVE  TableOf(compiled).size = Header!SizeOf(Struct)
<1>1. Resource \in Messages
  BY BinFileAssumption DEF BinFileAssumption
<1>2. ProvedHeader!Legal /\ ProvedHeader!Distinct
  BY LegalHeader
<1>3. ProvedHeader!CountsTravel(Resource)
  <2>1. \A k \in ProvedHeader!Reach[Resource] : k \in Messages
    BY <1>1, <1>2, HeaderAssumption, ProvedHeader!ReachLower
  <2> QED
    BY <1>1, <2>1 DEF ProvedHeader!CountsTravel, InMain
<1>4. ProvedHeader!GetsThrough(Resource) /\ ProvedHeader!TableMeta(Resource) = TableOf(compiled)
  BY MadeTable
<1>5. ProvedHeader!TableMeta(Resource).size
        = ProvedHeader!SizeOf(ProvedHeader!StructLeaves[Resource])
  BY <1>1, <1>2, <1>3, <1>4, HeaderAssumption, ProvedHeader!RecordFits
<1> QED
  BY <1>4, <1>5, HeaderSizeOf, HeaderStruct DEF Struct

LEMMA GoodOf ==
  ASSUME Inv, SourceOK, CompiledOK, FileFits(FileMeta)
  PROVE  GoodFileIsTaken
<1> SUFFICES ASSUME file.stage = "full", file.src = compiled,
                    Header!MessageMeta(Main, Resource).ok,
                    Count * file.table.size <= BufferSize
             PROVE  Len(Loaded) = Count
  BY DEF GoodFileIsTaken
<1>1. /\ AreDrafts(compiled) /\ PassesOf(compiled) /\ file.table = TableOf(compiled)
      /\ file.seen = Count
  BY DEF SourceOK, Count
<1>2. compiled # NoMessages
  BY <1>1, BinFileAssumption DEF BinFileAssumption, AreDrafts, NoMessages
<1>3. file.table.size = Header!SizeOf(Struct)
  BY <1>1, <1>2, SameSize DEF CompiledOK
<1>4. ConvertMD5 \in ReadersMD5
  BY <1>1, SameDigest
<1>5. Fits
  BY <1>2, <1>3, <1>4 DEF Fits
<1>6. Count \in Nat
  BY DEF Inv, FileOK, Count
<1> DEFINE Got(i) == [j \in DOMAIN Struct |-> MemberOf(Records[i], Struct, j)]
<1>7. Loaded = [i \in DOMAIN Records |-> Got(i)]
  BY <1>5, Zenon DEF Loaded
<1>8. DOMAIN Records = 1..Count
  BY <1>1 DEF Records
<1> HIDE DEF Got
<1> QED
  BY <1>6, <1>7, <1>8

-----------------------------------------------------------------------------
(* What the reader's digest tells of a file.                               *)

\* What a conversion is told of the message.
SourceMetas == Source!MessageMeta(Main, Resource).metas

LEMMA TakenOf ==
  ASSUME HeaderOK, AreDrafts(file.src) => AreMetas(SourceMetas), SourceOK,
         FileFits(FileMeta), MessageFits(MetaOf(Resource, SourceMetas))
  PROVE  TakenHasSameMeta
<1> SUFFICES ASSUME Fits
             PROVE  /\ Source!MessageMeta(Main, Resource).ok
                    /\ MetaOf(Resource, SourceMetas) = GeneratedMeta(Resource)
  BY DEF TakenHasSameMeta, SourceMetas
<1> DEFINE made == MetaOf(Resource, SourceMetas)
           told == GeneratedMeta(Resource)
<1>1. AreDrafts(compiled) /\ AreDrafts(file.src)
  BY DEF Fits, HeaderOK, SourceOK
<1>2. Resource \in Messages
  BY BinFileAssumption DEF BinFileAssumption
<1>3. made \in MessageMetas
  BY <1>1, <1>2, MetaOfIs
<1>4. FileMeta \in FileMetas /\ told \in FileMeta.messages
  BY <1>1, <1>2, FileMetaIs DEF FileMeta
<1>5. told \in MessageMetas /\ MessageSize(told) \in Word /\ MessageFits(told)
  BY <1>4, MessageInFile
<1>6. ReadersMD5 = {MD5(MessageBytes(told))}
  <2>1. ReadFile(FileBytes(FileMeta)) = {FileMeta}
    BY <1>4, WrittenIsRead
  <2>2. ReadersMD5 = {MD5(MessageBytes(Find(meta, Text(Resource)))) : meta \in {FileMeta}}
    BY <2>1 DEF ReadersMD5
  <2>3. ReadersMD5 = {MD5(MessageBytes(Find(FileMeta, Text(Resource))))}
    BY <2>2
  <2> QED
    BY <2>3, FoundIs
<1>7. ConvertMD5 = MD5(MessageBytes(told))
  BY <1>6 DEF Fits
<1>8. ConvertMD5 = IF Source!MessageMeta(Main, Resource).ok THEN MD5(MessageBytes(made)) ELSE <<>>
  BY Zenon DEF ConvertMD5, SourceMetas
<1>9. /\ MD5(MessageBytes(told)) # <<>>
      /\ MD5(MessageBytes(told)) = MD5(MessageBytes(made)) => told = made
  <2> HIDE DEF told, made
  <2>1. MessageFits(made)
    BY DEF made
  <2> QED
    BY <1>3, <1>5, <2>1, DigestTellsMeta
<1> HIDE DEF told, made
<1>10. Source!MessageMeta(Main, Resource).ok /\ made = told
  BY <1>7, <1>8, <1>9, Zenon
<1> QED
  BY <1>10 DEF told, made

-----------------------------------------------------------------------------
(* Layout's lemmas hold of the messages the file was made of, which are the *)
(* messages as they are when it is opened.                                  *)

ProvedSource == INSTANCE LayoutProofs WITH imports <- {}, home <- InMain, Homes <- {InMain},
                                           MaxFields <- NoFields, Shapes <- {},
                                           fields <- file.src

LEMMA SourceAssumption == ProvedSource!LayoutAssumption
<1>1. ProvedSource!Leaves = Now!Leaves
  BY DEF ProvedSource!Leaves, ProvedSource!Width, ProvedSource!Blocks,
         Now!Leaves, Now!Width, Now!Blocks
<1> QED
  BY <1>1, BinFileAssumption
  DEF BinFileAssumption, ProvedSource!LayoutAssumption, InMain, NoFields

LEMMA LegalSource ==
  ASSUME AreDrafts(file.src)
  PROVE  ProvedSource!Legal
<1>1. ProvedSource!Leaves = Now!Leaves
  BY DEF ProvedSource!Leaves, ProvedSource!Width, ProvedSource!Blocks,
         Now!Leaves, Now!Width, Now!Blocks
<1>2. \A s : ProvedSource!ToSet(s) = ToSet(s)
  BY DEF ProvedSource!ToSet, ToSet
<1> DEFINE src == file.src
<1>3. \A m \in Messages :
        /\ src[m] \in Seq(ProvedSource!Field)
        /\ \A i \in DOMAIN src[m] :
             src[m][i].type \in Messages => Level[src[m][i].type] < Level[m]
  BY <1>1, <1>2, BinFileAssumption, Zenon DEF BinFileAssumption, AreDrafts, ProvedSource!Field
<1>4. src \in [Messages -> Seq(ProvedSource!Field)]
  BY <1>3 DEF AreDrafts
<1> QED
  BY <1>3, <1>4 DEF ProvedSource!Legal, ProvedSource!Typed, ProvedSource!Nested

LEMMA SameValues ==
  \A file_, name : Now!GetEnumValue(file_, name) = ProvedSource!GetEnumValue(file_, name)
<1>1. \A f, r : Now!FindEnumInFile(f, r) = ProvedSource!FindEnumInFile(f, r)
  BY DEF Now!FindEnumInFile, ProvedSource!FindEnumInFile, Now!Last, ProvedSource!Last
<1>2. \A f : Now!Dependencies(f) = ProvedSource!Dependencies(f)
  BY DEF Now!Dependencies, ProvedSource!Dependencies
<1>3. \A f, r : Now!InDependency(f, r) = ProvedSource!InDependency(f, r)
  BY <1>1, <1>2 DEF Now!InDependency, ProvedSource!InDependency
<1>4. \A f, r : Now!InThisFile(f, r) = ProvedSource!InThisFile(f, r)
  BY <1>1 DEF Now!InThisFile, ProvedSource!InThisFile
<1>5. \A v : Now!TheOnly(v) = ProvedSource!TheOnly(v)
  BY DEF Now!TheOnly, ProvedSource!TheOnly
<1>6. Now!NoOption = ProvedSource!NoOption
  BY DEF Now!NoOption, ProvedSource!NoOption
<1> QED
  BY <1>3, <1>4, <1>5, <1>6 DEF Now!GetEnumValue, ProvedSource!GetEnumValue

LEMMA SourceParts ==
  /\ \A m, f : /\ Now!LeafSize(m, f) = ProvedSource!LeafSize(m, f)
               /\ Now!Leaf(m, f) = ProvedSource!Leaf(m, f)
  /\ \A f, g : Now!CopiesOf(f, g) = ProvedSource!CopiesOf(f, g)
  /\ \A s : Now!FlattenSeq(s) = ProvedSource!FlattenSeq(s)
  /\ \A c, i : Now!Spread(c, i) = ProvedSource!Spread(c, i)
<1>1. \A m, f : /\ Now!LeafSize(m, f) = ProvedSource!LeafSize(m, f)
               /\ Now!Leaf(m, f) = ProvedSource!Leaf(m, f)
  <2>1. \A m, f : Now!LeafSize(m, f) = ProvedSource!LeafSize(m, f)
    BY SameValues
    DEF Now!LeafSize, ProvedSource!LeafSize, Now!Width, ProvedSource!Width,
        Now!Blocks, ProvedSource!Blocks
  <2> QED
    BY <2>1, Zenon DEF Now!Leaf, ProvedSource!Leaf
<1>2. \A f, g : Now!CopiesOf(f, g) = ProvedSource!CopiesOf(f, g)
  <2>1. \A n, k : Now!Numbered(n, k) = ProvedSource!Numbered(n, k)
    BY DEF Now!Numbered, ProvedSource!Numbered
  <2> QED
    BY <2>1, SameValues DEF Now!CopiesOf, ProvedSource!CopiesOf
<1>3. \A s : Now!FlattenSeq(s) = ProvedSource!FlattenSeq(s)
  BY DEF Now!FlattenSeq, ProvedSource!FlattenSeq
<1>4. \A c, i : Now!Spread(c, i) = ProvedSource!Spread(c, i)
  <2>1. \A p, n : Now!Concat(p, n) = ProvedSource!Concat(p, n)
    BY DEF Now!Concat, ProvedSource!Concat
  <2> QED
    BY <1>3, <2>1 DEF Now!Spread, ProvedSource!Spread
<1> QED
  BY <1>1, <1>2, <1>3, <1>4, Zenon

LEMMA SameFlatten == Flat(file.src) = ProvedSource!Flatten
<1>1. ASSUME NEW F, NEW at
      PROVE  FlatBody(file.src, F, at) = ProvedSource!FlattenStep(F, at)
  <2>1. \A f : FlatInner(F, at, f) = ProvedSource!InnerOf(F, at, f)
    BY SourceParts, Zenon DEF FlatInner, ProvedSource!InnerOf
  <2> QED
    BY <2>1, SourceParts, SameValues, Zenon DEF FlatBody, ProvedSource!FlattenStep
<1> DEFINE D == (DOMAIN Files) \X Messages
<1>2. Flat(file.src) = CHOOSE F : F = [at \in D |-> FlatBody(file.src, F, at)]
  BY DEF Flat
<1>3. ProvedSource!Flatten = CHOOSE F : F = [at \in D |-> ProvedSource!FlattenStep(F, at)]
  BY DEF ProvedSource!Flatten, ProvedSource!FlattenStep, ProvedSource!InnerOf
<1> HIDE DEF D
<1>4. \A F : (F = [at \in D |-> FlatBody(file.src, F, at)])
               <=> (F = [at \in D |-> ProvedSource!FlattenStep(F, at)])
  BY <1>1
<1> QED
  BY <1>2, <1>3, <1>4

LEMMA SourceNames == AreDrafts(file.src) => IsSeq(NamesOf(file.src))
<1> SUFFICES ASSUME AreDrafts(file.src) PROVE IsSeq(NamesOf(file.src))
  OBVIOUS
<1> DEFINE at == <<Main, Resource>>
           c == Flat(file.src)[at].columns
           h == NamesOf(file.src)
<1>1. Resource \in Messages /\ Main \in DOMAIN Files
  BY BinFileAssumption DEF BinFileAssumption
<1>2. at \in ProvedSource!Pairs
  BY <1>1 DEF ProvedSource!Pairs
<1>3. ProvedSource!FlatOK(ProvedSource!Flatten[at])
  BY <1>2, SourceAssumption, LegalSource, ProvedSource!FlatColumns
<1>4. ProvedSource!IsSeq(c)
  BY <1>3, SameFlatten DEF ProvedSource!FlatOK, ProvedSource!AreColumns
<1>5. h = [i \in DOMAIN c |-> c[i].name]
  BY DEF NamesOf
<1> HIDE DEF c, h
<1>6. ProvedSource!Mapped(h, c)
  BY <1>5 DEF ProvedSource!Mapped
<1>7. ProvedSource!IsSeq(h)
  BY <1>4, <1>6, SourceAssumption, ProvedSource!MappedIsSeq
<1> QED
  BY <1>7 DEF h, ProvedSource!IsSeq, IsSeq

\* A file is opened for the messages as they are.
LEMMA OpenNames == Drafted /\ OpenOutput => IsSeq(Now!ColumnNames(Resource))
<1>1. (AreDrafts(file.src) => IsSeq(NamesOf(file.src)))'
  BY SourceNames, PTL
<1> SUFFICES ASSUME Drafted, OpenOutput PROVE IsSeq(Now!ColumnNames(Resource))
  OBVIOUS
<1>2. PICK table \in {Now!TableMeta(Resource)},
           header \in Headers(Now!ColumnNames(Resource)),
           n \in SheetLengths, kind \in DOMAIN Rows :
             file' = [NoFile EXCEPT !.stage = "empty", !.src = fields, !.table = table,
                                    !.header = header, !.rows = [i \in 1..n |-> kind]]
  BY Zenon DEF OpenOutput
<1>3. file'.src = fields
  BY <1>2 DEF NoFile
<1>4. AreDrafts(file.src)'
  BY <1>3 DEF Drafted, AreDrafts
<1>5. IsSeq(NamesOf(file.src))'
  BY <1>1, <1>4
<1>6. NamesOf(file.src)' = NamesOf(fields)
  BY <1>3 DEF NamesOf, Flat, FlatBody, FlatInner
<1> QED
  BY <1>5, <1>6, NowNames DEF IsSeq

-----------------------------------------------------------------------------
(* What the conversion is told of them.                                    *)

LEMMA MadeOfValues ==
  \A f, name : Source!GetEnumValue(f, name) = ProvedSource!GetEnumValue(f, name)
<1>1. \A f, r : Source!FindEnumInFile(f, r) = ProvedSource!FindEnumInFile(f, r)
  BY DEF Source!FindEnumInFile, ProvedSource!FindEnumInFile, Source!Last, ProvedSource!Last
<1>2. \A v : Source!TheOnly(v) = ProvedSource!TheOnly(v)
  BY DEF Source!TheOnly, ProvedSource!TheOnly
<1>3. \A f, r : Source!InDependency(f, r) = ProvedSource!InDependency(f, r)
  BY <1>1 DEF Source!InDependency, ProvedSource!InDependency,
              Source!Dependencies, ProvedSource!Dependencies
<1>4. \A f, r : Source!InThisFile(f, r) = ProvedSource!InThisFile(f, r)
  BY <1>1 DEF Source!InThisFile, ProvedSource!InThisFile
<1>5. Source!NoOption = ProvedSource!NoOption
  BY DEF Source!NoOption, ProvedSource!NoOption
<1> QED
  BY <1>2, <1>3, <1>4, <1>5 DEF Source!GetEnumValue, ProvedSource!GetEnumValue

LEMMA MadeOfSize ==
  \A m, f : Source!GetTypeSize(m, f) = ProvedSource!GetTypeSize(m, f)
<1>1. \A m, f : Source!LeafSize(m, f) = ProvedSource!LeafSize(m, f)
  BY MadeOfValues
  DEF Source!LeafSize, ProvedSource!LeafSize, Source!Width, ProvedSource!Width,
      Source!Blocks, ProvedSource!Blocks
<1>2. \A s : Source!SizeOf(s) = ProvedSource!SizeOf(s)
  BY DEF Source!SizeOf, ProvedSource!SizeOf, Source!FoldLeft, ProvedSource!FoldLeft,
         Source!MapThenFoldSet, ProvedSource!MapThenFoldSet, Source!Max, ProvedSource!Max
<1>3. Source!MessageSize = ProvedSource!MessageSize
  BY <1>1, <1>2, Zenon DEF Source!MessageSize, ProvedSource!MessageSize
<1> QED
  BY <1>1, <1>3 DEF Source!GetTypeSize, ProvedSource!GetTypeSize

LEMMA MadeOfMetas ==
  Source!MessageMeta(Main, Resource).metas = ProvedSource!MetasOf(Main, Resource)
<1>1. Source!NoOption = ProvedSource!NoOption
  BY DEF Source!NoOption, ProvedSource!NoOption
<1>2. \A g, f : Source!MetaCount(g, f) = ProvedSource!MetaCount(g, f)
  BY <1>1, MadeOfValues DEF Source!MetaCount, ProvedSource!MetaCount
<1>3. \A g, m, f : Source!FieldMeta(g, m, f) = ProvedSource!FieldMeta(g, m, f)
  BY <1>1, <1>2, MadeOfSize DEF Source!FieldMeta, ProvedSource!FieldMeta
<1>4. \A base, seq : Source!FoldLeft(Source!CreateFieldMeta, base, seq)
                       = ProvedSource!FoldLeft(ProvedSource!CreateFieldMeta, base, seq)
  BY DEF Source!FoldLeft, ProvedSource!FoldLeft, Source!MapThenFoldSet,
         ProvedSource!MapThenFoldSet, Source!Max, ProvedSource!Max,
         Source!CreateFieldMeta, ProvedSource!CreateFieldMeta, Source!Last, ProvedSource!Last
<1> DEFINE own    == file.src[Resource]
           given  == [i \in DOMAIN own |-> Source!FieldMeta(Main, Resource, own[i])]
           givenP == [i \in DOMAIN own |-> ProvedSource!FieldMeta(Main, Resource, own[i])]
           metas  == Source!FoldLeft(Source!CreateFieldMeta, <<>>, given)
           metasP == ProvedSource!FoldLeft(ProvedSource!CreateFieldMeta, <<>>, givenP)
<1>5. given = givenP
  BY <1>3
<1>6. Source!MessageMeta(Main, Resource).metas = metas
  BY DEF Source!MessageMeta
<1>7. ProvedSource!MetasOf(Main, Resource) = metasP
  BY DEF ProvedSource!MetasOf, ProvedSource!MessageMeta
<1> HIDE DEF given, givenP
<1>8. metas = metasP
  BY <1>4, <1>5
<1> QED
  BY <1>6, <1>7, <1>8

LEMMA SourceMetasAre == AreDrafts(file.src) => AreMetas(SourceMetas)
<1> SUFFICES ASSUME AreDrafts(file.src) PROVE AreMetas(SourceMetas)
  OBVIOUS
<1> DEFINE own   == file.src[Resource]
           metas == SourceMetas
<1>1. Resource \in Messages /\ Main \in DOMAIN Files
  BY BinFileAssumption DEF BinFileAssumption
<1>2. own \in Drafts[Resource]
  BY <1>1 DEF AreDrafts
<1> DEFINE F == [name : ToSet(Names), type : Now!Leaves \cup Messages,
                 repeated : BOOLEAN, count : Seq(STRING), size : Seq(STRING)]
<1>3. /\ IsSeq(own)
      /\ \A i \in DOMAIN own : own[i].name \in ToSet(Names)
                              /\ own[i].type \in Now!Leaves \cup Messages
  <2>1. own \in Seq(F)
    BY <1>1, <1>2, BinFileAssumption, Zenon DEF BinFileAssumption
  <2>2. \A f \in F : f.name \in ToSet(Names) /\ f.type \in Now!Leaves \cup Messages
    OBVIOUS
  <2> HIDE DEF F, own
  <2>3. IsSeq(own) /\ \A i \in DOMAIN own : own[i] \in F
    BY <2>1 DEF IsSeq
  <2> QED
    BY <2>2, <2>3
<1>4. metas = ProvedSource!MetasOf(Main, Resource)
  BY MadeOfMetas DEF SourceMetas
<1>5. ProvedSource!IsSeq(own)
  BY <1>3 DEF IsSeq, ProvedSource!IsSeq
<1> HIDE DEF metas, own
<1>6. /\ ProvedSource!IsSeq(metas) /\ DOMAIN metas = DOMAIN own
      /\ \A i \in DOMAIN own : metas[i].name = own[i].name /\ metas[i].type = own[i].type
  BY <1>4, <1>5, SourceAssumption, ProvedSource!MetaIs DEF own
<1>7. \A i \in DOMAIN metas :
        metas[i].size \in Nat /\ metas[i].count \in Nat /\ metas[i].offset \in Nat
  BY <1>1, <1>4, LegalSource, SourceAssumption, ProvedSource!MetaNumbers
<1>8. IsSeq(metas)
  BY <1>6 DEF ProvedSource!IsSeq, IsSeq
<1> QED
  BY <1>3, <1>6, <1>7, <1>8 DEF own, metas, AreMetas, IsMeta

-----------------------------------------------------------------------------
(* A file that is taken, and the struct it is read into.                   *)

LEMMA SourceAsHeader ==
  /\ \A f, name : ProvedSource!GetEnumValue(f, name) = ProvedHeader!GetEnumValue(f, name)
  /\ \A m, f : /\ ProvedSource!LeafSize(m, f) = ProvedHeader!LeafSize(m, f)
               /\ ProvedSource!Leaf(m, f) = ProvedHeader!Leaf(m, f)
  /\ \A f, g : ProvedSource!CopiesOf(f, g) = ProvedHeader!CopiesOf(f, g)
  /\ \A s : ProvedSource!FlattenSeq(s) = ProvedHeader!FlattenSeq(s)
  /\ \A c, i : ProvedSource!Spread(c, i) = ProvedHeader!Spread(c, i)
<1>1. \A f, name : ProvedSource!GetEnumValue(f, name) = ProvedHeader!GetEnumValue(f, name)
  BY SameValues, MadeValues, Zenon
<1>2. \A m, f : /\ ProvedSource!LeafSize(m, f) = ProvedHeader!LeafSize(m, f)
                /\ ProvedSource!Leaf(m, f) = ProvedHeader!Leaf(m, f)
  BY SourceParts, MadeLeafSize, MadeLeaf, Zenon
<1>3. \A f, g : ProvedSource!CopiesOf(f, g) = ProvedHeader!CopiesOf(f, g)
  BY SourceParts, MadeCopies, Zenon
<1>4. \A s : ProvedSource!FlattenSeq(s) = ProvedHeader!FlattenSeq(s)
  BY SourceParts, MadeSpread, Zenon
<1>5. \A c, i : ProvedSource!Spread(c, i) = ProvedHeader!Spread(c, i)
  BY SourceParts, MadeSpread, Zenon
<1> QED
  BY <1>1, <1>2, <1>3, <1>4, <1>5, Zenon

\* The messages within the converted one.
Inner == ProvedHeader!Reach[Resource] \ {Resource}

LEMMA InnerIs ==
  ASSUME AreDrafts(compiled)
  PROVE  \A m \in ProvedHeader!Reach[Resource] :
           /\ m \in Messages /\ <<Main, m>> \in ProvedHeader!Pairs
           /\ \A i \in DOMAIN compiled[m] : compiled[m][i].type \in Messages =>
                compiled[m][i].type \in Inner /\ Level[compiled[m][i].type] < Level[m]
<1>1. Resource \in Messages /\ Main \in DOMAIN Files
  BY BinFileAssumption DEF BinFileAssumption
<1>2. ProvedHeader!Legal
  BY LegalHeader
<1>3. ASSUME NEW m \in ProvedHeader!Reach[Resource]
      PROVE  /\ m \in Messages /\ <<Main, m>> \in ProvedHeader!Pairs
             /\ \A i \in DOMAIN compiled[m] : compiled[m][i].type \in Messages =>
                  compiled[m][i].type \in Inner /\ Level[compiled[m][i].type] < Level[m]
  <2>1. m \in Messages
    BY <1>1, <1>2, HeaderAssumption, ProvedHeader!ReachLower
  <2>2. <<Main, m>> \in ProvedHeader!Pairs
    BY <1>1, <2>1 DEF ProvedHeader!Pairs
  <2>3. ASSUME NEW i \in DOMAIN compiled[m], compiled[m][i].type \in Messages
        PROVE  compiled[m][i].type \in Inner /\ Level[compiled[m][i].type] < Level[m]
    <3>1. compiled[m][i].type \in Inner
      BY <1>1, <1>2, <2>3, HeaderAssumption, ProvedHeader!ReachBelow DEF Inner
    <3>2. Level[compiled[m][i].type] < Level[m]
      BY <1>2, <2>1, <2>3 DEF ProvedHeader!Legal, ProvedHeader!Nested
    <3> QED
      BY <3>1, <3>2
  <2> QED
    BY <2>1, <2>2, <2>3
<1> QED
  BY <1>3

\* They are flattened as the header has them, if they are the same.
LEMMA InnerFlat ==
  ASSUME AreDrafts(compiled), AreDrafts(file.src),
         \A m \in Inner : file.src[m] = compiled[m]
  PROVE  \A m \in Inner : ProvedSource!Flatten[<<Main, m>>] = ProvedHeader!Flatten[<<Main, m>>]
<1> DEFINE Alike(m) == ProvedSource!Flatten[<<Main, m>>] = ProvedHeader!Flatten[<<Main, m>>]
           T == {m \in Messages : m \in Inner => Alike(m)}
<1>1. /\ ProvedHeader!Legal /\ ProvedSource!Legal
      /\ Main \in DOMAIN Files /\ Level \in [Messages -> Nat]
  BY LegalHeader, LegalSource, BinFileAssumption DEF BinFileAssumption
<1>2. ASSUME NEW m \in Messages, \A k \in Messages : Level[k] < Level[m] => k \in T
      PROVE  m \in T
  <2> SUFFICES ASSUME m \in Inner PROVE Alike(m)
    OBVIOUS
  <2> DEFINE at  == <<Main, m>>
             own == compiled[m]
  <2>1. /\ at \in ProvedHeader!Pairs /\ at \in ProvedSource!Pairs
        /\ at[1] = Main /\ at[2] = m /\ file.src[m] = own
    BY <1>1 DEF ProvedHeader!Pairs, ProvedSource!Pairs
  <2>2. ASSUME NEW i \in DOMAIN own
        PROVE  ProvedSource!InnerOf(ProvedSource!Flatten, at, own[i])
                 = ProvedHeader!InnerOf(ProvedHeader!Flatten, at, own[i])
    <3> DEFINE f == own[i]
    <3>1. f.type \in Messages => f.type \in Inner /\ Level[f.type] < Level[m]
      BY InnerIs, Zenon DEF Inner
    <3>2. f.type \in Messages => Alike(f.type)
      BY <1>2, <3>1
    <3> HIDE DEF f, at
    <3> QED
      BY <2>1, <3>2, SourceAsHeader DEF ProvedSource!InnerOf, ProvedHeader!InnerOf, f
  <2>3. ProvedHeader!Flatten[at] = ProvedHeader!FlattenStep(ProvedHeader!Flatten, at)
    BY <1>1, <2>1, HeaderAssumption, ProvedHeader!FlattenIs DEF ProvedHeader!Legal
  <2>4. ProvedSource!Flatten[at] = ProvedSource!FlattenStep(ProvedSource!Flatten, at)
    BY <1>1, <2>1, SourceAssumption, ProvedSource!FlattenIs DEF ProvedSource!Legal
  <2> HIDE DEF at, own
  <2>5. ProvedSource!FlattenStep(ProvedSource!Flatten, at)
          = ProvedHeader!FlattenStep(ProvedHeader!Flatten, at)
    <3> DEFINE okS == \A i \in DOMAIN own :
                        /\ own[i].repeated => ProvedSource!GetEnumValue(at[1], own[i].count) # 0
                        /\ ProvedSource!InnerOf(ProvedSource!Flatten, at, own[i]).ok
               okH == \A i \in DOMAIN own :
                        /\ own[i].repeated => ProvedHeader!GetEnumValue(at[1], own[i].count) # 0
                        /\ ProvedHeader!InnerOf(ProvedHeader!Flatten, at, own[i]).ok
               partS(i) == ProvedSource!Spread(ProvedSource!CopiesOf(at[1], own[i]),
                             ProvedSource!InnerOf(ProvedSource!Flatten, at, own[i]).columns)
               partH(i) == ProvedHeader!Spread(ProvedHeader!CopiesOf(at[1], own[i]),
                             ProvedHeader!InnerOf(ProvedHeader!Flatten, at, own[i]).columns)
    <3>1. okS = okH
      BY <2>2, SourceAsHeader, Zenon
    <3>2. \A i \in DOMAIN own : partS(i) = partH(i)
      BY <2>2, SourceAsHeader, Zenon
    <3>3. ProvedSource!FlattenStep(ProvedSource!Flatten, at)
            = [ok |-> okS, columns |-> ProvedSource!FlattenSeq([i \in DOMAIN own |-> partS(i)])]
      BY <2>1, Zenon DEF ProvedSource!FlattenStep, own
    <3>4. ProvedHeader!FlattenStep(ProvedHeader!Flatten, at)
            = [ok |-> okH, columns |-> ProvedHeader!FlattenSeq([i \in DOMAIN own |-> partH(i)])]
      BY <2>1, Zenon DEF ProvedHeader!FlattenStep, own
    <3> HIDE DEF okS, okH, partS, partH
    <3>5. [i \in DOMAIN own |-> partS(i)] = [i \in DOMAIN own |-> partH(i)]
      BY <3>2
    <3> QED
      BY <3>1, <3>3, <3>4, <3>5, SourceAsHeader
  <2> QED
    BY <2>3, <2>4, <2>5 DEF at
<1> HIDE DEF T
<1>3. \A m \in Messages : m \in T
  BY <1>1, <1>2, LevelSet
<1>4. \A m \in Inner : m \in Messages
  BY InnerIs, Zenon DEF Inner
<1> QED
  BY <1>3, <1>4 DEF T

\* The meta data of fields that have some, in the order of declaration.
LEMMA RowOf ==
  ASSUME AreDrafts(compiled), NEW k \in 0..Len(compiled[Resource]),
         \A i \in 1..k : ProvedHeader!HasMeta(Main, Resource, compiled[Resource][i])
  PROVE  ProvedHeader!InOrder(SubSeq(HeaderMetas(Resource), 1, k))
<1> DEFINE own   == compiled[Resource]
           metas == HeaderMetas(Resource)
           s     == SubSeq(metas, 1, k)
<1>1. Resource \in Messages
  BY BinFileAssumption DEF BinFileAssumption
<1>2. AreMetas(metas) /\ IsSeq(own) /\ DOMAIN metas = DOMAIN own
  BY <1>1, HeaderMetasAre
<1>3. metas = ProvedHeader!MetasOf(Main, Resource) /\ ProvedHeader!IsSeq(own)
  BY <1>2, HeaderMeta DEF HeaderMetas, ProvedHeader!MetasOf, IsSeq, ProvedHeader!IsSeq
<1>4. \A i \in DOMAIN own :
        /\ metas[i].size = ProvedHeader!GetTypeSize(Resource, own[i])
        /\ metas[i].count = ProvedHeader!MetaCount(Main, own[i])
        /\ metas[i].offset = IF i = 1 THEN 0 ELSE ProvedHeader!After(metas[i - 1])
  BY <1>3, HeaderAssumption, ProvedHeader!MetaIs
<1> HIDE DEF metas
<1>5. k \in Nat /\ k <= Len(metas) /\ Len(metas) = Len(own) /\ DOMAIN metas = 1..Len(metas)
  BY <1>2 DEF AreMetas, IsSeq
<1>6. /\ IsSeq(s) /\ Len(s) = k /\ DOMAIN s = 1..k /\ \A i \in 1..k : s[i] = metas[i]
  <2>1. PICK E : metas \in Seq(E)
    BY <1>2 DEF AreMetas, IsSeq
  <2>2. s \in Seq(E) /\ Len(s) = k /\ \A i \in 1..k : s[i] = metas[i]
    <3>1. k \in Int /\ 1 \in 1..(Len(metas) + 1) /\ k \in (1 - 1)..Len(metas)
      BY <1>5
    <3>2. \A i \in 1..k : metas[i] \in E
      BY <1>5, <2>1
    <3> QED
      BY <2>1, <1>5, <3>1, <3>2, SubSeqProperties
  <2> HIDE DEF s
  <2> QED
    BY <2>2 DEF IsSeq
<1> HIDE DEF s, own
<1>7. \A i \in 1..k : metas[i].count \in Nat /\ metas[i].size \in Nat /\ metas[i].offset \in Nat
  BY <1>2, <1>5 DEF AreMetas, IsMeta
<1>8. \A i \in 1..k : metas[i].count # 0 /\ metas[i].size # 0
  BY <1>2, <1>4, <1>5 DEF ProvedHeader!HasMeta, own
<1>9. ASSUME NEW i \in 1..k PROVE metas[i].count * metas[i].size \in Nat \ {0}
  <2> DEFINE x == metas[i].count
             y == metas[i].size
  <2>1. x \in Nat \ {0} /\ y \in Nat \ {0}
    BY <1>7, <1>8
  <2> HIDE DEF x, y
  <2>2. x * y \in Nat \ {0}
    BY <2>1
  <2> QED
    BY <2>2 DEF x, y
<1>10. ASSUME NEW i \in DOMAIN s
       PROVE  /\ s[i].offset \in Nat /\ s[i].count * s[i].size \in Nat \ {0}
              /\ s[i].offset = IF i = 1 THEN 0 ELSE ProvedHeader!After(s[i - 1])
  <2>1. i \in 1..k /\ i \in DOMAIN own /\ (i = 1 \/ i - 1 \in 1..k)
    BY <1>2, <1>5, <1>6
  <2>2. s[i] = metas[i] /\ (i # 1 => s[i - 1] = metas[i - 1])
    BY <1>6, <2>1
  <2> QED
    BY <1>4, <1>7, <1>9, <2>1, <2>2
<1> QED
  BY <1>6, <1>10, Zenon DEF ProvedHeader!InOrder, ProvedHeader!IsSeq, IsSeq, s, metas

\* The same of the conversion's.
LEMMA SourceRow ==
  ASSUME AreDrafts(file.src), Source!MessageMeta(Main, Resource).ok
  PROVE  LET own == file.src[Resource]
         IN  /\ ProvedHeader!InOrder(SourceMetas) /\ AreMetas(SourceMetas)
             /\ IsSeq(own) /\ DOMAIN SourceMetas = DOMAIN own
             /\ \A i \in DOMAIN own :
                  /\ ProvedSource!HasMeta(Main, Resource, own[i])
                  /\ SourceMetas[i].name = own[i].name /\ SourceMetas[i].type = own[i].type
                  /\ SourceMetas[i].size = ProvedSource!GetTypeSize(Resource, own[i])
                  /\ SourceMetas[i].count = ProvedSource!MetaCount(Main, own[i])
<1> DEFINE own   == file.src[Resource]
           metas == SourceMetas
<1>1. Resource \in Messages /\ Main \in DOMAIN Files
  BY BinFileAssumption DEF BinFileAssumption
<1>2. ProvedSource!Legal
  BY LegalSource
<1>3. ProvedSource!IsSeq(own) /\ IsSeq(own)
  BY <1>1, <1>2
  DEF ProvedSource!Legal, ProvedSource!Typed, ProvedSource!IsSeq, IsSeq
<1>4. metas = ProvedSource!MetasOf(Main, Resource)
  BY MadeOfMetas DEF SourceMetas
<1>5. /\ ProvedSource!IsSeq(metas) /\ DOMAIN metas = DOMAIN own
      /\ \A i \in DOMAIN own :
           /\ metas[i].name = own[i].name /\ metas[i].type = own[i].type
           /\ metas[i].size = ProvedSource!GetTypeSize(Resource, own[i])
           /\ metas[i].count = ProvedSource!MetaCount(Main, own[i])
           /\ metas[i].offset = IF i = 1 THEN 0 ELSE ProvedSource!After(metas[i - 1])
  BY <1>3, <1>4, SourceAssumption, ProvedSource!MetaIs
<1>6. AreMetas(metas)
  BY SourceMetasAre
<1>7. \A i \in DOMAIN own : ProvedSource!HasMeta(Main, Resource, own[i])
  <2>1. \A i \in DOMAIN own : Source!HasMeta(Main, Resource, own[i])
    BY DEF Source!MessageMeta
  <2>2. Source!NoOption = ProvedSource!NoOption
    BY DEF Source!NoOption, ProvedSource!NoOption
  <2>3. \A g, f : Source!MetaCount(g, f) = ProvedSource!MetaCount(g, f)
    BY <2>2, MadeOfValues DEF Source!MetaCount, ProvedSource!MetaCount
  <2> HIDE DEF own
  <2> QED
    BY <2>1, <2>2, <2>3, MadeOfSize DEF Source!HasMeta, ProvedSource!HasMeta
<1> HIDE DEF own, metas
<1>8. ASSUME NEW i \in DOMAIN metas
      PROVE  /\ metas[i].offset \in Nat /\ metas[i].count * metas[i].size \in Nat \ {0}
             /\ metas[i].offset = IF i = 1 THEN 0 ELSE ProvedHeader!After(metas[i - 1])
  <2> DEFINE x == metas[i].count
             y == metas[i].size
  <2>1. x \in Nat /\ y \in Nat /\ metas[i].offset \in Nat
    BY <1>6 DEF AreMetas, IsMeta
  <2>2. x # 0 /\ y # 0
    BY <1>5, <1>7 DEF ProvedSource!HasMeta
  <2> HIDE DEF x, y
  <2>3. x * y \in Nat \ {0}
    BY <2>1, <2>2
  <2>4. metas[i].offset = IF i = 1 THEN 0 ELSE ProvedHeader!After(metas[i - 1])
    BY <1>5 DEF ProvedSource!After, ProvedHeader!After
  <2> QED
    BY <2>1, <2>3, <2>4 DEF x, y
<1>9. ProvedHeader!InOrder(metas)
  BY <1>5, <1>8 DEF ProvedHeader!InOrder, ProvedHeader!IsSeq, ProvedSource!IsSeq
<1> QED
  BY <1>3, <1>5, <1>6, <1>7, <1>9 DEF own, metas

\* What is written tells names and types apart.
LEMMA WrittenTells ==
  ASSUME NEW g, IsMeta(g), NEW d, IsMeta(d), WrittenMeta(g) = WrittenMeta(d)
  PROVE  /\ g.name = d.name /\ g.type = d.type
         /\ g.size = d.size /\ g.offset = d.offset /\ g.count = d.count
<1> DEFINE T(t) == IF t \in Messages THEN t ELSE TypeName[t]
<1>1. /\ Text(g.name) = Text(d.name) /\ Text(T(g.type)) = Text(T(d.type))
      /\ g.size = d.size /\ g.offset = d.offset /\ g.count = d.count
  BY DEF WrittenMeta
<1>2. Now!Leaves = DOMAIN TypeName
  BY DEF Now!Leaves, Now!Width, Now!Blocks, TypeName
<1>3. /\ g.name \in Texts /\ d.name \in Texts /\ T(g.type) \in Texts /\ T(d.type) \in Texts
      /\ g.type \in Messages \cup DOMAIN TypeName /\ d.type \in Messages \cup DOMAIN TypeName
  BY <1>2, NamesAreTexts DEF IsMeta
<1> HIDE DEF T
<1>4. g.name = d.name /\ T(g.type) = T(d.type)
  BY <1>1, <1>3, TextsAreNames, TextIsOf, Zenon
<1>5. \A s, t \in DOMAIN TypeName : TypeName[s] = TypeName[t] => s = t
  BY DEF TypeName
<1>6. \A t \in DOMAIN TypeName : TypeName[t] \notin Messages
  <2>1. Messages \cap {TypeName[t] : t \in DOMAIN TypeName} = {}
    BY BinFileAssumption, Zenon DEF BinFileAssumption
  <2> QED
    BY <2>1
<1>7. g.type = d.type
  BY <1>3, <1>4, <1>5, <1>6, Zenon DEF T
<1> QED
  BY <1>1, <1>4, <1>7

\* Where the two describe the same, the message has not lost or changed a field
\* that the header has.
LEMMA SameFields ==
  ASSUME AreDrafts(compiled), AreDrafts(file.src), Source!MessageMeta(Main, Resource).ok,
         MetaOf(Resource, SourceMetas) = GeneratedMeta(Resource)
  PROVE  LET own  == compiled[Resource]
             made == file.src[Resource]
         IN  /\ IsSeq(own) /\ IsSeq(made) /\ Len(made) <= Len(own)
             /\ \A i \in DOMAIN made :
                  /\ i \in DOMAIN own
                  /\ made[i].name = own[i].name /\ made[i].type = own[i].type
                  /\ ProvedSource!HasMeta(Main, Resource, made[i])
                  /\ ProvedSource!GetTypeSize(Resource, made[i])
                       = ProvedHeader!GetTypeSize(Resource, own[i])
                  /\ ProvedSource!MetaCount(Main, made[i]) = ProvedHeader!MetaCount(Main, own[i])
<1> DEFINE own   == compiled[Resource]
           made  == file.src[Resource]
           metas == HeaderMetas(Resource)
           fails == {i \in DOMAIN own : ~Header!HasMeta(Main, Resource, own[i])}
           least == CHOOSE i \in fails : \A j \in fails : i <= j
           last  == IF fails = {} THEN Len(own) ELSE least - 1
           told  == SubSeq(metas, 1, last)
<1>1. Resource \in Messages
  BY BinFileAssumption DEF BinFileAssumption
<1>2. GeneratedMeta(Resource) = MetaOf(Resource, told)
  BY DEF GeneratedMeta, HeaderMetas
<1>3. AreMetas(metas) /\ DOMAIN metas = DOMAIN own /\ IsSeq(own)
  BY <1>1, HeaderMetasAre
<1>4. Len(metas) = Len(own) /\ Len(own) \in Nat /\ DOMAIN own = 1..Len(own)
  BY <1>3 DEF AreMetas, IsSeq
<1>5. last \in 0..Len(own) /\ \A i \in 1..last : i \in DOMAIN own /\ i \notin fails
  <2>1. CASE fails = {}
    BY <1>4, <2>1
  <2>2. CASE fails # {}
    <3>1. fails \in SUBSET (Nat \ {0}) /\ fails \subseteq 1..Len(own)
      BY <1>4
    <3> HIDE DEF fails
    <3>2. \E i \in fails : \A j \in fails : i <= j
      BY <2>2, <3>1, LeastIs
    <3>3. least \in fails /\ \A j \in fails : least <= j
      BY <3>2
    <3> HIDE DEF least
    <3>4. least - 1 \in 0..Len(own) /\ \A i \in 1..(least - 1) : i \in 1..Len(own) /\ ~(least <= i)
      BY <1>4, <3>1, <3>3
    <3> QED
      BY <1>4, <2>2, <3>3, <3>4
  <2> QED
    BY <2>1, <2>2, Zenon
<1> HIDE DEF last
<1>6. \A i \in 1..last : ProvedHeader!HasMeta(Main, Resource, own[i])
  BY <1>5, HeaderFieldMeta
<1>7. ProvedHeader!InOrder(told)
  BY <1>5, <1>6, RowOf
<1>8. AreMetas(told)
  BY <1>3, <1>4, <1>5, AreMetasPrefix
<1>9. /\ ProvedHeader!InOrder(SourceMetas) /\ AreMetas(SourceMetas)
      /\ IsSeq(made) /\ DOMAIN SourceMetas = DOMAIN made
      /\ \A i \in DOMAIN made :
           /\ ProvedSource!HasMeta(Main, Resource, made[i])
           /\ SourceMetas[i].name = made[i].name /\ SourceMetas[i].type = made[i].type
           /\ SourceMetas[i].size = ProvedSource!GetTypeSize(Resource, made[i])
           /\ SourceMetas[i].count = ProvedSource!MetaCount(Main, made[i])
  BY SourceRow
<1>10. \A i \in DOMAIN told : i \in DOMAIN own /\ told[i] = metas[i]
  <2>1. PICK E : metas \in Seq(E)
    BY <1>3 DEF AreMetas, IsSeq
  <2>2. /\ last \in Int /\ 1 \in 1..(Len(metas) + 1) /\ last \in (1 - 1)..Len(metas)
        /\ \A i \in 1..last : metas[i] \in E
    BY <1>4, <1>5, <2>1
  <2>3. told \in Seq(E) /\ Len(told) = last /\ \A i \in 1..last : told[i] = metas[i]
    BY <2>1, <2>2, <1>4, <1>5, SubSeqProperties
  <2> HIDE DEF told
  <2>4. DOMAIN told = 1..last
    BY <2>3
  <2> QED
    BY <1>5, <2>3, <2>4
<1>11. \A i \in DOMAIN own :
         /\ metas[i].name = own[i].name /\ metas[i].type = own[i].type
         /\ metas[i].size = ProvedHeader!GetTypeSize(Resource, own[i])
         /\ metas[i].count = ProvedHeader!MetaCount(Main, own[i])
  <2>1. metas = ProvedHeader!MetasOf(Main, Resource) /\ ProvedHeader!IsSeq(own)
    BY <1>3, HeaderMeta DEF HeaderMetas, ProvedHeader!MetasOf, IsSeq, ProvedHeader!IsSeq
  <2> QED
    BY <2>1, HeaderAssumption, ProvedHeader!MetaIs
<1> HIDE DEF told, metas, own, made
<1>12. {WrittenMeta(g) : g \in ToSet(SourceMetas)} = {WrittenMeta(g) : g \in ToSet(told)}
  <2>1. MetaOf(Resource, SourceMetas).fields = {WrittenMeta(g) : g \in ToSet(SourceMetas)}
    BY DEF MetaOf, WrittenMeta
  <2>2. MetaOf(Resource, told).fields = {WrittenMeta(g) : g \in ToSet(told)}
    BY DEF MetaOf, WrittenMeta
  <2> QED
    BY <1>2, <2>1, <2>2, Zenon
<1>13. /\ \A i \in DOMAIN SourceMetas : \E j \in DOMAIN told :
            WrittenMeta(SourceMetas[i]) = WrittenMeta(told[j])
       /\ \A j \in DOMAIN told : \E i \in DOMAIN SourceMetas :
            WrittenMeta(told[j]) = WrittenMeta(SourceMetas[i])
  BY <1>12 DEF ToSet
<1>14. ASSUME NEW g, IsMeta(g), NEW d, IsMeta(d), WrittenMeta(g) = WrittenMeta(d)
       PROVE  ProvedHeader!Like(g, d)
  BY <1>14, WrittenTells DEF ProvedHeader!Like, ProvedHeader!After
<1>15. /\ Len(SourceMetas) = Len(told) /\ DOMAIN SourceMetas = DOMAIN told
       /\ \A i \in DOMAIN SourceMetas : \A j \in DOMAIN told :
            SourceMetas[i].offset = told[j].offset => i = j
  <2>1. \A i \in DOMAIN SourceMetas : \E j \in DOMAIN told :
          ProvedHeader!Like(SourceMetas[i], told[j])
    BY <1>8, <1>9, <1>13, <1>14 DEF AreMetas
  <2>2. \A j \in DOMAIN told : \E i \in DOMAIN SourceMetas :
          ProvedHeader!Like(told[j], SourceMetas[i])
    BY <1>8, <1>9, <1>13, <1>14 DEF AreMetas
  <2> QED
    BY <1>7, <1>9, <2>1, <2>2, HeaderAssumption, ProvedHeader!SameRow
<1>16. ASSUME NEW i \in DOMAIN made
       PROVE  /\ i \in DOMAIN own
              /\ made[i].name = own[i].name /\ made[i].type = own[i].type
              /\ ProvedSource!GetTypeSize(Resource, made[i])
                   = ProvedHeader!GetTypeSize(Resource, own[i])
              /\ ProvedSource!MetaCount(Main, made[i]) = ProvedHeader!MetaCount(Main, own[i])
  <2>1. PICK j \in DOMAIN told : WrittenMeta(SourceMetas[i]) = WrittenMeta(told[j])
    BY <1>9, <1>13
  <2>2. IsMeta(SourceMetas[i]) /\ IsMeta(told[j])
    BY <1>8, <1>9 DEF AreMetas
  <2>3. /\ SourceMetas[i].name = told[j].name /\ SourceMetas[i].type = told[j].type
        /\ SourceMetas[i].size = told[j].size /\ SourceMetas[i].offset = told[j].offset
        /\ SourceMetas[i].count = told[j].count
    BY <2>1, <2>2, WrittenTells
  <2>4. i = j
    BY <1>9, <1>15, <2>3
  <2> QED
    BY <1>9, <1>10, <1>11, <2>3, <2>4
<1>17. Len(made) <= Len(own)
  <2>1. Len(told) = last
    BY <1>3, <1>4, <1>5 DEF told, AreMetas, IsSeq
  <2>2. Len(SourceMetas) = Len(made)
    BY <1>9 DEF AreMetas, IsSeq
  <2> QED
    BY <1>4, <1>5, <1>15, <2>1, <2>2
<1> QED
  BY <1>3, <1>9, <1>16, <1>17 DEF own, made

\* The table of the file and what Flatten found, in Layout's words.
LEMMA SourceTable ==
  /\ ProvedSource!GetsThrough(Resource) = PassesOf(file.src)
  /\ ProvedSource!TableMeta(Resource) = TableOf(file.src)
  /\ ProvedSource!Columns(Resource) = ProvedSource!Flatten[<<Main, Resource>>].columns
<1>1. InMain[Resource] = Main
  BY BinFileAssumption DEF BinFileAssumption, InMain
<1>2. ProvedSource!GetsThrough(Resource) = PassesOf(file.src)
  BY <1>1, SameFlatten, Zenon DEF ProvedSource!GetsThrough, PassesOf
<1>3. \A base, seq : Now!FoldLeft(Now!CreateField, base, seq)
                       = ProvedSource!FoldLeft(ProvedSource!CreateField, base, seq)
  BY DEF Now!FoldLeft, ProvedSource!FoldLeft, Now!MapThenFoldSet,
         ProvedSource!MapThenFoldSet, Now!Max, ProvedSource!Max,
         Now!CreateField, ProvedSource!CreateField, Now!Emplace, ProvedSource!Emplace
<1>4. ProvedSource!TableMeta(Resource) = TableOf(file.src)
  BY <1>1, <1>3, SameFlatten, Zenon DEF ProvedSource!TableMeta, TableOf
<1>5. ProvedSource!Columns(Resource) = ProvedSource!Flatten[<<Main, Resource>>].columns
  BY <1>1, Zenon DEF ProvedSource!Columns
<1> QED
  BY <1>2, <1>4, <1>5, Zenon

\* What the property asks of the fields: the messages within are the file's, an
\* array has not one element, and none of the header's has a count without
\* being repeated.
Comparable ==
  /\ \A m \in Inner : file.src[m] = compiled[m]
  /\ \A f \in ToSet(compiled[Resource]) \cup ToSet(file.src[Resource]) :
       f.repeated => ProvedHeader!GetEnumValue(Main, f.count) # 1
  /\ \A f \in ToSet(compiled[Resource]) : f.count # ProvedHeader!NoOption => f.repeated

\* The file was taken for the header's: what TakenHasSameMeta says.
Taken ==
  /\ AreDrafts(compiled) /\ AreDrafts(file.src) /\ PassesOf(file.src)
  /\ Source!MessageMeta(Main, Resource).ok
  /\ MetaOf(Resource, SourceMetas) = GeneratedMeta(Resource)

\* Inside a field of the message that was converted.
LEMMA InsideSame ==
  ASSUME Taken, Comparable, NEW i \in DOMAIN file.src[Resource]
  PROVE  LET at == <<Main, Resource>>
             s  == file.src[Resource][i]
         IN  ProvedSource!InnerOf(ProvedSource!Flatten, at, s)
               = ProvedHeader!InnerOf(ProvedHeader!Flatten, at, s)
<1> DEFINE at  == <<Main, Resource>>
           own == compiled[Resource]
           s   == file.src[Resource][i]
<1>1. i \in DOMAIN own /\ s.type = own[i].type
  BY SameFields DEF Taken
<1>2. Resource \in ProvedHeader!Reach[Resource]
  BY BinFileAssumption, LegalHeader, HeaderAssumption, ProvedHeader!ReachHas
  DEF BinFileAssumption, Taken, ProvedHeader!Legal
<1>3. s.type \in Messages => s.type \in Inner
  BY <1>1, <1>2, InnerIs, Zenon DEF Taken
<1>4. s.type \in Messages =>
        ProvedSource!Flatten[<<Main, s.type>>] = ProvedHeader!Flatten[<<Main, s.type>>]
  BY <1>3, InnerFlat DEF Taken, Comparable
<1>5. at[1] = Main /\ at[2] = Resource
  OBVIOUS
<1> HIDE DEF s, own, at
<1>6. ProvedSource!InnerOf(ProvedSource!Flatten, at, s)
        = ProvedHeader!InnerOf(ProvedHeader!Flatten, at, s)
  BY <1>4, <1>5, SourceAsHeader DEF ProvedSource!InnerOf, ProvedHeader!InnerOf
<1> QED
  BY <1>6 DEF at, s

LEMMA MatchesOf ==
  ASSUME Taken, Comparable, NEW i \in DOMAIN file.src[Resource]
  PROVE  ProvedHeader!Matches(Main, Resource, file.src[Resource][i], compiled[Resource][i])
<1> DEFINE at  == <<Main, Resource>>
           own == compiled[Resource]
           s   == file.src[Resource][i]
           f   == own[i]
<1>1. /\ i \in DOMAIN own /\ s.name = f.name /\ s.type = f.type
      /\ ProvedSource!HasMeta(Main, Resource, s)
      /\ ProvedSource!GetTypeSize(Resource, s) = ProvedHeader!GetTypeSize(Resource, f)
      /\ ProvedSource!MetaCount(Main, s) = ProvedHeader!MetaCount(Main, f)
  BY SameFields DEF Taken
<1>2. /\ s.repeated => ProvedHeader!GetEnumValue(Main, s.count) # 1
      /\ f.repeated => ProvedHeader!GetEnumValue(Main, f.count) # 1
      /\ f.count # ProvedHeader!NoOption => f.repeated
  BY <1>1 DEF Comparable, ToSet
<1>3. ProvedHeader!InnerOf(ProvedHeader!Flatten, at, s).ok
  <2>1. at \in ProvedSource!Pairs /\ at[2] = Resource
    BY BinFileAssumption DEF BinFileAssumption, ProvedSource!Pairs
  <2>2. ProvedSource!Nested
    BY LegalSource DEF Taken, ProvedSource!Legal
  <2>3. ProvedSource!Flatten[at].ok
    BY SameFlatten DEF Taken, PassesOf
  <2> HIDE DEF at, s
  <2>4. ProvedSource!InnerOf(ProvedSource!Flatten, at, file.src[Resource][i]).ok
    BY <2>1, <2>2, <2>3, SourceAssumption, ProvedSource!FlattenParts, Zenon
  <2> QED
    BY <2>4, InsideSame DEF at, s
<1>4. ProvedSource!NoOption = ProvedHeader!NoOption
  BY DEF ProvedSource!NoOption, ProvedHeader!NoOption
<1> HIDE DEF s, f, own, at
<1>5. ProvedSource!MetaCount(Main, s) = ProvedHeader!MetaCount(Main, s)
  BY <1>4, SourceAsHeader DEF ProvedSource!MetaCount, ProvedHeader!MetaCount
<1>6. s.type \notin Messages =>
        ProvedHeader!LeafSize(Resource, s) = ProvedHeader!LeafSize(Resource, f)
  BY <1>1, SourceAsHeader DEF ProvedSource!GetTypeSize, ProvedHeader!GetTypeSize
<1>7. ProvedSource!MetaCount(Main, s) # 0 /\ (s.repeated => s.count # ProvedHeader!NoOption)
  BY <1>1, <1>4 DEF ProvedSource!HasMeta
<1>8. ProvedHeader!Matches(Main, Resource, s, f)
  BY <1>1, <1>2, <1>3, <1>5, <1>6, <1>7, Zenon DEF ProvedHeader!Matches, at
<1> QED
  BY <1>8 DEF s, f, own

\* The struct is the columns of the file, name by name and size by size.
LEMMA StructIsColumns ==
  ASSUME Taken, Comparable, ProvedHeader!Compiles(Resource), ProvedHeader!Sorted(Resource),
         TableOf(file.src).size = ProvedHeader!SizeOf(ProvedHeader!StructLeaves[Resource])
  PROVE  ProvedHeader!StructLeaves[Resource]
           = ProvedHeader!Stripped(ProvedSource!Columns(Resource))
<1> DEFINE at == <<Main, Resource>>
           s  == file.src[Resource]
           c  == ProvedSource!Columns(Resource)
           p  == [i \in DOMAIN s |-> ProvedHeader!PartOf(at, s[i])]
<1>1. Resource \in Messages /\ Main \in DOMAIN Files /\ InMain[Resource] = Main
  BY BinFileAssumption DEF BinFileAssumption, InMain
<1>2. /\ ProvedHeader!Legal /\ ProvedHeader!Distinct /\ ProvedSource!Legal
  BY LegalHeader, LegalSource DEF Taken
<1>3. ProvedHeader!Fits(Main, Resource)
  <2>1. \A k \in ProvedHeader!Reach[Resource] : k \in Messages
    BY <1>1, <1>2, HeaderAssumption, ProvedHeader!ReachLower
  <2>2. ProvedHeader!CountsTravel(Resource)
    BY <1>1, <2>1 DEF ProvedHeader!CountsTravel, InMain
  <2> QED
    BY <1>1, <2>2, HeaderAssumption, ProvedHeader!ReadableFits
<1>4. /\ IsSeq(s) /\ Len(s) <= Len(compiled[Resource])
      /\ \A i \in DOMAIN s : ProvedHeader!Matches(Main, Resource, s[i], compiled[Resource][i])
  BY SameFields, MatchesOf DEF Taken
<1>5. c = ProvedHeader!FlattenSeq(p)
  <2>1. at \in ProvedSource!Pairs /\ at[1] = Main /\ at[2] = Resource
    BY <1>1 DEF ProvedSource!Pairs
  <2>2. c = ProvedSource!Flatten[at].columns
    BY SourceTable
  <2>3. \A i \in DOMAIN s : ProvedSource!InnerOf(ProvedSource!Flatten, at, s[i])
                              = ProvedHeader!InnerOf(ProvedHeader!Flatten, at, s[i])
    BY InsideSame
  <2> HIDE DEF c, at
  <2>4. c = ProvedSource!FlattenSeq([i \in DOMAIN s |-> ProvedSource!PartOf(at, s[i])])
    BY <1>2, <2>1, <2>2, SourceAssumption, ProvedSource!FlattenParts DEF ProvedSource!Legal
  <2> HIDE DEF s
  <2>5. \A i \in DOMAIN s : ProvedSource!PartOf(at, s[i]) = ProvedHeader!PartOf(at, s[i])
    BY <2>3, SourceAsHeader, Zenon DEF ProvedSource!PartOf, ProvedHeader!PartOf
  <2>6. [i \in DOMAIN s |-> ProvedSource!PartOf(at, s[i])] = p
    BY <2>5
  <2> QED
    BY <2>4, <2>6, SourceAsHeader
<1>6. ProvedHeader!SizeOf(c) = ProvedHeader!SizeOf(ProvedHeader!StructLeaves[Resource])
  <2>1. ProvedSource!GetsThrough(Resource)
    BY SourceTable DEF Taken
  <2>2. TableOf(file.src).size = ProvedSource!SizeOf(c)
    BY <1>1, <1>2, <2>1, SourceTable, SourceAssumption, ProvedSource!TableSize
  <2>3. \A x : ProvedSource!SizeOf(x) = ProvedHeader!SizeOf(x)
    BY DEF ProvedSource!SizeOf, ProvedHeader!SizeOf, ProvedSource!FoldLeft,
           ProvedHeader!FoldLeft, ProvedSource!MapThenFoldSet, ProvedHeader!MapThenFoldSet,
           ProvedSource!Max, ProvedHeader!Max
  <2> QED
    BY <2>2, <2>3
<1>7. ProvedHeader!IsSeq(s)
  BY <1>4 DEF IsSeq, ProvedHeader!IsSeq
<1>8. ProvedHeader!Mapped(p, s) /\ \A i \in DOMAIN s : p[i] = ProvedHeader!PartOf(at, s[i])
  BY DEF ProvedHeader!Mapped
<1> HIDE DEF c, s, p
<1>9. ProvedHeader!MadeLike(Main, Resource, s, c)
  BY <1>4, <1>5, <1>6, <1>7, <1>8 DEF ProvedHeader!MadeLike
<1>10. ProvedHeader!StructLeaves[Resource] = ProvedHeader!Stripped(c)
  BY <1>1, <1>2, <1>3, <1>9, HeaderAssumption, ProvedHeader!SameStruct
<1> QED
  BY <1>10 DEF c

LEMMA SourceFlatten == Source!Flatten = ProvedSource!Flatten
<1> DEFINE In(F, at, f) ==
             IF f.type \in Messages THEN F[<<at[1], f.type>>] ELSE Source!Leaf(at[2], f)
           Body(F, at) ==
             LET own == file.src[at[2]]
             IN  [ok      |-> \A i \in DOMAIN own :
                                /\ own[i].repeated =>
                                     Source!GetEnumValue(at[1], own[i].count) # 0
                                /\ In(F, at, own[i]).ok,
                  columns |-> Source!FlattenSeq([i \in DOMAIN own |->
                                Source!Spread(Source!CopiesOf(at[1], own[i]),
                                              In(F, at, own[i]).columns)])]
           D == (DOMAIN Files) \X Messages
<1>1. \A m, f : Source!Leaf(m, f) = ProvedSource!Leaf(m, f)
  <2>1. \A m, f : Source!LeafSize(m, f) = ProvedSource!LeafSize(m, f)
    BY MadeOfValues
    DEF Source!LeafSize, ProvedSource!LeafSize, Source!Width, ProvedSource!Width,
        Source!Blocks, ProvedSource!Blocks
  <2> QED
    BY <2>1, Zenon DEF Source!Leaf, ProvedSource!Leaf
<1>2. \A f, g : Source!CopiesOf(f, g) = ProvedSource!CopiesOf(f, g)
  <2>1. \A n, k : Source!Numbered(n, k) = ProvedSource!Numbered(n, k)
    BY DEF Source!Numbered, ProvedSource!Numbered
  <2> QED
    BY <2>1, MadeOfValues DEF Source!CopiesOf, ProvedSource!CopiesOf
<1>3. \A s : Source!FlattenSeq(s) = ProvedSource!FlattenSeq(s)
  BY DEF Source!FlattenSeq, ProvedSource!FlattenSeq
<1>4. \A c, i : Source!Spread(c, i) = ProvedSource!Spread(c, i)
  <2>1. \A p, n : Source!Concat(p, n) = ProvedSource!Concat(p, n)
    BY DEF Source!Concat, ProvedSource!Concat
  <2> QED
    BY <1>3, <2>1 DEF Source!Spread, ProvedSource!Spread
<1>5. ASSUME NEW F, NEW at PROVE Body(F, at) = ProvedSource!FlattenStep(F, at)
  <2>1. \A f : In(F, at, f) = ProvedSource!InnerOf(F, at, f)
    BY <1>1, Zenon DEF ProvedSource!InnerOf
  <2> HIDE DEF In
  <2> QED
    BY <1>2, <1>3, <1>4, <2>1, MadeOfValues, Zenon DEF ProvedSource!FlattenStep
<1>6. Source!Flatten = CHOOSE F : F = [at \in D |-> Body(F, at)]
  BY DEF Source!Flatten
<1>7. ProvedSource!Flatten = CHOOSE F : F = [at \in D |-> ProvedSource!FlattenStep(F, at)]
  BY DEF ProvedSource!Flatten, ProvedSource!FlattenStep, ProvedSource!InnerOf
<1> HIDE DEF Body, D
<1>8. \A F : (F = [at \in D |-> Body(F, at)])
               <=> (F = [at \in D |-> ProvedSource!FlattenStep(F, at)])
  BY <1>5
<1> QED
  BY <1>6, <1>7, <1>8

LEMMA SourceNoClash == Source!NoClash(Resource) => ProvedSource!NoClash(Resource)
<1>1. Source!ColumnNames(Resource) = ProvedSource!ColumnNames(Resource)
  BY SourceFlatten, Zenon DEF Source!ColumnNames, ProvedSource!ColumnNames
<1> QED
  BY <1>1 DEF Source!NoClash, ProvedSource!NoClash, Source!IsInjective, ProvedSource!IsInjective

\* A byte of a record has one column, and that column's cell fills it unless it
\* is a text.
LEMMA HeapOf ==
  ASSUME Inv, SourceOK
  PROVE  HeapIsBehindTexts
<1> SUFFICES ASSUME file.stage \in {"torn", "full"}, Source!NoClash(Resource),
                    NEW i \in DOMAIN Records, Row(i).more >= 0, NEW b \in Records[i].heap
             PROVE  \E c \in Columns :
                      /\ IsText(file.table.meta[c].type)
                      /\ file.table.meta[c].offset <= b
                      /\ b < file.table.meta[c].offset + file.table.meta[c].size
                      /\ ~Writes(Row(i), c, b)
  BY Zenon DEF HeapIsBehindTexts
<1>1. i \in 1..file.seen /\ Records[i] = Record(i)
  BY DEF Records
<1>2. FileOK /\ i \in DOMAIN file.rows
  BY <1>1 DEF Inv, FileOK
<1>3. /\ b \in 0..(file.table.size - 1)
      /\ \A c \in Columns : HasCell(Row(i), c) => ~Writes(Row(i), c, b)
  BY <1>1 DEF Record, HeapBytes
<1>4. /\ Resource \in Messages /\ ProvedSource!Legal /\ ProvedSource!GetsThrough(Resource)
      /\ ProvedSource!NoClash(Resource) /\ file.table = ProvedSource!TableMeta(Resource)
  BY BinFileAssumption, LegalSource, SourceTable, SourceNoClash DEF BinFileAssumption, SourceOK
<1>5. \E c \in DOMAIN ProvedSource!TableMeta(Resource).meta :
        ProvedSource!OwnersOf(ProvedSource!TableMeta(Resource), b) = {c}
  BY <1>3, <1>4, SourceAssumption, ProvedSource!GapsOf
<1>6. PICK c \in Columns : ProvedSource!OwnersOf(file.table, b) = {c}
  BY <1>4, <1>5 DEF Columns
<1>7. file.table.meta[c].offset <= b /\ b < file.table.meta[c].offset + file.table.meta[c].size
  BY <1>6 DEF ProvedSource!OwnersOf
<1>8. ~Writes(Row(i), c, b)
  BY <1>2, <1>3, HasEveryCell
<1>9. IsText(file.table.meta[c].type)
  BY <1>7, <1>8 DEF Writes, Filled
<1> QED
  BY <1>7, <1>8, <1>9

\* A member of the struct has the very bytes of the column of its name.
LEMMA MemberIs ==
  ASSUME Taken, Comparable, ProvedHeader!Compiles(Resource), ProvedHeader!Sorted(Resource),
         file.table = TableOf(file.src), file.table.size = Header!SizeOf(Struct),
         Source!NoClash(Resource), NEW record, NEW j \in DOMAIN Struct
  PROVE  Struct[j].name \in Columns /\ MemberOf(record, Struct, j) = record.cells[Struct[j].name]
<1> DEFINE leaves == Struct
           same == {c \in Columns : /\ file.table.meta[c].offset = Offset(leaves, j)
                                    /\ file.table.meta[c].size = leaves[j].size}
<1>1. leaves = ProvedHeader!StructLeaves[Resource]
  BY HeaderStruct DEF Struct
<1>2. leaves = ProvedHeader!Stripped(ProvedSource!Columns(Resource))
  BY <1>1, HeaderSizeOf, StructIsColumns
<1>3. leaves = ProvedSource!Stripped(ProvedSource!Columns(Resource))
  BY <1>2 DEF ProvedHeader!Stripped, ProvedSource!Stripped,
              ProvedHeader!Strip, ProvedSource!Strip
<1>4. /\ Resource \in Messages /\ ProvedSource!Legal /\ ProvedSource!GetsThrough(Resource)
      /\ ProvedSource!NoClash(Resource) /\ file.table = ProvedSource!TableMeta(Resource)
  BY BinFileAssumption, LegalSource, SourceTable, SourceNoClash DEF BinFileAssumption, Taken
<1>5. \A s : Header!SizeOf(s) = ProvedSource!SizeOf(s)
  BY DEF Header!SizeOf, ProvedSource!SizeOf, Header!FoldLeft, ProvedSource!FoldLeft,
         Header!MapThenFoldSet, ProvedSource!MapThenFoldSet, Header!Max, ProvedSource!Max
<1>6. j \in DOMAIN leaves
  OBVIOUS
<1> HIDE DEF leaves
<1>7. same = {leaves[j].name}
  <2> DEFINE meta == ProvedSource!TableMeta(Resource).meta
  <2>1. {x \in DOMAIN meta : /\ meta[x].offset = ProvedSource!SizeOf(SubSeq(leaves, 1, j - 1))
                             /\ meta[x].size = leaves[j].size} = {leaves[j].name}
    BY <1>3, <1>4, <1>6, SourceAssumption, ProvedSource!ColumnAt
  <2>2. meta = file.table.meta /\ Columns = DOMAIN meta
    BY <1>4 DEF Columns
  <2>3. Offset(leaves, j) = ProvedSource!SizeOf(SubSeq(leaves, 1, j - 1))
    BY <1>5 DEF Offset
  <2> HIDE DEF meta
  <2> QED
    BY <2>1, <2>2, <2>3
<1>8. same # {} => MemberOf(record, leaves, j) = record.cells[CHOOSE c \in same : TRUE]
  BY DEF MemberOf
<1>9. leaves[j].name \in Columns
  BY <1>7
<1> HIDE DEF same
<1>10. MemberOf(record, leaves, j) = record.cells[leaves[j].name]
  BY <1>7, <1>8
<1> QED
  BY <1>9, <1>10 DEF leaves

LEMMA MembersOf ==
  ASSUME Inv, HeaderOK, SourceOK, CompiledOK, DamageOK,
         FileFits(FileMeta), MessageFits(MetaOf(Resource, SourceMetas))
  PROVE  MembersGetTheirColumns
<1> DEFINE reach == Header!Reach[Resource]
<1>1. SUFFICES
        ASSUME compiled # NoMessages,
               \A m \in reach \ {Resource} : file.src[m] = compiled[m],
               \A m \in reach : Header!Members(m) = compiled[m],
               \A f \in ToSet(compiled[Resource]) \cup ToSet(file.src[Resource]) :
                 f.repeated => Header!GetEnumValue(Main, f.count) # 1,
               \A f \in ToSet(compiled[Resource]) : f.count # Header!NoOption => f.repeated,
               Source!NoClash(Resource),
               NEW i \in DOMAIN Loaded, Row(i).more <= 0, NEW j \in DOMAIN Struct
        PROVE  \/ Loaded[i][j].from = "cell" /\ Loaded[i][j].column = Struct[j].name
               \/ Loaded[i][j].from = "heap" /\ Row(i).more < 0
  BY Zenon DEF MembersGetTheirColumns
<1>2. Fits
  BY EmptySeq DEF Loaded
<1>3. AreDrafts(compiled) /\ AreDrafts(file.src) /\ PassesOf(file.src)
      /\ file.table = TableOf(file.src) /\ file.table.size = Header!SizeOf(Struct)
  BY <1>1, <1>2 DEF Fits, HeaderOK, SourceOK
<1>4. Taken
  <2>1. TakenHasSameMeta
    BY SourceMetasAre, TakenOf
  <2> QED
    BY <1>2, <1>3, <2>1 DEF TakenHasSameMeta, Taken, SourceMetas
<1>5. Header!Reach = ProvedHeader!Reach
  BY DEF Header!Reach, ProvedHeader!Reach
<1>6. Comparable
  <2>1. Header!NoOption = ProvedHeader!NoOption
    BY DEF Header!NoOption, ProvedHeader!NoOption
  <2> QED
    BY <1>1, <1>5, <2>1, HeaderValues DEF Comparable, Inner
<1>7. ProvedHeader!Sorted(Resource) /\ ProvedHeader!Compiles(Resource)
  BY <1>1, <1>5, HeaderMembers DEF ProvedHeader!Sorted, CompiledOK
<1> DEFINE name == Struct[j].name
<1>8. name \in Columns /\ MemberOf(Records[i], Struct, j) = Records[i].cells[name]
  BY <1>1, <1>3, <1>4, <1>6, <1>7, MemberIs
<1> HIDE DEF name, reach
<1>9. i \in DOMAIN Records /\ Loaded[i][j] = MemberOf(Records[i], Struct, j)
  BY <1>1, <1>2 DEF Loaded
<1>10. i \in 1..file.seen /\ Records[i] = Record(i)
  BY <1>9 DEF Records
<1>11. i \in DOMAIN file.rows
  BY <1>10 DEF Inv, FileOK
<1>12. file.damage = {}
  <2>1. \A k \in DOMAIN file.rows : Row(k) = Row(i)
    BY <1>11 DEF DamageOK, Row
  <2>2. Row(i).more \in Int /\ ~(Row(i).more > 0)
    BY <1>1, <1>11, CellsOf DEF Inv
  <2> QED
    BY <2>1, <2>2 DEF DamageOK
<1>13. Record(i).cells[name] =
         IF HasCell(Row(i), name)
         THEN [from |-> "cell", column |-> name, value |-> Value(Row(i), name)]
         ELSE Unwritten
  BY <1>8, <1>12 DEF Record
<1>14. Unwritten.from = "heap"
  BY DEF Unwritten
<1>15. ~HasCell(Row(i), name) => Row(i).more < 0
  <2>1. FileOK /\ file.stage \in {"torn", "full"}
    BY <1>2 DEF Inv, Fits
  <2>2. Row(i).more \in Int
    BY <1>11, <2>1, CellsOf
  <2> QED
    BY <1>8, <1>11, <2>1, <2>2, HasEveryCell
<1> QED
  BY <1>8, <1>9, <1>10, <1>13, <1>14, <1>15 DEF name

-----------------------------------------------------------------------------
(* What is always so.                                                      *)

LEMMA Invariant == Spec => []Inv
<1>1. Inv => (OpenOutput => IsSeq(Now!ColumnNames(Resource)))
  BY OpenNames DEF Inv
<1> QED
  BY <1>1, InitInv, NextInv, PTL DEF Spec

LEMMA HeaderAlways == Spec => []HeaderOK
<1>1. Init => HeaderOK
  BY DEF Init, HeaderOK
<1> QED
  BY <1>1, Invariant, HeaderStep, PTL DEF Spec, Inv

LEMMA SourceAlways == Spec => [](SourceOK /\ CompiledOK)
<1>1. Init => SourceOK /\ CompiledOK
  BY DEF Init, SourceOK, CompiledOK, NoFile
<1> QED
  BY <1>1, Invariant, SourceStep, CompiledStep, PTL DEF Spec

LEMMA DamageAlways == Spec => []DamageOK
  BY Invariant, DamageInit, DamageStep, PTL DEF Spec

\* Whatever an integer cell holds, the record has a number of its column's width,
\* and a file has records only of rows that could all be written.
THEOREM BinFileTypeOK == Spec => []TypeOK
  BY Invariant, InvIsTypeOK, PTL

\* However the messages are nested and the header row is laid out, a row that
\* reaches to the last column has what was on the heap behind its texts only,
\* unless two columns have one name.
THEOREM HeapIsBehindTextsAlways == Spec => []HeapIsBehindTexts
  BY Invariant, SourceAlways, HeapOf, PTL

\* Both formats have the same value of a cell, and one that fits is kept.
THEOREM SameInBothFormatsAlways == Spec => []SameInBothFormats
  BY Invariant, SameInBothOf, PTL

\* What a header carries of the converted message has the digest of RFC 1321,
\* however its bytes are cut.
THEOREM DigestAgreesAlways == Spec => []DigestAgrees
  BY HeaderAlways, DigestOf, PTL

\* A header's meta data come back as they were written, unless a number in them
\* or their size is more than an int32 can say.
THEOREM MetaRoundTripAlways == Spec => [](FileFits(FileMeta) => MetaRoundTrip)
  BY HeaderAlways, RoundTripOf, PTL

\* A file that was converted to its end is read in full by a program compiled
\* from the same messages: the size and the digest the reader asks for are the
\* ones the conversion wrote.
THEOREM GoodFileIsTakenAlways == Spec => [](FileFits(FileMeta) => GoodFileIsTaken)
  BY Invariant, SourceAlways, GoodOf, PTL

\* Whatever was edited, converted and compiled when, a reader takes only a file
\* whose message the header describes as it was when the file was made.
THEOREM TakenHasSameMetaAlways ==
  Spec => []((FileFits(FileMeta) /\ MessageFits(MetaOf(Resource, SourceMetas)))
               => TakenHasSameMeta)
  BY HeaderAlways, SourceAlways, SourceMetasAre, TakenOf, PTL

\* Whatever was edited, converted and compiled when, a member of the reader's
\* struct holds the cell of the column of its name, or what was on the heap in a
\* row that ends before it.
THEOREM MembersGetTheirColumnsAlways ==
  Spec => []((FileFits(FileMeta) /\ MessageFits(MetaOf(Resource, SourceMetas)))
               => MembersGetTheirColumns)
  BY Invariant, HeaderAlways, SourceAlways, DamageAlways, MembersOf, PTL
=============================================================================
