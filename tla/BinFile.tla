------------------------------ MODULE BinFile -------------------------------
(***************************************************************************)
(* A binary file from the sheet to the program that reads it.  The author  *)
(* rewrites the messages; command mode makes the header the reader is      *)
(* compiled with (GenerateMeta and the structs); a conversion makes the    *)
(* file from the messages as they are by then and from a sheet, in steps   *)
(* at any of which it may fail or die; LoadFile of the unit test decides   *)
(* whether the file fits the header and reads the records into the struct. *)
(* The functions of a message are Layout's, its meta data as bytes         *)
(* MetaCodec's, their digest Digest's and the cells Cells'.                *)
(*                                                                         *)
(* The messages are in the one file Main, and Flatten gets through them    *)
(* (Converter has the others).  A reading is one step between those of the *)
(* conversion.                                                             *)
(***************************************************************************)
EXTENDS Digest, MetaCodec, Cells, FiniteSets

CONSTANTS
  Names, Messages, Level, Files, Main,   \* as in Layout
  Resource,     \* the message that is converted
  Drafts,       \* Drafts[m]: the fields the author may give m
  Rows,         \* kinds of rows: Rows[kind] is its cells and how far it reaches
  SheetLengths, \* numbers of rows
  BufferSize,   \* bytes of the reader's buffer
  MaxEdits      \* bound: messages rewritten

VARIABLES
  fields,    \* the messages in the .proto file
  edits,     \* how often they were rewritten
  compiled,  \* the messages of the header the reader was compiled with
  file,      \* what the binary file was made from and how far it got
  busy       \* a conversion is between fopen and its return

vars == <<fields, edits, compiled, file, busy>>

\* Layout, for the messages as they are, as they were when the header was
\* generated and as they were when the file was made.
InMain   == [m \in Messages |-> Main]
NoFields == [m \in Messages |-> 0]

Now    == INSTANCE Layout WITH imports <- {}, home <- InMain, Homes <- {InMain},
                               MaxFields <- NoFields, Shapes <- {}
Header == INSTANCE Layout WITH imports <- {}, home <- InMain, Homes <- {InMain},
                               MaxFields <- NoFields, Shapes <- {}, fields <- compiled
Source == INSTANCE Layout WITH imports <- {}, home <- InMain, Homes <- {InMain},
                               MaxFields <- NoFields, Shapes <- {}, fields <- file.src

\* The types of a struct's members, and the enums of Main.
TypeName == [bool |-> "bool", int32 |-> "int32_t", int64 |-> "int64_t", double |-> "double",
             enum |-> "Kind", string |-> "char", bytes |-> "uint8_t"]

Enums == Files[Main].scopes[<<>>]

\* The names that get into the meta data.
Texts == ToSet(Names) \cup Messages \cup {Main}
           \cup {TypeName[type] : type \in DOMAIN TypeName}
           \cup DOMAIN Enums \cup UNION {DOMAIN Enums[e] : e \in DOMAIN Enums}

\* As in Layout; no message is called as a type of C++ or an enum of Main is, and
\* the meta data would not tell them apart; protoc has every draft, and the
\* library's cell of an integer a number.
ASSUME BinFileAssumption ==
  /\ IsFiniteSet(Messages)
  /\ IsFiniteSet(DOMAIN Enums) /\ \A e \in DOMAIN Enums : IsFiniteSet(DOMAIN Enums[e])
  /\ \A s \in Texts : s \in STRING /\ Len(s) \in Nat \ {0}
  /\ Names \in Seq(STRING)
  /\ Level \in [Messages -> Nat]
  /\ Main \in DOMAIN Files
  /\ Messages \cap Now!Leaves = {}
  /\ Messages \cap {TypeName[type] : type \in DOMAIN TypeName} = {}
  /\ \A f, g \in DOMAIN Files : Files[f].package = Files[g].package => f = g
  /\ \A f \in DOMAIN Files :
       LET scopes == Files[f].scopes
       IN  /\ <<>> \in DOMAIN scopes
           /\ \A s \in DOMAIN scopes : \A e \in DOMAIN scopes[s] :
                \A v \in DOMAIN scopes[s][e] : scopes[s][e][v] \in Nat
  /\ Resource \in Messages
  /\ \A m \in Messages : \A draft \in Drafts[m] :
       /\ draft \in Seq([name : ToSet(Names), type : Now!Leaves \cup Messages,
                         repeated : BOOLEAN, count : Seq(STRING), size : Seq(STRING)])
       /\ \A i \in DOMAIN draft : draft[i].type \in Messages => Level[draft[i].type] < Level[m]
       /\ \A i, j \in DOMAIN draft : draft[i].name = draft[j].name => i = j
  /\ \A kind \in DOMAIN Rows :
       /\ Rows[kind].more \in Int
       /\ \A type \in DOMAIN NumberBytes :
            Rows[kind].cells[type].type = "Integer" => Rows[kind].cells[type].value \in Int
  /\ SheetLengths \subseteq Nat
  /\ MaxEdits \in Nat

NoMessages == <<>>

\* "none", "empty" (after fopen), "head" (after the first writes), "torn" and
\* "full" (the records, of which the first seen are on the disk).
NoFile == [stage |-> "none", src |-> NoMessages, table |-> <<>>, header |-> <<>>,
           rows |-> <<>>, damage |-> {}, seen |-> 0]

Init == /\ fields \in {f \in [Messages -> UNION {Drafts[m] : m \in Messages}] :
                        \A m \in Messages : f[m] \in Drafts[m]}
        /\ edits = 0
        /\ compiled = NoMessages
        /\ file = NoFile
        /\ busy = FALSE

EditProto(m) ==
  /\ edits < MaxEdits
  /\ fields' \in {[fields EXCEPT ![m] = d] : d \in Drafts[m] \ {fields[m]}}
  /\ edits' = edits + 1
  /\ UNCHANGED <<compiled, file, busy>>

-----------------------------------------------------------------------------
\* The header.

\* AMessageMeta as it is written; metas is the list CreateFieldMeta was called
\* for.
MetaOf(m, metas) ==
  [name   |-> Text(m),
   fields |-> {[name |-> Text(f.name), size |-> f.size, offset |-> f.offset, count |-> f.count,
                type |-> Text(IF f.type \in Messages THEN f.type ELSE TypeName[f.type])] :
                 f \in ToSet(metas)}]

\* GenerateMeta ignores that a message failed: the fields before are there.
GeneratedMeta(m) ==
  LET fails == {i \in DOMAIN compiled[m] : ~Header!HasMeta(Main, m, compiled[m][i])}
      last  == IF fails = {} THEN Len(compiled[m])
               ELSE (CHOOSE i \in fails : \A j \in fails : i <= j) - 1
  IN  MetaOf(m, SubSeq(Header!MessageMeta(Main, m).metas, 1, last))

EnumMeta(e) == [name   |-> Text(e),
                values |-> {[name |-> Text(v), value |-> Enums[e][v]] : v \in DOMAIN Enums[e]}]

FileMeta == [name     |-> Text(Main),
             messages |-> {GeneratedMeta(m) : m \in Messages},
             enums    |-> {EnumMeta(e) : e \in DOMAIN Enums}]

\* GetMD5 of the message the reader finds: {} if its AFileMeta throws.
ReadersMD5 ==
  {MD5(MessageBytes(Find(meta, Text(Resource)))) :
     meta \in UNION {ReadFile(bytes) : bytes \in {FileBytes(FileMeta)}}}

\* The members of T, and where they are.
Struct            == Header!StructLeaves[Resource]
Offset(leaves, j) == Header!SizeOf(SubSeq(leaves, 1, j - 1))

\* Command mode, then the compiler.
GenerateHeader ==
  /\ Now!Compiles(Resource)
  /\ compiled' = fields
  /\ UNCHANGED <<fields, edits, file, busy>>

-----------------------------------------------------------------------------
\* The conversion.

\* The md5 that Convert leaves in m_table_meta: none if the meta data fail.
ConvertMD5 ==
  LET meta == Source!MessageMeta(Main, Resource)
  IN  IF meta.ok THEN MD5(MessageBytes(MetaOf(Resource, meta.metas))) ELSE <<>>

\* The author's header rows: as declared, reversed, with a foreign column, one
\* missing, one twice.
Headers(columns) ==
  {columns, Reverse(columns), <<"note">> \o columns, SubSeq(columns, 2, Len(columns))}
    \cup {Append(columns, c) : c \in ToSet(columns)}

\* cli.Run and SerializeToBin up to fopen, whose "wb+" truncates the file.
OpenOutput ==
  /\ ~busy
  /\ Now!GetsThrough(Resource)
  /\ \E table \in {Now!TableMeta(Resource)},
        header \in Headers(Now!ColumnNames(Resource)),
        n \in SheetLengths, kind \in DOMAIN Rows :
       file' = [NoFile EXCEPT !.stage = "empty", !.src = fields, !.table = table,
                              !.header = header, !.rows = [i \in 1..n |-> kind]]
  /\ busy' = TRUE
  /\ UNCHANGED <<fields, edits, compiled>>

Columns == DOMAIN file.table.meta
Row(i)  == Rows[file.rows[i]]

\* mutant: a column that is missing is let through.
NoneTwice(header) == IsInjective(header)

\* No name twice, and every column of the record among them.
ColumnsFound(header) == IsInjective(header) /\ Columns \subseteq ToSet(header)

\* The conversion ends here: without records nothing is left of what the file
\* was to be made from.
Abandon ==
  /\ busy' = FALSE
  /\ file' = IF file.stage = "torn" THEN file ELSE [NoFile EXCEPT !.stage = file.stage]
  /\ UNCHANGED <<fields, edits, compiled>>

RefuseColumns == busy /\ file.stage = "empty" /\ ~ColumnsFound(file.header) /\ Abandon

\* Size, md5 and count are written before the cells are looked at.
WriteHead ==
  /\ busy /\ file.stage = "empty" /\ ColumnsFound(file.header)
  /\ file' = [file EXCEPT !.stage = "head"]
  /\ UNCHANGED <<fields, edits, compiled, busy>>

\* The cells of a row: rowData.values() ends with its last cell.
HasCell(row, c) ==
  \E i \in DOMAIN file.header : file.header[i] = c /\ i <= Len(file.header) + row.more
CellOf(row, c) == row.cells[file.table.meta[c].type]
Stored(row, c) == Written(file.table.meta[c].type, file.table.meta[c].size, CellOf(row, c))

RowFails(row) == \E c \in Columns : HasCell(row, c) /\ Stored(row, c) = {}

CellFails ==
  /\ busy /\ file.stage = "head"
  /\ \E i \in DOMAIN file.rows : RowFails(Row(i))
  /\ Abandon

\* A row longer than the header indexes columns[] beyond its end: nothing
\* happens, or something in the record is overwritten (or the process dies, as
\* in Kill).
WriteRecords ==
  /\ busy /\ file.stage = "head"
  /\ \A i \in DOMAIN file.rows : ~RowFails(Row(i))
  /\ LET long == \E i \in DOMAIN file.rows : Row(i).more > 0
     IN  \E damage \in {{}} \cup (IF long THEN {{c} : c \in Columns} ELSE {}),
            seen \in 0..Len(file.rows) :
           file' = [file EXCEPT !.stage = "torn", !.damage = damage, !.seen = seen]
  /\ UNCHANGED <<fields, edits, compiled, busy>>

Close ==
  /\ busy /\ file.stage = "torn"
  /\ file' = [file EXCEPT !.stage = "full", !.seen = Len(file.rows)]
  /\ busy' = FALSE
  /\ UNCHANGED <<fields, edits, compiled>>

Kill == busy /\ Abandon

Next ==
  \/ \E m \in Messages : EditProto(m)
  \/ GenerateHeader
  \/ OpenOutput \/ RefuseColumns \/ WriteHead \/ CellFails \/ WriteRecords \/ Close
  \/ Kill

Spec == Init /\ [][Next]_vars

\* A text is written by strcpy, up to its terminator.
Value(row, c)  == CHOOSE v \in Stored(row, c) : TRUE
Filled(row, c) == IF IsText(file.table.meta[c].type) THEN Len(Value(row, c)) + 1
                  ELSE file.table.meta[c].size

Writes(row, c, b) ==
  LET offset == file.table.meta[c].offset IN offset <= b /\ b < offset + Filled(row, c)

\* The record buffer is new char[]: bytes that no cell writes are what was on
\* the heap.
HeapBytes(row) ==
  {b \in 0..(file.table.size - 1) : ~\E c \in Columns : HasCell(row, c) /\ Writes(row, c, b)}

Unwritten == [from |-> "heap"]
Damaged   == [from |-> "damage"]

Record(i) ==
  [cells |-> [c \in Columns |->
                IF c \in file.damage THEN Damaged
                ELSE IF HasCell(Row(i), c)
                     THEN [from |-> "cell", column |-> c, value |-> Value(Row(i), c)]
                     ELSE Unwritten],
   heap  |-> HeapBytes(Row(i))]

Records == [i \in 1..file.seen |-> Record(i)]

-----------------------------------------------------------------------------
\* LoadFile, a function of the file and of the header.

Count == Len(file.rows)

\* mutant: the digest is not compared.
SizeFits ==
  /\ file.stage \in {"torn", "full"} /\ compiled # NoMessages
  /\ file.table.size = Header!SizeOf(Struct)
  /\ Count * file.table.size <= BufferSize

\* Before the records the content md5 is missing, and reading it fails.
Fits ==
  /\ file.stage \in {"torn", "full"} /\ compiled # NoMessages
  /\ file.table.size = Header!SizeOf(Struct)
  /\ Count * file.table.size <= BufferSize
  /\ ConvertMD5 \in ReadersMD5

\* What a member of the struct gets: a column, if one has its very bytes; else
\* what was on the heap, or bytes of several columns.
Mixed == [from |-> "mixed"]

MemberOf(record, leaves, j) ==
  LET from == Offset(leaves, j)
      size == leaves[j].size
      same == {c \in Columns : file.table.meta[c].offset = from /\ file.table.meta[c].size = size}
  IN  CASE same # {} -> record.cells[CHOOSE c \in same : TRUE]
        [] same = {} /\ from..(from + size - 1) \subseteq record.heap -> Unwritten
        [] OTHER -> Mixed

\* The records that fread puts into the buffer.
Loaded ==
  LET leaves  == Struct
      records == Records
  IN  IF ~Fits THEN <<>>
      ELSE [i \in DOMAIN records |->
              [j \in DOMAIN leaves |-> MemberOf(records[i], leaves, j)]]

\* return -1 is true, and fread counts records while count * size are bytes.
Answer ==
  \/ file.stage = "none"
  \/ Fits /\ file.seen = Count * file.table.size

-----------------------------------------------------------------------------
\* Properties

\* A number in a record has the width of its column; the disk has no more
\* records than the sheet has rows.
TypeOK ==
  /\ \A m \in Messages : fields[m] \in Drafts[m]
  /\ edits \in 0..MaxEdits
  /\ busy \in BOOLEAN
  /\ file.stage \in {"none", "empty", "head", "torn", "full"}
  /\ file.seen \in 0..Len(file.rows)
  /\ \A i \in DOMAIN Records : \A c \in Columns :
       LET type == file.table.meta[c].type
           cell == Records[i].cells[c]
       IN  (cell.from = "cell" /\ type \in DOMAIN NumberBytes)
             => cell.value \in NumberRange(NumberBytes[type], IsSigned(type))

\* What the digest is for: whatever was edited between command mode and the
\* conversion, the reader only takes a file whose converted message had no failed
\* field and the very names, sizes, offsets, counts and types the header has of
\* it.  UnitTest/main.cpp line 47, AMessageMeta::GetMD5, AMeta.cpp line 149.
TakenHasSameMeta ==
  Fits => LET meta == Source!MessageMeta(Main, Resource)
          IN  meta.ok /\ MetaOf(Resource, meta.metas) = GeneratedMeta(Resource)

\* Whatever was edited, converted or compiled when: a member of a struct in the
\* buffer holds the cell of the column of its name, or what was on the heap if
\* the row has no such cell.  The digest that guards this has neither
\* the fields of member messages nor the order of the struct's members in it,
\* so those are to be the file's, and the fields in the order of their names.
\* Nor does it tell an array of one element, whose column has another name,
\* from a plain field, or a plain field with a count from an array.
\* AMessageMeta::GetMD5, AMeta.cpp line 149, and UnitTest/main.cpp line 47.
MembersGetTheirColumns ==
  LET reach == Header!Reach[Resource]
  IN  (/\ file.stage \in {"torn", "full"} /\ file.seen > 0 /\ compiled # NoMessages
       /\ \A m \in reach \ {Resource} : file.src[m] = compiled[m]
       /\ \A m \in reach : Header!Members(m) = compiled[m]
       /\ \A f \in ToSet(compiled[Resource]) \cup ToSet(file.src[Resource]) :
            f.repeated => Header!GetEnumValue(Main, f.count) # 1
       /\ \A f \in ToSet(compiled[Resource]) : f.count # Header!NoOption => f.repeated
       /\ Source!NoClash(Resource))
        => LET loaded == Loaded
               leaves == Struct
           IN  \A i \in DOMAIN loaded : Row(i).more <= 0 =>
                 \A j \in DOMAIN leaves :
                   \/ loaded[i][j].from = "cell" /\ loaded[i][j].column = leaves[j].name
                   \/ loaded[i][j].from = "heap" /\ Row(i).more < 0

\* The record buffer is not cleared: a row that reaches to the last column puts
\* what was on the heap into the bytes its texts leave behind their terminators
\* and nowhere else, whatever the header row has between the columns and in
\* whatever order.  Sizes, offsets, the header row and the cells have to agree
\* byte by byte for that, and no two columns may have one name (CreateField adds
\* the size of the second all the same).  SerializeToBin, application.cpp line
\* 674, and WriteString, AEndiannessHelper.h line 176.
HeapIsBehindTexts ==
  (file.stage \in {"torn", "full"} /\ Source!NoClash(Resource)) =>
    \A i \in DOMAIN Records : Row(i).more >= 0 =>
      \A b \in Records[i].heap : \E c \in Columns :
        LET meta == file.table.meta[c]
        IN  /\ IsText(meta.type)
            /\ meta.offset <= b /\ b < meta.offset + meta.size
            /\ ~Writes(Row(i), c, b)

\* The other way round: a file converted to its end is read in full by a reader
\* compiled from the same messages.  Digest and size are worked out on two ways
\* that never meet: through the meta data in the header and through a C++
\* struct, and from the descriptors.  UnitTest/main.cpp lines 47 to 61.
GoodFileIsTaken ==
  (/\ file.stage = "full" /\ file.src = compiled
   /\ Header!MessageMeta(Main, Resource).ok
   /\ Count * file.table.size <= BufferSize)
    => Len(Loaded) = Count

\* A cell becomes the same value in both formats, and one that fits its column
\* is kept.  Only texts too long for the record and numbers in double columns
\* go into one format alone.  application.cpp lines 18 to 329.
SameInBothFormats ==
  (busy /\ file.stage = "head") =>
    \A i \in DOMAIN file.rows, c \in Columns :
      LET type == file.table.meta[c].type
          cell == CellOf(Row(i), c)
          bin  == Stored(Row(i), c)
      IN  /\ type # "double" => bin \subseteq Json(type, cell)
          /\ ~(IsText(type) /\ bin = {}) => Json(type, cell) \subseteq bin
          /\ (/\ cell.type = "Integer" /\ type \in DOMAIN NumberBytes
              /\ cell.value \in NumberRange(NumberBytes[type], IsSigned(type)))
               => Json(type, cell) = {cell.value}

\* What a header carries is read back as it was, whatever the messages and
\* although a failed message is in it in part; the size computed beforehand is
\* the size of the bytes.  AFileMeta::Serialize and AFileMeta(buffer, size).
MetaRoundTrip ==
  (file.stage = "none" /\ compiled # NoMessages) =>
    \A meta \in {FileMeta} : \A bytes \in {FileBytes(meta)} :
      ReadFile(bytes) = {meta} /\ Len(bytes) = FileSize(meta)

\* A digest does not depend on how its bytes are cut into updates, nor on being
\* asked for in between, unless it was asked for where the padding takes a
\* second block: final does not restore the buffer.  MD5::final, md5.cpp line 211.
DigestAgrees ==
  (file.stage = "none" /\ compiled # NoMessages) =>
    CutsAgree(MessageBytes(GeneratedMeta(Resource)))

\* What the answer of LoadFile is for, and what the code breaks: of a file that
\* fits, it tells whether all records are in the buffer.  UnitTest/main.cpp line 64.
AnswerTellsLoaded == Fits => (Answer <=> file.seen = Count)
=============================================================================
