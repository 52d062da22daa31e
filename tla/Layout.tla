------------------------------- MODULE Layout -------------------------------
(***************************************************************************)
(* Where a column of a sheet ends up: the generator's functions from the   *)
(* descriptors of a .proto file to a record (Flatten, CreateField), to the *)
(* meta data (CreateMessageMetaFromDescriptor), to the C++ struct of the   *)
(* generated header and to the columns of the JSON writer, each of which   *)
(* works the layout out for itself, and the look-up of the enum values     *)
(* that give lengths and counts.  The reader of the unit test reads        *)
(* records into the struct, so the results have to agree.                  *)
(*                                                                         *)
(* The functions are pure.  The state is what they are applied to: the     *)
(* .proto files, to which an author adds fields and imports.               *)
(***************************************************************************)
EXTENDS Integers, Sequences, FiniteSets, SequencesExt

CONSTANTS
  Names,      \* field names, a sequence in alphabetical order
  Messages,   \* messages
  Level,      \* a message holds messages of a lower level only
  Shapes,     \* what a field may be: its type, options and label
  Files,      \* .proto files: package and, for each scope, its enums
  Main,       \* the one that may import the others
  Homes,      \* which file each message may be in: a set of functions
  MaxFields   \* bound: fields of each message

NoOption == <<>>
Width    == [bool |-> 1, int32 |-> 4, enum |-> 4, int64 |-> 8, double |-> 8]
Blocks   == {"string", "bytes"}
Leaves   == DOMAIN Width \cup Blocks

\* protoc lets files of one package declare no name twice, so they count as one.
\* A negative number of an enum would be taken for a length: only 0 is refused.
ASSUME LayoutAssumption ==
  /\ Names \in Seq(STRING)
  /\ Level \in [Messages -> Nat]
  /\ Main \in DOMAIN Files
  /\ Homes \subseteq [Messages -> DOMAIN Files]
  /\ MaxFields \in [Messages -> Nat]
  /\ Messages \cap Leaves = {}
  /\ Shapes \subseteq [type : Leaves \cup Messages, repeated : BOOLEAN,
                       count : Seq(STRING), size : Seq(STRING)]
  /\ \A f, g \in DOMAIN Files : Files[f].package = Files[g].package => f = g
  /\ \A f \in DOMAIN Files :
       LET scopes == Files[f].scopes
       IN  /\ <<>> \in DOMAIN scopes
           /\ \A s \in DOMAIN scopes : \A e \in DOMAIN scopes[s] :
                \A v \in DOMAIN scopes[s][e] : scopes[s][e][v] \in Nat

VARIABLES
  fields,    \* the fields of each message, in the order of declaration
  home,      \* the file of each message
  imports    \* the files Main imports

vars == <<fields, home, imports>>

Init == /\ fields = [m \in Messages |-> <<>>]
        /\ home \in Homes
        /\ imports = {}

Dependencies(file) == IF file = Main THEN imports ELSE {}
Visible(file)      == {file} \cup Dependencies(file)

-----------------------------------------------------------------------------
\* Enum values.  A name is the sequence stringSplit makes of it; 0 stands for
\* a look-up that failed, as 0 itself is refused.

\* FindEnumValueInFile, FindEnumInMessage, FindEnumInFile from vec[curr] on.
FindEnumInFile(file, rest) ==
  LET scopes == Files[file].scopes
      value  == Last(rest)
      path   == SubSeq(rest, 1, Len(rest) - 2)
      enum   == rest[Len(rest) - 1]
  IN  CASE Len(rest) = 1 ->
             {scopes[<<>>][e][value] :
                e \in {e \in DOMAIN scopes[<<>>] : value \in DOMAIN scopes[<<>>][e]}}
        [] Len(rest) > 1 ->
             IF /\ path \in DOMAIN scopes
                /\ enum \in DOMAIN scopes[path]
                /\ value \in DOMAIN scopes[path][enum]
             THEN {scopes[path][enum][value]} ELSE {}
        [] OTHER -> {}

InDependency(file, name) ==
  UNION {FindEnumInFile(g, Tail(name)) :
           g \in {g \in Dependencies(file) : Files[g].package = Head(name)}}

\* The own package as a prefix is not skipped, any other prefix is.
InThisFile(file, name) ==
  FindEnumInFile(file, IF Files[file].package = Head(name) THEN name ELSE Tail(name))

TheOnly(values) ==
  IF \E v \in values : values = {v} THEN CHOOSE v \in values : TRUE ELSE 0

\* mutant: what this file has hides what it imports.
OwnFirst(file, name) ==
  IF name = NoOption THEN 0
  ELSE IF InThisFile(file, name) # {} THEN TheOnly(InThisFile(file, name))
       ELSE TheOnly(InDependency(file, name))

\* In both places is ambiguous, even with one number.
GetEnumValue(file, name) ==
  IF \/ name = NoOption
     \/ InDependency(file, name) # {} /\ InThisFile(file, name) # {} THEN 0
  ELSE TheOnly(InDependency(file, name) \cup InThisFile(file, name))

-----------------------------------------------------------------------------
\* mutant: a string's terminator is added to its length.
WithTerminator(m, f) ==
  IF f.type \in Blocks THEN GetEnumValue(home[m], f.size) + 1 ELSE Width[f.type]

\* GetTypeSize of a field of m that is no message: 0 is a failure.
LeafSize(m, f) ==
  IF f.type \in Blocks THEN GetEnumValue(home[m], f.size) ELSE Width[f.type]

\* What follows each other takes its sizes together, in GetTypeSize and, with
\* pragma pack(1), in a struct.
SizeOf(leaves) == FoldLeft(LAMBDA total, leaf : total + leaf.size, 0, leaves)

\* GetTypeSize of a message: a failing member adds 0, a repeated one once.
MessageSize[m \in Messages] ==
  LET Size(f) == IF f.type \in Messages THEN MessageSize[f.type] ELSE LeafSize(m, f)
  IN  SizeOf([i \in DOMAIN fields[m] |-> [size |-> Size(fields[m][i])]])

GetTypeSize(m, f) ==
  IF f.type \in Messages THEN MessageSize[f.type] ELSE LeafSize(m, f)

\* The columns of a field: its name, or name1, name2, ... for a repeated one.
Numbered(name, n) == [i \in 1..n |-> name \o ToString(i)]

\* "" is the leaf itself.
Concat(prefix, next) == IF next = "" THEN prefix ELSE prefix \o "#" \o next

\* Every copy's name before everything inside the field.
Spread(copies, inner) ==
  FlattenSeq([i \in DOMAIN copies |->
    [j \in DOMAIN inner |-> [inner[j] EXCEPT !.name = Concat(copies[i], @)]]])

\* Flatten: counts are looked up in the file that is converted, at[1], lengths in
\* the field's own file.
CopiesOf(file, f) ==
  IF f.repeated THEN Numbered(f.name, GetEnumValue(file, f.count)) ELSE <<f.name>>

Leaf(m, f) ==
  [ok      |-> LeafSize(m, f) # 0,
   columns |-> <<[name |-> "", type |-> f.type, size |-> LeafSize(m, f)]>>]

Flatten[at \in (DOMAIN Files) \X Messages] ==
  LET own      == fields[at[2]]
      Inner(f) == IF f.type \in Messages THEN Flatten[<<at[1], f.type>>]
                  ELSE Leaf(at[2], f)
  IN  [ok      |-> \A i \in DOMAIN own :
                     /\ own[i].repeated => GetEnumValue(at[1], own[i].count) # 0
                     /\ Inner(own[i]).ok,
       columns |-> FlattenSeq([i \in DOMAIN own |->
                     Spread(CopiesOf(at[1], own[i]), Inner(own[i]).columns)])]

\* std::map::emplace keeps what is there.
Emplace(map, key, value) ==
  [k \in DOMAIN map \cup {key} |-> IF k \in DOMAIN map THEN map[k] ELSE value]

\* mutant: a name that is there adds no size.
OnlyNew(table, c) ==
  IF c.name \in DOMAIN table.meta THEN table
  ELSE [size |-> table.size + c.size,
        meta |-> Emplace(table.meta, c.name,
                         [type |-> c.type, size |-> c.size, offset |-> table.size])]

\* mutant: the size is added first.
SizeFirst(table, c) ==
  [size |-> table.size + c.size,
   meta |-> Emplace(table.meta, c.name,
                    [type |-> c.type, size |-> c.size, offset |-> table.size + c.size])]

\* ATableMeta::CreateField.
CreateField(table, c) ==
  [size |-> table.size + c.size,
   meta |-> Emplace(table.meta, c.name,
                    [type |-> c.type, size |-> c.size, offset |-> table.size])]

\* What Convert leaves in m_table_meta.
TableMeta(m) ==
  FoldLeft(CreateField, [size |-> 0, meta |-> <<>>], Flatten[<<home[m], m>>].columns)

-----------------------------------------------------------------------------
\* A field of an AMessageMeta: count is 1 without the option, and with it the
\* field is taken for repeated.
MetaCount(file, f) == IF f.count = NoOption THEN 1 ELSE GetEnumValue(file, f.count)

\* Without its offset.
FieldMeta(file, m, f) ==
  [name |-> f.name, type |-> f.type, size |-> GetTypeSize(m, f),
   count |-> MetaCount(file, f), repeated |-> f.count # NoOption]

\* mutant: the next offset forgets the count.
CountForgotten(metas, f) ==
  LET last == Last(metas)
  IN  Append(metas,
        [name |-> f.name, type |-> f.type, size |-> f.size, count |-> f.count,
         repeated |-> f.repeated,
         offset |-> IF metas = <<>> THEN 0 ELSE last.offset + last.size])

CreateFieldMeta(metas, f) ==
  LET last == Last(metas)
  IN  Append(metas,
        [name |-> f.name, type |-> f.type, size |-> f.size, count |-> f.count,
         repeated |-> f.repeated,
         offset |-> IF metas = <<>> THEN 0 ELSE last.offset + last.count * last.size])

\* The loop of the next definition returns false at a field without.
HasMeta(file, m, f) ==
  /\ GetTypeSize(m, f) # 0
  /\ f.repeated => f.count # NoOption
  /\ MetaCount(file, f) # 0

\* CreateMessageMetaFromDescriptor and the same loop of
\* CollectMessageMetaFromDescriptor.
MessageMeta(file, m) ==
  [ok    |-> \A i \in DOMAIN fields[m] : HasMeta(file, m, fields[m][i]),
   metas |-> FoldLeft(CreateFieldMeta, <<>>,
                      [i \in DOMAIN fields[m] |-> FieldMeta(file, m, fields[m][i])])]

\* mutant: the JSON writer numbers the members of an array from 0.
FromZero(meta) ==
  IF meta.repeated THEN [i \in 1..meta.count |-> meta.name \o ToString(i - 1)]
  ELSE <<meta.name>>

\* The column names of one field in WriteJsonToFile.
JsonNames(meta) ==
  IF meta.repeated THEN Numbered(meta.name, meta.count) ELSE <<meta.name>>

\* The columns WriteJsonToFile looks for; a member message whose meta data
\* could not be collected ends it.
JsonColumns[at \in (DOMAIN Files) \X Messages] ==
  LET meta == MessageMeta(at[1], at[2])
      Inner(f) == IF f.type \in Messages THEN JsonColumns[<<at[1], f.type>>]
                  ELSE [ok |-> TRUE, names |-> {""}]
  IN  IF ~meta.ok THEN [ok |-> FALSE, names |-> {}]
      ELSE [ok    |-> \A i \in DOMAIN meta.metas : Inner(meta.metas[i]).ok,
            names |-> UNION {{Concat(c, n) : c \in ToSet(JsonNames(meta.metas[i])),
                                             n \in Inner(meta.metas[i]).names} :
                               i \in DOMAIN meta.metas}]

-----------------------------------------------------------------------------
\* The generated header.  Its enums and structs are those of the file level,
\* its sizes are the options' texts, which the C++ compiler reads.

\* A message hides a package of its name.
CppValue(file, name) ==
  LET Enums(g, rest) == IF Len(rest) \in 1..2 THEN FindEnumInFile(g, rest) ELSE {}
      hidden == \E s \in DOMAIN Files[file].scopes : s # <<>> /\ s[1] = Head(name)
  IN  IF name = NoOption THEN 0
      ELSE TheOnly(Enums(file, name) \cup
             UNION {Enums(g, Tail(name)) :
                      g \in {g \in Visible(file) : Files[g].package = Head(name) /\ ~hidden}})

Position(name) == CHOOSE i \in DOMAIN Names : Names[i] = name

\* GenerateInfo keeps the fields in a json object, whose keys are sorted: the
\* template lists them in the order of their names.
Before(m, f) == {g \in ToSet(fields[m]) : Position(g.name) < Position(f.name)}
Members(m) ==
  [i \in DOMAIN fields[m] |->
     CHOOSE f \in ToSet(fields[m]) : Cardinality(Before(m, f)) = i - 1]

\* GetStructTypeField: a bytes field is one uint8_t, whatever its size option.
StructLeaves[m \in Messages] ==
  LET Inner(f) ==
        CASE f.type \in Messages -> StructLeaves[f.type]
          [] f.type = "string"   -> <<[name |-> "", size |-> CppValue(home[m], f.size)]>>
          [] f.type = "bytes"    -> <<[name |-> "", size |-> 1]>>
          [] OTHER               -> <<[name |-> "", size |-> Width[f.type]]>>
      Copies(f) == IF f.repeated THEN Numbered(f.name, CppValue(home[m], f.count))
                   ELSE <<f.name>>
      members == Members(m)
  IN  FlattenSeq([i \in DOMAIN members |-> Spread(Copies(members[i]), Inner(members[i]))])

-----------------------------------------------------------------------------
\* The author of the .proto files.

\* protoc asks for distinct names and for the file of a member's message.  A
\* message within itself is legal, but GetTypeSize would not return.
AddField(m, name, shape) ==
  /\ Len(fields[m]) < MaxFields[m]
  /\ \A i \in DOMAIN fields[m] : fields[m][i].name # name
  /\ shape.type \in Messages => /\ Level[shape.type] < Level[m]
                                /\ home[shape.type] \in Visible(home[m])
  /\ fields' = [fields EXCEPT ![m] = Append(@,
       [name |-> name, type |-> shape.type, repeated |-> shape.repeated,
        count |-> shape.count, size |-> shape.size])]
  /\ UNCHANGED <<home, imports>>

Import(file) ==
  /\ file \notin imports \cup {Main}
  /\ imports' = imports \cup {file}
  /\ UNCHANGED <<fields, home>>

Next ==
  \/ \E m \in Messages, name \in ToSet(Names), shape \in Shapes : AddField(m, name, shape)
  \/ \E file \in DOMAIN Files : Import(file)

Spec == Init /\ [][Next]_vars

-----------------------------------------------------------------------------
\* Properties

\* The messages m is made of, m included.
Reach[m \in Messages] ==
  {m} \cup UNION {Reach[fields[m][i].type] :
                    i \in {i \in DOMAIN fields[m] : fields[m][i].type \in Messages}}

FieldsOf(m) == ToSet(fields[m])

\* No field has a count without being repeated.
Labelled(m) == \A k \in Reach[m] : \A f \in FieldsOf(k) : f.count # NoOption => f.repeated

\* The header compiles, and the struct holds what the fields say: a bytes
\* field is the exception.
Compiles(m) ==
  \A k \in Reach[m] : \A f \in FieldsOf(k) :
    /\ f.repeated => CppValue(home[k], f.count) # 0
    /\ f.type = "string" => CppValue(home[k], f.size) # 0
    /\ f.type # "bytes"

\* A count means the same in the converted file and where it is written.
CountsTravel(m) ==
  \A k \in Reach[m] : \A f \in FieldsOf(k) :
    f.repeated => GetEnumValue(home[m], f.count) = GetEnumValue(home[k], f.count)

GetsThrough(m) == Flatten[<<home[m], m>>].ok

ColumnNames(m) == LET c == Flatten[<<home[m], m>>].columns IN [i \in DOMAIN c |-> c[i].name]
NoClash(m)     == IsInjective(ColumnNames(m))

\* A table the generator got through has columns of a positive size only (a
\* length of 0 is refused), all of them inside the record.
TypeOK ==
  /\ fields \in [Messages -> Seq([name : ToSet(Names), type : Leaves \cup Messages,
                                  repeated : BOOLEAN, count : Seq(STRING),
                                  size : Seq(STRING)])]
  /\ home \in Homes
  /\ imports \subseteq DOMAIN Files \ {Main}
  /\ \A m \in Messages : GetsThrough(m) =>
       LET table == TableMeta(m)
       IN  \A c \in DOMAIN table.meta :
             /\ table.meta[c].size > 0
             /\ table.meta[c].offset + table.meta[c].size <= table.size

\* A length or count the converter accepts is the number the header's text has
\* for the C++ compiler, wherever that has one: neither another file's value
\* nor another enum's is taken for it.  GetEnumValue, line 135.
LookupAgrees ==
  \A file \in DOMAIN Files, shape \in Shapes : \A name \in {shape.count, shape.size} :
    (GetEnumValue(file, name) # 0 /\ CppValue(file, name) # 0)
      => GetEnumValue(file, name) = CppValue(file, name)

\* The reader refuses a file whose record size is not sizeof(T): a record has
\* the size of its struct, whatever is nested and repeated in it and although
\* each is computed on its own, if the header compiles without a bytes field and
\* counts of imported messages mean the same here.  UnitTest/main.cpp, line 52.
RecordFitsStruct ==
  \A m \in Messages :
    (GetsThrough(m) /\ Compiles(m) /\ CountsTravel(m))
      => TableMeta(m).size = SizeOf(StructLeaves[m])

\* Every byte of a record belongs to exactly one column, and only two fields
\* that flatten to one name (a repeated hp and an hp1) leave bytes that no
\* column ever writes.  CreateField, aresconvert_generator.h line 41.
GapsAreClashes ==
  \A m \in Messages : GetsThrough(m) =>
    LET table == TableMeta(m)
        Owners(b) == {c \in DOMAIN table.meta :
                        /\ table.meta[c].offset <= b
                        /\ b < table.meta[c].offset + table.meta[c].size}
    IN  NoClash(m) <=>
          \A b \in 0..(table.size - 1) : \E c \in DOMAIN table.meta : Owners(b) = {c}

\* One sheet serves both formats: Flatten for the binary file and the meta data
\* for the JSON file fail on the same messages and otherwise ask for the same
\* columns, but for an empty message and a count on a field that is not
\* repeated.  WriteJsonToFile, application.cpp line 500.
SameSheet ==
  \A m \in Messages :
    (Labelled(m) /\ \A k \in Reach[m] : fields[k] # <<>>)
      => LET json == JsonColumns[<<home[m], m>>]
         IN  /\ json.ok <=> GetsThrough(m)
             /\ json.ok => json.names = ToSet(ColumnNames(m))

\* The meta data the header carries give a field of a basic type the offset its
\* first column has in the record, also behind member messages, unless one of
\* those repeats a field itself (GetTypeSize counts it once).
\* CreateMessageMetaFromDescriptor, line 350.
MetaMatchesRecord ==
  \A m \in Messages :
    LET meta   == MessageMeta(home[m], m).metas
        table  == TableMeta(m).meta
        simple == \A k \in Reach[m] \ {m} : \A f \in FieldsOf(k) : ~f.repeated
    IN  (GetsThrough(m) /\ NoClash(m) /\ Labelled(m) /\ simple)
          => \A i \in DOMAIN meta : meta[i].type \in Leaves =>
               table[JsonNames(meta[i])[1]].offset = meta[i].offset

\* What fread of a record into the struct needs (UnitTest/main.cpp, line 63): a
\* column is where the struct has the member.
FitsMemberwise(m) ==
  LET table  == TableMeta(m).meta
      leaves == StructLeaves[m]
  IN  \A i \in DOMAIN leaves :
        table[leaves[i].name].offset = SizeOf(SubSeq(leaves, 1, i - 1))

Readable(m) == GetsThrough(m) /\ Compiles(m) /\ CountsTravel(m) /\ NoClash(m)

\* The reader gets every column in its member, if all messages involved declare
\* their fields in the order of their names.  GenerateInfo, line 413, and Flatten, line 170.
SortedRecordsAreStructs ==
  \A m \in Messages :
    (Readable(m) /\ \A k \in Reach[m] : Members(k) = fields[k]) => FitsMemberwise(m)

\* The same for any order, as the unit test has it: it reads records of
\* PingFooResponse into an array of that struct and prints the members.  The
\* code breaks it.
RecordsAreStructs == \A m \in Messages : Readable(m) => FitsMemberwise(m)
=============================================================================
