----------------------------- MODULE Converter ------------------------------
(***************************************************************************)
(* What a conversion makes of the files on disk: the .proto files that     *)
(* declare the resources, the .xlsx sheets with their rows, the output     *)
(* files, and between them the generator's tables, which the application   *)
(* keeps from one request to the next.  Handlers run one at a time on the  *)
(* dispatcher's worker (TaskBridge), so a request is one action here,      *)
(* except that a conversion is two: cli.Run reads the .proto files, then   *)
(* SerializeToBin or SerializeToJson reads the sheet; the user may edit    *)
(* files in between as at any other time.                                  *)
(*                                                                         *)
(* A schema is abstracted to the columns its message declares and those    *)
(* Flatten gets through before it fails (all, for a valid message); a      *)
(* sheet to its header, its number of rows and a cell no writer accepts.   *)
(***************************************************************************)
EXTENDS Integers

CONSTANTS
  Resources,   \* messages with the file_name and xlsx_name options
  Cols,        \* column names
  Key,         \* the key_name column of every resource
  EnumCol,     \* the column of an enum type
  Enums,       \* definitions the enum may have
  NoEnum,      \* the enum has not been collected
  Schemas,     \* what the user may write as a message
  Sheets,      \* what the user may write as a sheet
  FileOf,      \* FileOf[r]: the position of r's file in setup.json's "files"
  NumFiles,    \* the number of those files
  MaxEdits     \* bound: edits the user makes

\* NoCol stands for "no such cell", NoSheet for a file or sheet that cannot be
\* opened.
CONSTANTS NoCol, NoSheet

\* The message is not declared, or not collected.
NoSchema == [cols |-> {}, flat |-> {}]
NoMeta   == {}

ASSUME ConverterAssumption ==
  /\ Resources # {}
  /\ Key \in Cols
  /\ EnumCol \in Cols
  /\ NoCol \notin Cols
  /\ NoEnum \notin Enums
  /\ NumFiles \in Nat \ {0}
  /\ MaxEdits \in Nat
  /\ FileOf \in [Resources -> 1..NumFiles]
  /\ \A s \in Schemas : s.cols \in SUBSET Cols /\ s.flat \in SUBSET s.cols
  /\ \A s \in Schemas : Key \in s.cols
  /\ NoSheet \notin Sheets
  /\ \A s \in Sheets : /\ s.header \in SUBSET Cols
                       /\ s.rows \in Nat
                       /\ s.bad \in s.header \cup {NoCol}
                       /\ s.rows = 0 => s.bad = NoCol

\* A record count and the columns of a record: header.count * header.size.
Totals == Nat \X SUBSET Cols

\* An output file.  "partial": truncated by fopen and at most written in part,
\* by a conversion that failed; "mixed": two conversions in one file.
File == [kind : {"none", "partial", "bin", "json", "mixed"},
         cols : SUBSET Cols, enum : Enums \cup {NoEnum}, count : Nat,
         total : Totals]
Blank(k) == [kind |-> k, cols |-> {}, enum |-> NoEnum, count |-> 0,
             total |-> <<0, {}>>]

\* A FILE* that a failed conversion did not close, with unwritten bytes in its
\* buffer: the total size of a bin, or the beginning of a json.
Leak == [res : Resources, kind : {"bin", "json"}, total : Totals]

VARIABLES
  proto,       \* disk: proto[r], the message r as the .proto file has it
  protoOk,     \* disk: the .proto files parse
  enumDef,     \* disk: the enum as the .proto file has it
  xlsx,        \* disk: xlsx[r], the sheet of r
  settingsOk,  \* disk: setup.json loads
  out,         \* disk: out[r], the output file of r
  list,        \* m_info.resource_list
  tableMeta,   \* m_table_meta: the columns of the record
  messageMeta, \* m_message_meta[r]: the columns of r
  enumMeta,    \* m_enum_meta: the enum's definition
  args,        \* plugin_arguments is filled
  nodes,       \* resources the page may still ask for
  op,          \* the conversion between cli.Run and its serialization
  report,      \* the last conversion that ended
  leaked,      \* open FILE*s with unwritten bytes
  failed,      \* resources whose conversion failed
  edited,      \* a .proto file was edited since the last Refresh or start
  edits,       \* number of edits
  main         \* the process

diskVars  == <<proto, protoOk, enumDef, xlsx, settingsOk>>
cacheVars == <<list, tableMeta, messageMeta, enumMeta, args>>
vars == <<proto, protoOk, enumDef, xlsx, settingsOk, out, list, tableMeta,
          messageMeta, enumMeta, args, nodes, op, report, leaked, failed,
          edited, edits, main>>

\* "res", "kind" and whether the generator got through the message, with the
\* message and the enum as cli.Run read them.
Op   == [kind : {"none", "bin", "json"}, res : Resources, gen : BOOLEAN,
         schema : Schemas \cup {NoSchema}, enum : Enums]
NoOp == [kind |-> "none", res |-> CHOOSE r \in Resources : TRUE,
         gen |-> FALSE, schema |-> NoSchema,
         enum |-> CHOOSE e \in Enums : TRUE]

TypeOK ==
  /\ proto \in [Resources -> Schemas \cup {NoSchema}]
  /\ protoOk \in BOOLEAN
  /\ enumDef \in Enums
  /\ xlsx \in [Resources -> Sheets \cup {NoSheet}]
  /\ settingsOk \in BOOLEAN
  /\ out \in [Resources -> File]
  /\ list \in SUBSET Resources
  /\ tableMeta \in SUBSET Cols
  /\ messageMeta \in [Resources -> SUBSET Cols]
  /\ enumMeta \in Enums \cup {NoEnum}
  /\ args \in BOOLEAN
  /\ nodes \in SUBSET Resources
  /\ op \in Op
  /\ report \in [op : Op, ok : BOOLEAN, fresh : BOOLEAN]
  /\ leaked \in SUBSET Leak
  /\ failed \in SUBSET Resources
  /\ edited \in BOOLEAN
  /\ edits \in 0..MaxEdits
  /\ main \in {"running", "undefined", "ended"}

-----------------------------------------------------------------------------
(* The generator.                                                          *)

\* Generate with "resource" on every file in turn: FindAllResourceTable clears
\* the list it fills, so the last file's resources remain.
Listed ==
  IF protoOk THEN {r \in Resources : proto[r] # NoSchema /\ FileOf[r] = NumFiles}
  ELSE {}

\* Generate with "convert:r" reaches r's message: GenerateAll stops at the
\* first file without it, so it must be in the first file.
Reaches(r) == protoOk /\ proto[r] # NoSchema /\ FileOf[r] = 1

\* Flatten and CollectMessageMetaFromDescriptor stop at a field they cannot
\* size.
Valid(s) == s.flat = s.cols

\* m_table_meta after Convert: cleared, then filled by Flatten.
NotCleared(r) ==   \* mutant: without the Clear
  IF Reaches(r) THEN tableMeta \cup proto[r].flat ELSE tableMeta
Flattened(r) == IF Reaches(r) THEN proto[r].flat ELSE tableMeta

\* m_message_meta after ConvertJson: emplace keeps what is there.
Overwritten(r) ==   \* mutant: insert_or_assign
  IF Reaches(r) /\ Valid(proto[r])
  THEN [messageMeta EXCEPT ![r] = proto[r].cols]
  ELSE messageMeta
Collected(r) ==
  IF Reaches(r) /\ Valid(proto[r]) /\ messageMeta[r] = NoMeta
  THEN [messageMeta EXCEPT ![r] = proto[r].cols]
  ELSE messageMeta

\* m_enum_meta after either: emplace keeps what is there.
EnumCollected(r) ==
  IF Reaches(r) /\ EnumCol \in proto[r].flat /\ enumMeta = NoEnum
  THEN enumDef ELSE enumMeta

-----------------------------------------------------------------------------
(* The requests.                                                           *)

Idle == main = "running" /\ op.kind = "none"

\* Application::Refresh: a new generator and an empty plugin_arguments; Run
\* fills both if the settings load.
CachesKept ==   \* mutant: the old generator stays
  [list |-> list, table |-> tableMeta, message |-> messageMeta,
   enum |-> enumMeta]
FreshCaches ==
  [list |-> {}, table |-> {}, message |-> [r \in Resources |-> NoMeta],
   enum |-> NoEnum]

Refresh ==
  /\ Idle
  /\ tableMeta' = FreshCaches.table
  /\ messageMeta' = FreshCaches.message
  /\ enumMeta' = FreshCaches.enum
  /\ args' = settingsOk
  /\ list' = IF settingsOk THEN Listed ELSE FreshCaches.list
  /\ edited' = FALSE
  /\ UNCHANGED <<diskVars, out, nodes, op, report, leaked, failed, edits,
                 main>>

\* The page shows the resources it is sent; a chain of requests under way
\* goes on with the ones it was started for.
GetResourceNameAll ==
  /\ Idle
  /\ nodes' = nodes \cup list
  /\ UNCHANGED <<diskVars, cacheVars, out, op, report, leaked, failed, edited,
                 edits, main>>

\* ConvertBin up to the return of cli.Run, whose result is ignored.
RunConvert(r) ==
  /\ Idle
  /\ r \in nodes
  /\ args
  /\ op' = [kind |-> "bin", res |-> r,
            gen |-> Reaches(r) /\ Valid(proto[r]),
            schema |-> proto[r], enum |-> enumDef]
  /\ tableMeta' = Flattened(r)
  /\ enumMeta' = EnumCollected(r)
  /\ UNCHANGED <<diskVars, out, list, messageMeta, args, nodes, report,
                 leaked, failed, edited, edits, main>>

\* ConvertJson up to the return of cli.Run.
RunConvertJson(r) ==
  /\ Idle
  /\ r \in nodes
  /\ args
  /\ op' = [kind |-> "json", res |-> r,
            gen |-> Reaches(r) /\ Valid(proto[r]),
            schema |-> proto[r], enum |-> enumDef]
  /\ messageMeta' = Collected(r)
  /\ enumMeta' = EnumCollected(r)
  /\ UNCHANGED <<diskVars, out, list, tableMeta, args, nodes, report, leaked,
                 failed, edited, edits, main>>

\* Either handler starts with plugin_arguments[1]: undefined on an empty vector.
ConvertWithoutArguments(r) ==
  /\ Idle
  /\ r \in nodes
  /\ ~args
  /\ main' = "undefined"
  /\ UNCHANGED <<diskVars, cacheVars, out, nodes, op, report, leaked, failed,
                 edited, edits>>

\* The end of a conversion: what it leaves in the output file and its FILE*,
\* and the answer "success" or "fail".
Finish(ok, file, leaks) ==
  /\ out' = [out EXCEPT ![op.res] = file]
  /\ leaked' = leaked \cup leaks
  /\ report' = [op |-> op, ok |-> ok, fresh |-> op.gen /\ ~edited]
  /\ failed' = IF ok THEN failed ELSE failed \cup {op.res}
  /\ op' = NoOp
  /\ UNCHANGED <<diskVars, cacheVars, nodes, edited, edits, main>>

\* The Find... functions know r and doc.open and worksheet do not throw.
SheetOpens == op.res \in list /\ xlsx[op.res] # NoSheet

SheetMissing ==
  /\ op.kind # "none"
  /\ ~SheetOpens
  /\ Finish(FALSE, out[op.res], {})

\* row_count - first_row, where row_count includes the rows up to the header.
HeaderNotCounted(s) == s.rows - 1   \* mutant: one row too few
RecordCount(s) == s.rows

\* What a successful conversion leaves open.
LeftOpen(s) ==   \* mutant: no fclose at the end
  {[res |-> op.res, kind |-> "bin", total |-> <<s.rows, tableMeta>>]}
Closed(s) == {}

\* SerializeToBin after fopen: every field needs a column, then the head is
\* written, then the cells are converted, and the records are written last.
\* No return but the last closes the file; the total size is then the part of
\* the head still in the buffer.
BinOf(s) == [kind |-> "bin", cols |-> tableMeta, enum |-> enumMeta,
             count |-> RecordCount(s), total |-> <<RecordCount(s), tableMeta>>]

\* Every field has a column.
ColumnsFound(s) == tableMeta \subseteq s.header

\* One of the Write...Cell functions rejects a cell.
BinCellFails(s) == s.bad \in tableMeta

SerializeToBin ==
  /\ op.kind = "bin"
  /\ SheetOpens
  /\ LET s == xlsx[op.res]
     IN \/ /\ ~ColumnsFound(s)
           /\ Finish(FALSE, Blank("partial"), {})
        \/ /\ ColumnsFound(s)
           /\ BinCellFails(s)
           /\ Finish(FALSE, Blank("partial"),
                     {[res |-> op.res, kind |-> "bin",
                       total |-> <<s.rows, tableMeta>>]})
        \/ /\ ColumnsFound(s)
           /\ ~BinCellFails(s)
           /\ Finish(TRUE, BinOf(s), Closed(s))

\* SerializeToJson after fopen: the key column, the message and its key field
\* must be there; a bad key cell returns without fclose, any other failure in
\* a row closes the file.  Without rows no cell is looked at.
JsonOf(s) == [kind |-> "json", cols |-> messageMeta[op.res], enum |-> enumMeta,
              count |-> s.rows, total |-> <<s.rows, messageMeta[op.res]>>]

KeyFound(s) == Key \in s.header /\ Key \in messageMeta[op.res]

\* GetPrimitiveValForJson rejects a key.
KeyFails(s) == s.bad = Key

\* WriteJsonToFile misses a column, or a cell is rejected.
RowFails(s) ==
  /\ s.rows # 0
  /\ \/ ~(messageMeta[op.res] \subseteq s.header)
     \/ s.bad \in messageMeta[op.res] \ {Key}

SerializeToJson ==
  /\ op.kind = "json"
  /\ SheetOpens
  /\ LET s == xlsx[op.res]
     IN \/ /\ ~KeyFound(s)
           /\ Finish(FALSE, Blank("partial"), {})
        \/ /\ KeyFound(s)
           /\ KeyFails(s)
           /\ Finish(FALSE, Blank("partial"),
                     {[res |-> op.res, kind |-> "json", total |-> <<0, {}>>]})
        \/ /\ KeyFound(s)
           /\ RowFails(s)
           /\ Finish(FALSE, Blank("partial"), {})
        \/ /\ KeyFound(s)
           /\ ~KeyFails(s) /\ ~RowFails(s)
           /\ Finish(TRUE, JsonOf(s), {})

-----------------------------------------------------------------------------
(* The user and the end of the process.                                    *)

Edit ==
  /\ main = "running"
  /\ edits < MaxEdits
  /\ edits' = edits + 1

EditProto(r) ==
  /\ Edit
  /\ \E s \in Schemas \cup {NoSchema} :
       proto' = [proto EXCEPT ![r] = s]
  /\ edited' = TRUE
  /\ UNCHANGED <<protoOk, enumDef, xlsx, settingsOk, cacheVars, out, nodes, op,
                 report, leaked, failed, main>>

BreakOrMendProto ==
  /\ Edit
  /\ protoOk' = ~protoOk
  /\ edited' = TRUE
  /\ UNCHANGED <<proto, enumDef, xlsx, settingsOk, cacheVars, out, nodes, op,
                 report, leaked, failed, main>>

EditEnum ==
  /\ Edit
  /\ enumDef' \in Enums
  /\ edited' = TRUE
  /\ UNCHANGED <<proto, protoOk, xlsx, settingsOk, cacheVars, out, nodes, op,
                 report, leaked, failed, main>>

EditSheet(r) ==
  /\ Edit
  /\ \E s \in Sheets \cup {NoSheet} : xlsx' = [xlsx EXCEPT ![r] = s]
  /\ UNCHANGED <<proto, protoOk, enumDef, settingsOk, cacheVars, out, nodes,
                 op, report, leaked, failed, edited, main>>

BreakOrMendSettings ==
  /\ Edit
  /\ settingsOk' = ~settingsOk
  /\ UNCHANGED <<proto, protoOk, enumDef, xlsx, cacheVars, out, nodes, op,
                 report, leaked, failed, edited, main>>

\* exit() writes the buffers of the open FILE*s where they were to go, in no
\* known order: a bin's total size into its head, a json's beginning at the
\* beginning, where it may agree with what is there.
Flushed(r) ==
  LET mine == {l \in leaked : l.res = r}
      f    == out[r]
  IN CASE mine = {} -> {f}
       [] mine # {} /\ f.kind \notin {"bin", "json"} -> {Blank("partial")}
       [] \E l \in mine : f.kind = (IF l.kind = "bin" THEN "json" ELSE "bin")
            -> {Blank("mixed")}
       [] mine # {} /\ f.kind = "bin" /\ (\A l \in mine : l.kind = "bin")
            -> {[f EXCEPT !.total = l.total] : l \in mine}
       [] mine # {} /\ f.kind = "json" /\ (\A l \in mine : l.kind = "json")
            -> {f, Blank("mixed")}

ExitProcess ==
  /\ Idle
  /\ main' = "ended"
  /\ out' \in {f \in [Resources -> UNION {Flushed(r) : r \in Resources}] :
                 \A r \in Resources : f[r] \in Flushed(r)}
  /\ leaked' = {}
  /\ UNCHANGED <<diskVars, cacheVars, nodes, op, report, failed, edited, edits>>

Terminated == main # "running" /\ UNCHANGED vars

-----------------------------------------------------------------------------

\* main: the settings load, Run lists the resources.  (A start with broken
\* settings is a Refresh with broken settings away.)
Init ==
  /\ proto \in [Resources -> {s \in Schemas : Valid(s)}]
  /\ protoOk = TRUE
  /\ enumDef \in Enums
  /\ xlsx \in [Resources -> Sheets]
  /\ settingsOk = TRUE
  /\ out = [r \in Resources |-> Blank("none")]
  /\ list = Listed
  /\ tableMeta = {}
  /\ messageMeta = [r \in Resources |-> NoMeta]
  /\ enumMeta = NoEnum
  /\ args = TRUE
  /\ nodes = {}
  /\ op = NoOp
  /\ report = [op |-> NoOp, ok |-> FALSE, fresh |-> FALSE]
  /\ leaked = {}
  /\ failed = {}
  /\ edited = FALSE
  /\ edits = 0
  /\ main = "running"

Next ==
  \/ Refresh
  \/ GetResourceNameAll
  \/ \E r \in Resources : RunConvert(r)
  \/ \E r \in Resources : RunConvertJson(r)
  \/ \E r \in Resources : ConvertWithoutArguments(r)
  \/ SheetMissing
  \/ SerializeToBin
  \/ SerializeToJson
  \/ \E r \in Resources : EditProto(r)
  \/ BreakOrMendProto
  \/ EditEnum
  \/ \E r \in Resources : EditSheet(r)
  \/ BreakOrMendSettings
  \/ ExitProcess
  \/ Terminated

Spec == Init /\ [][Next]_vars
-----------------------------------------------------------------------------
(* Properties.                                                             *)

Reported(kind) == main = "running" /\ report.ok /\ report.op.kind = kind

\* A bin conversion that answers "success" after the generator got through the
\* message has the columns the message declared then, whatever was converted
\* before and has failed before (m_table_meta is one table for all messages
\* and all requests).
GeneratedBinIsCurrent ==
  Reported("bin") /\ report.op.gen =>
    out[report.op.res].cols = report.op.schema.cols

\* As long as no .proto file has been edited since the last Refresh, success
\* means the output has the columns and the enum of the files on disk: the
\* tables the generator keeps from request to request are not stale.
UneditedIsCurrent ==
  report.fresh /\ (Reported("bin") \/ Reported("json")) =>
    /\ out[report.op.res].cols = report.op.schema.cols
    /\ EnumCol \in report.op.schema.cols =>
         out[report.op.res].enum = report.op.enum

\* A resource of the list the page can be sent now can be converted: while
\* the list has a member, plugin_arguments is filled.  (A page that kept the
\* list of before a failed Refresh has no such promise.)
ArgumentsForListed == list # {} => args

\* The exit of the process changes no output file whose conversions all
\* succeeded: only a failed conversion leaves an unwritten buffer behind.
ExitDamageNeedsFailure ==
  [][main' = "ended" =>
       \A r \in Resources : out'[r] # out[r] => r \in failed]_vars

\* UnitTest/main.cpp:52 "if (header.size != sizeof(T))" returns -1: a reader
\* takes a file only with the records its message declares, so a conversion
\* that answers "success" leaves such a file.
SuccessIsComplete ==
  Reported("bin") => out[report.op.res].cols = report.op.schema.cols

\* application.cpp:669 "4. record total size": the total size in the head of a
\* bin is the size of its records.
TotalSizeMatches ==
  \A r \in Resources :
    out[r].kind = "bin" => out[r].total = <<out[r].count, out[r].cols>>
=============================================================================
