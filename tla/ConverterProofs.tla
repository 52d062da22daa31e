--------------------------- MODULE ConverterProofs ---------------------------
(***************************************************************************)
(* Proofs about Converter, for any resources, messages, sheets, files and  *)
(* number of edits.                                                        *)
(*                                                                         *)
(* The argument follows what cli.Run read.  Between it and the             *)
(* serialization nobody but the user moves, so the tables are still those  *)
(* of the conversion under way (TableInv, JsonTableInv); as long as no     *)
(* .proto file was edited, whatever the tables have kept is what the files *)
(* say (CacheInv).  A FILE* stays open only for a resource that failed.    *)
(***************************************************************************)
EXTENDS Converter, TLAPS

\* m_table_meta is the message's while a bin conversion is under way that got
\* through it.
TableInv == op.kind = "bin" /\ op.gen => tableMeta = op.schema.cols

\* Without an edit the tables have nothing, or what the files say, and the
\* conversion under way read what the files say.
CacheInv ==
  ~edited =>
    /\ \A r \in Resources : messageMeta[r] \in {NoMeta, proto[r].cols}
    /\ enumMeta \in {NoEnum, enumDef}

\* A conversion under way that got through its message has put the message's
\* columns and enum into the tables, if they were not stale.
JsonTableInv ==
  op.kind # "none" /\ op.gen /\ ~edited =>
    /\ op.kind = "json" => messageMeta[op.res] = op.schema.cols
    /\ EnumCol \in op.schema.cols => enumMeta = op.enum

\* Only a failed conversion leaves its FILE* open.
LeakInv == \A l \in leaked : l.res \in failed

\* The process ends between requests only.
RunInv == op.kind # "none" => main = "running"

ConverterInv ==
  /\ TypeOK
  /\ TableInv
  /\ CacheInv
  /\ JsonTableInv
  /\ GeneratedBinIsCurrent
  /\ UneditedIsCurrent
  /\ ArgumentsForListed
  /\ LeakInv
  /\ RunInv

-----------------------------------------------------------------------------
(* Types of the parts.                                                     *)

LEMMA SchemaTyped ==
  \A s \in Schemas \cup {NoSchema} : s.cols \in SUBSET Cols /\ s.flat \in SUBSET s.cols
  BY ConverterAssumption DEF ConverterAssumption, NoSchema

LEMMA SheetTyped ==
  \A s \in Sheets : s.rows \in Nat /\ s.header \in SUBSET Cols
  BY ConverterAssumption DEF ConverterAssumption

LEMMA NoOpTyped == enumDef \in Enums => NoOp \in Op /\ NoOp.kind = "none"
  BY ConverterAssumption DEF NoOp, Op, ConverterAssumption

LEMMA BlankTyped ==
  ASSUME NEW k \in {"none", "partial", "bin", "json", "mixed"}
  PROVE  Blank(k) \in File
  BY DEF Blank, File, Totals

LEMMA NoMetaTyped == NoMeta \in SUBSET Cols
  BY DEF NoMeta

\* What cli.Run leaves in the tables is a table.
LEMMA TablesTyped ==
  ASSUME TypeOK, NEW r \in Resources
  PROVE  /\ Flattened(r) \in SUBSET Cols
         /\ Collected(r) \in [Resources -> SUBSET Cols]
         /\ EnumCollected(r) \in Enums \cup {NoEnum}
         /\ proto[r] \in Schemas \cup {NoSchema}
  BY SchemaTyped DEF TypeOK, Flattened, Collected, EnumCollected

\* The files a serialization leaves.
LEMMA OutputTyped ==
  ASSUME TypeOK, op.res \in Resources, NEW s \in Sheets
  PROVE  BinOf(s) \in File /\ JsonOf(s) \in File
  BY SheetTyped DEF TypeOK, BinOf, JsonOf, RecordCount, File, Totals

\* Whichever way a conversion ends, the types are kept.
LEMMA FinishTyped ==
  ASSUME TypeOK, op.kind # "none", NEW ok \in BOOLEAN, NEW file \in File,
         NEW leaks \in SUBSET Leak, Finish(ok, file, leaks)
  PROVE  TypeOK'
<1>1. op \in Op /\ op.res \in Resources /\ op.gen \in BOOLEAN
  BY DEF TypeOK, Op
<1>2. report' \in [op : Op, ok : BOOLEAN, fresh : BOOLEAN]
  BY <1>1 DEF Finish, TypeOK
<1>3. op' \in Op
  BY NoOpTyped DEF Finish, TypeOK
<1>4. out' \in [Resources -> File] /\ leaked' \in SUBSET Leak /\ failed' \in SUBSET Resources
  BY <1>1 DEF Finish, TypeOK
<1> QED
  BY <1>2, <1>3, <1>4 DEF Finish, TypeOK, diskVars, cacheVars

\* What exit() makes of a file is a file.
LEMMA FlushedTyped ==
  ASSUME TypeOK, NEW r \in Resources
  PROVE  Flushed(r) \subseteq File
<1> DEFINE mine == {l \in leaked : l.res = r}
           f == out[r]
<1>1. f \in File
  BY DEF TypeOK
<1>2. \A l \in mine : l.total \in Totals
  BY DEF TypeOK, Leak
<1>3. \A l \in mine : [f EXCEPT !.total = l.total] \in File
  BY <1>1, <1>2 DEF File
<1>4. Blank("partial") \in File /\ Blank("mixed") \in File
  BY BlankTyped
<1>5. \A l \in mine : l.kind \in {"bin", "json"}
  BY DEF TypeOK, Leak
<1>6. CASE mine = {}
  BY <1>1, <1>6 DEF Flushed
<1>7. CASE mine # {} /\ f.kind \notin {"bin", "json"}
  BY <1>4, <1>7 DEF Flushed
<1>8. CASE mine # {} /\ f.kind \in {"bin", "json"} /\ \E l \in mine : l.kind # f.kind
  <2>1. \E l \in mine : f.kind = (IF l.kind = "bin" THEN "json" ELSE "bin")
    BY <1>5, <1>8
  <2> QED
    BY <1>4, <1>8, <2>1 DEF Flushed
<1>9. CASE mine # {} /\ f.kind = "bin" /\ \A l \in mine : l.kind = f.kind
  <2>1. ~\E l \in mine : f.kind = (IF l.kind = "bin" THEN "json" ELSE "bin")
    BY <1>9
  <2>2. Flushed(r) = {[f EXCEPT !.total = l.total] : l \in mine}
    BY <1>9, <2>1 DEF Flushed
  <2> QED
    BY <1>3, <2>2
<1>10. CASE mine # {} /\ f.kind = "json" /\ \A l \in mine : l.kind = f.kind
  <2>1. ~\E l \in mine : f.kind = (IF l.kind = "bin" THEN "json" ELSE "bin")
    BY <1>10
  <2>2. Flushed(r) = {f, Blank("mixed")}
    BY <1>10, <2>1 DEF Flushed
  <2> QED
    BY <1>1, <1>4, <2>2
<1> QED
  BY <1>6, <1>7, <1>8, <1>9, <1>10

-----------------------------------------------------------------------------
(* The invariant.                                                          *)

LEMMA InvInit == Init => ConverterInv
<1> SUFFICES ASSUME Init PROVE ConverterInv
  OBVIOUS
<1>1. NoOp \in Op /\ NoOp.kind = "none"
  BY NoOpTyped DEF Init
<1>2. report \in [op : Op, ok : BOOLEAN, fresh : BOOLEAN] /\ ~report.ok /\ ~report.fresh
  BY <1>1 DEF Init
<1>3. list \in SUBSET Resources
  BY DEF Init, Listed
<1>4. TypeOK
  <2>1. proto \in [Resources -> Schemas \cup {NoSchema}]
    BY DEF Init
  <2>2. out \in [Resources -> File] /\ messageMeta \in [Resources -> SUBSET Cols]
    BY BlankTyped, NoMetaTyped DEF Init
  <2>3. xlsx \in [Resources -> Sheets \cup {NoSheet}]
    BY DEF Init
  <2>4. edits \in 0..MaxEdits
    BY ConverterAssumption DEF Init, ConverterAssumption
  <2> QED
    BY <1>1, <1>2, <1>3, <2>1, <2>2, <2>3, <2>4 DEF Init, TypeOK
<1> QED
  BY <1>1, <1>2, <1>4
  DEF Init, ConverterInv, RunInv, TableInv, CacheInv, JsonTableInv, LeakInv, RunInv,
      GeneratedBinIsCurrent, UneditedIsCurrent, ArgumentsForListed, Reported

\* Whichever way a conversion ends, what holds of the tables goes on to hold.
LEMMA FinishKeepsTables ==
  ASSUME ConverterInv, op.kind # "none", NEW ok \in BOOLEAN, NEW file \in File,
         NEW leaks \in SUBSET Leak, Finish(ok, file, leaks)
  PROVE  TypeOK' /\ TableInv' /\ CacheInv' /\ JsonTableInv' /\ ArgumentsForListed' /\ RunInv'
<1> USE DEF ConverterInv
<1>1. TypeOK'
  BY FinishTyped
<1>2. op' = NoOp /\ NoOp.kind = "none"
  BY NoOpTyped DEF Finish, TypeOK
<1>3. TableInv' /\ JsonTableInv' /\ RunInv'
  BY <1>2 DEF TableInv, JsonTableInv, RunInv
<1>4. CacheInv' /\ ArgumentsForListed'
  BY DEF Finish, CacheInv, ArgumentsForListed, diskVars, cacheVars
<1> QED
  BY <1>1, <1>3, <1>4

\* A conversion that fails leaves a FILE* of its own at most.
LEMMA FailKeeps ==
  ASSUME ConverterInv, op.kind # "none", NEW file \in File,
         NEW leaks \in SUBSET Leak, \A l \in leaks : l.res = op.res,
         Finish(FALSE, file, leaks)
  PROVE  ConverterInv'
<1>1. TypeOK' /\ TableInv' /\ CacheInv' /\ JsonTableInv' /\ ArgumentsForListed' /\ RunInv'
  BY FinishKeepsTables
<1>2. ~report'.ok
  BY DEF Finish
<1>3. LeakInv'
  BY DEF ConverterInv, Finish, LeakInv
<1> QED
  BY <1>1, <1>2, <1>3
  DEF ConverterInv, GeneratedBinIsCurrent, UneditedIsCurrent, Reported

\* One that succeeds writes what is in the tables.
LEMMA SuccessKeeps ==
  ASSUME ConverterInv, op.kind # "none", NEW file \in File,
         Finish(TRUE, file, {}),
         file.enum = enumMeta,
         op.kind = "bin" => file.cols = tableMeta,
         op.kind = "json" => file.cols = messageMeta[op.res]
  PROVE  ConverterInv'
<1>1. TypeOK' /\ TableInv' /\ CacheInv' /\ JsonTableInv' /\ ArgumentsForListed' /\ RunInv'
  BY FinishKeepsTables
<1>2. /\ report' = [op |-> op, ok |-> TRUE, fresh |-> op.gen /\ ~edited]
      /\ out'[op.res] = file
  BY DEF ConverterInv, Finish, TypeOK, Op
<1>3. GeneratedBinIsCurrent'
  BY <1>2 DEF ConverterInv, TableInv, GeneratedBinIsCurrent, Reported
<1>4. UneditedIsCurrent'
  BY <1>2 DEF ConverterInv, TableInv, JsonTableInv, UneditedIsCurrent, Reported
<1>5. LeakInv'
  BY DEF ConverterInv, Finish, LeakInv
<1> QED
  BY <1>1, <1>3, <1>4, <1>5 DEF ConverterInv

LEMMA InvNext == ConverterInv /\ [Next]_vars => ConverterInv'
<1> SUFFICES ASSUME ConverterInv, [Next]_vars PROVE ConverterInv'
  OBVIOUS
<1> USE DEF ConverterInv
<1>1. CASE Refresh
  <2>1. TypeOK'
    BY <1>1, NoMetaTyped
    DEF Refresh, TypeOK, FreshCaches, Listed, diskVars
  <2>2. CacheInv'
    BY <1>1 DEF Refresh, CacheInv, FreshCaches, diskVars
  <2> QED
    BY <1>1, <2>1, <2>2
    DEF Refresh, Idle, FreshCaches, TableInv, JsonTableInv, LeakInv, RunInv,
        GeneratedBinIsCurrent, UneditedIsCurrent, ArgumentsForListed, Reported
<1>2. CASE GetResourceNameAll
  <2>1. TypeOK'
    BY <1>2 DEF GetResourceNameAll, TypeOK, diskVars, cacheVars
  <2> QED
    BY <1>2, <2>1
    DEF GetResourceNameAll, TableInv, CacheInv, JsonTableInv, LeakInv, RunInv,
        GeneratedBinIsCurrent, UneditedIsCurrent, ArgumentsForListed, Reported,
        diskVars, cacheVars
<1>3. ASSUME NEW r \in Resources, RunConvert(r) PROVE ConverterInv'
  <2>1. /\ op' \in Op /\ op'.kind = "bin" /\ op'.schema = proto[r] /\ op'.enum = enumDef
        /\ op'.gen = (Reaches(r) /\ Valid(proto[r]))
    BY <1>3, TablesTyped DEF RunConvert, Op, TypeOK
  <2>2. TypeOK'
    BY <1>3, <2>1, TablesTyped DEF RunConvert, TypeOK, diskVars
  <2>3. TableInv'
    BY <1>3, <2>1 DEF RunConvert, TableInv, Flattened, Valid
  <2>4. CacheInv'
    BY <1>3 DEF RunConvert, CacheInv, EnumCollected, diskVars
  <2>5. JsonTableInv'
    BY <1>3, <2>1, ConverterAssumption
    DEF RunConvert, JsonTableInv, CacheInv, EnumCollected, Valid, TypeOK,
        ConverterAssumption
  <2> QED
    BY <1>3, <2>2, <2>3, <2>4, <2>5
    DEF RunConvert, Idle, LeakInv, RunInv, GeneratedBinIsCurrent, UneditedIsCurrent,
        ArgumentsForListed, Reported
<1>4. ASSUME NEW r \in Resources, RunConvertJson(r) PROVE ConverterInv'
  <2>1. /\ op' \in Op /\ op'.kind = "json" /\ op'.res = r
        /\ op'.schema = proto[r] /\ op'.enum = enumDef
        /\ op'.gen = (Reaches(r) /\ Valid(proto[r]))
    BY <1>4, TablesTyped DEF RunConvertJson, Op, TypeOK
  <2>2. TypeOK'
    BY <1>4, <2>1, TablesTyped DEF RunConvertJson, TypeOK, diskVars
  <2>3. CacheInv'
    BY <1>4 DEF RunConvertJson, CacheInv, EnumCollected, Collected, TypeOK, diskVars
  <2>4. ~edited' /\ op'.gen => messageMeta'[r] = proto[r].cols
    BY <1>4, <2>1 DEF RunConvertJson, CacheInv, Collected, TypeOK
  <2>5. JsonTableInv'
    BY <1>4, <2>1, <2>4, ConverterAssumption
    DEF RunConvertJson, JsonTableInv, CacheInv, EnumCollected, Valid, TypeOK,
        ConverterAssumption
  <2> QED
    BY <1>4, <2>1, <2>2, <2>3, <2>5
    DEF RunConvertJson, Idle, TableInv, LeakInv, RunInv, GeneratedBinIsCurrent,
        UneditedIsCurrent, ArgumentsForListed, Reported
<1>5. ASSUME NEW r \in Resources, ConvertWithoutArguments(r) PROVE ConverterInv'
  <2>1. TypeOK'
    BY <1>5 DEF ConvertWithoutArguments, TypeOK, diskVars, cacheVars
  <2> QED
    BY <1>5, <2>1
    DEF ConvertWithoutArguments, Idle, TableInv, CacheInv, JsonTableInv, LeakInv, RunInv,
        GeneratedBinIsCurrent, UneditedIsCurrent, ArgumentsForListed, Reported,
        diskVars, cacheVars
<1>6. op.res \in Resources /\ out[op.res] \in File
  BY DEF TypeOK, Op
<1>7. CASE SheetMissing
  <2>1. {} \in SUBSET Leak /\ \A l \in {} : l.res = op.res
    OBVIOUS
  <2>2. op.kind # "none" /\ Finish(FALSE, out[op.res], {})
    BY <1>7 DEF SheetMissing
  <2> HIDE DEF ConverterInv
  <2> QED
    BY <1>6, <2>1, <2>2, FailKeeps
<1>8. CASE SerializeToBin
  <2> DEFINE s     == xlsx[op.res]
             total == <<s.rows, tableMeta>>
             leak  == [res |-> op.res, kind |-> "bin", total |-> total]
  <2>1. s \in Sheets /\ op.kind = "bin" /\ op.kind # "none"
    BY <1>6, <1>8 DEF SerializeToBin, SheetOpens, TypeOK
  <2>2. CASE Finish(FALSE, Blank("partial"), {})
    <3>1. /\ {} \in SUBSET Leak /\ \A l \in {} : l.res = op.res
          /\ Blank("partial") \in File
      BY BlankTyped
    <3> HIDE DEF ConverterInv
    <3> QED
      BY <2>1, <2>2, <3>1, FailKeeps
  <2>3. CASE Finish(FALSE, Blank("partial"), {leak})
    <3>1. total \in Totals
      BY <2>1, SheetTyped DEF Totals, TypeOK
    <3>2. /\ {leak} \in SUBSET Leak /\ \A l \in {leak} : l.res = op.res
          /\ Blank("partial") \in File
      BY <1>6, <3>1, BlankTyped DEF Leak
    <3> HIDE DEF ConverterInv
    <3> QED
      BY <2>1, <2>3, <3>2, FailKeeps
  <2>4. CASE Finish(TRUE, BinOf(s), Closed(s))
    <3>1. BinOf(s) \in File /\ Closed(s) = {}
      BY <1>6, <2>1, OutputTyped DEF Closed
    <3>2. BinOf(s).cols = tableMeta /\ BinOf(s).enum = enumMeta
      BY DEF BinOf
    <3> QED
      BY <2>1, <2>4, <3>1, <3>2, SuccessKeeps
  <2> QED
    BY <1>8, <2>2, <2>3, <2>4 DEF SerializeToBin
<1>9. CASE SerializeToJson
  <2> DEFINE s    == xlsx[op.res]
             leak == [res |-> op.res, kind |-> "json", total |-> <<0, {}>>]
  <2>1. s \in Sheets /\ op.kind = "json" /\ op.kind # "none"
    BY <1>6, <1>9 DEF SerializeToJson, SheetOpens, TypeOK
  <2>2. CASE Finish(FALSE, Blank("partial"), {})
    <3>1. /\ {} \in SUBSET Leak /\ \A l \in {} : l.res = op.res
          /\ Blank("partial") \in File
      BY BlankTyped
    <3> HIDE DEF ConverterInv
    <3> QED
      BY <2>1, <2>2, <3>1, FailKeeps
  <2>3. CASE Finish(FALSE, Blank("partial"), {leak})
    <3>1. /\ {leak} \in SUBSET Leak /\ \A l \in {leak} : l.res = op.res
          /\ Blank("partial") \in File
      BY <1>6, BlankTyped DEF Leak, Totals
    <3> HIDE DEF ConverterInv
    <3> QED
      BY <2>1, <2>3, <3>1, FailKeeps
  <2>4. CASE Finish(TRUE, JsonOf(s), {})
    <3>1. JsonOf(s) \in File
      BY <1>6, <2>1, OutputTyped
    <3>2. JsonOf(s).cols = messageMeta[op.res] /\ JsonOf(s).enum = enumMeta
      BY DEF JsonOf
    <3> QED
      BY <2>1, <2>4, <3>1, <3>2, SuccessKeeps
  <2> QED
    BY <1>9, <2>2, <2>3, <2>4 DEF SerializeToJson
<1>10. ASSUME NEW r \in Resources, EditProto(r) PROVE ConverterInv'
  <2>1. TypeOK'
    BY <1>10, ConverterAssumption
    DEF EditProto, Edit, TypeOK, cacheVars, ConverterAssumption
  <2> QED
    BY <1>10, <2>1
    DEF EditProto, Edit, TableInv, CacheInv, JsonTableInv, LeakInv, RunInv,
        GeneratedBinIsCurrent, UneditedIsCurrent, ArgumentsForListed, Reported, cacheVars
<1>11. CASE BreakOrMendProto
  <2>1. TypeOK'
    BY <1>11, ConverterAssumption
    DEF BreakOrMendProto, Edit, TypeOK, cacheVars, ConverterAssumption
  <2> QED
    BY <1>11, <2>1
    DEF BreakOrMendProto, Edit, TableInv, CacheInv, JsonTableInv, LeakInv, RunInv,
        GeneratedBinIsCurrent, UneditedIsCurrent, ArgumentsForListed, Reported, cacheVars
<1>12. CASE EditEnum
  <2>1. TypeOK'
    BY <1>12, ConverterAssumption
    DEF EditEnum, Edit, TypeOK, cacheVars, ConverterAssumption
  <2> QED
    BY <1>12, <2>1
    DEF EditEnum, Edit, TableInv, CacheInv, JsonTableInv, LeakInv, RunInv,
        GeneratedBinIsCurrent, UneditedIsCurrent, ArgumentsForListed, Reported, cacheVars
<1>13. ASSUME NEW r \in Resources, EditSheet(r) PROVE ConverterInv'
  <2>1. TypeOK'
    BY <1>13, ConverterAssumption
    DEF EditSheet, Edit, TypeOK, cacheVars, ConverterAssumption
  <2> QED
    BY <1>13, <2>1
    DEF EditSheet, Edit, TableInv, CacheInv, JsonTableInv, LeakInv, RunInv,
        GeneratedBinIsCurrent, UneditedIsCurrent, ArgumentsForListed, Reported, cacheVars
<1>14. CASE BreakOrMendSettings
  <2>1. TypeOK'
    BY <1>14, ConverterAssumption
    DEF BreakOrMendSettings, Edit, TypeOK, cacheVars, ConverterAssumption
  <2> QED
    BY <1>14, <2>1
    DEF BreakOrMendSettings, Edit, TableInv, CacheInv, JsonTableInv, LeakInv, RunInv,
        GeneratedBinIsCurrent, UneditedIsCurrent, ArgumentsForListed, Reported, cacheVars
<1>15. CASE ExitProcess
  <2>1. out' \in [Resources -> File]
    <3>1. PICK f \in [Resources -> UNION {Flushed(r) : r \in Resources}] :
            out' = f /\ \A r \in Resources : f[r] \in Flushed(r)
      BY <1>15 DEF ExitProcess
    <3> QED
      BY <3>1, FlushedTyped
  <2>2. TypeOK'
    BY <1>15, <2>1 DEF ExitProcess, TypeOK, diskVars, cacheVars
  <2> QED
    BY <1>15, <2>2
    DEF ExitProcess, Idle, TableInv, CacheInv, JsonTableInv, LeakInv, RunInv,
        GeneratedBinIsCurrent, UneditedIsCurrent, ArgumentsForListed, Reported,
        diskVars, cacheVars
<1>16. CASE UNCHANGED vars
  BY <1>16
  DEF vars, TypeOK, TableInv, CacheInv, JsonTableInv, LeakInv, RunInv,
      GeneratedBinIsCurrent, UneditedIsCurrent, ArgumentsForListed, Reported
<1> QED
  BY <1>1, <1>2, <1>3, <1>4, <1>5, <1>7, <1>8, <1>9, <1>10, <1>11, <1>12,
     <1>13, <1>14, <1>15, <1>16
  DEF Next, Terminated

\* What cli.Run read, what the generator keeps and what is in the files stay
\* together as the invariant says.
THEOREM TablesFollowFiles == Spec => []ConverterInv
  BY InvInit, InvNext, PTL DEF Spec

-----------------------------------------------------------------------------
(* The properties the runs check.                                          *)

\* Every variable of Converter keeps its type.
THEOREM ConverterTyped == Spec => []TypeOK
  BY TablesFollowFiles, PTL DEF ConverterInv

\* A bin that answers "success" after the generator got through has the columns
\* of its own message, whatever was converted before (m_table_meta).
THEOREM BinIsItsMessages == Spec => []GeneratedBinIsCurrent
  BY TablesFollowFiles, PTL DEF ConverterInv

\* Without an edit since the last Refresh no output comes from stale tables
\* (m_message_meta, m_enum_meta).
THEOREM NoStaleTables == Spec => []UneditedIsCurrent
  BY TablesFollowFiles, PTL DEF ConverterInv

\* plugin_arguments[1] exists whenever the page can be sent a resource.
THEOREM ArgumentsAreThere == Spec => []ArgumentsForListed
  BY TablesFollowFiles, PTL DEF ConverterInv

\* The exit flushes only into files of resources whose conversion has failed.
THEOREM ExitSparesGoodFiles == Spec => ExitDamageNeedsFailure
<1> DEFINE A == main' = "ended" => \A r \in Resources : out'[r] # out[r] => r \in failed
<1>1. ConverterInv /\ [Next]_vars => [A]_vars
  <2> SUFFICES ASSUME ConverterInv, Next, main' = "ended", NEW r \in Resources,
                      out'[r] # out[r], ~UNCHANGED vars
               PROVE  r \in failed
    OBVIOUS
  <2>1. main = "running" => ExitProcess
    BY DEF Next, Refresh, GetResourceNameAll, RunConvert, RunConvertJson,
           ConvertWithoutArguments, SheetMissing, SerializeToBin, SerializeToJson,
           Finish, Edit, EditProto, BreakOrMendProto, EditEnum, EditSheet,
           BreakOrMendSettings, Terminated
  <2>2. main = "running"
    BY DEF ConverterInv, TypeOK, RunInv, Next, Refresh, GetResourceNameAll, RunConvert,
           RunConvertJson, ConvertWithoutArguments, SheetMissing, SerializeToBin,
           SerializeToJson, EditProto, BreakOrMendProto, EditEnum, EditSheet, Edit,
           BreakOrMendSettings, ExitProcess, Terminated, Idle
  <2>3. out'[r] \in Flushed(r)
    BY <2>1, <2>2 DEF ExitProcess
  <2>4. {l \in leaked : l.res = r} # {}
    BY <2>3 DEF Flushed
  <2> QED
    BY <2>4 DEF ConverterInv, LeakInv
<1> QED
  BY <1>1, TablesFollowFiles, PTL DEF Spec, ExitDamageNeedsFailure
=============================================================================
