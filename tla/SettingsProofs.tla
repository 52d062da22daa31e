--------------------------- MODULE SettingsProofs ----------------------------
(***************************************************************************)
(* Proofs about Settings, for every set of paths and any number of runs.   *)
(*                                                                         *)
(* The argument follows the paths around the circle from the file to       *)
(* conf_json and back: while nothing but an edit still to be read stands   *)
(* against it, the file has the user's paths (FileInv); a process with     *)
(* nothing against it holds them too (MemoryInv), so it writes them back.  *)
(***************************************************************************)
EXTENDS Settings, TLAPS

\* A process that may still write the file.
WillSave == main \in {"loop", "quit", "truncated"}

\* Between the truncation and the write the file is empty, and an edit that
\* was not read is known to be lost.
TruncatedInv ==
  main = "truncated" =>
    /\ file = Bare("empty")
    /\ "unread" \in fault => "overwritten" \in fault

FileInv ==
  main # "truncated" /\ fault \subseteq {"unread"} /\ file.kind # "cut" =>
    file.paths = userPaths

MemoryInv ==
  WillSave /\ fault = {} => memory.paths = userPaths /\ conf = userPaths

\* A process with arguments has read nothing.
CommandInv ==
  WillSave /\ mode = "command" => "command" \in fault \/ "unread" \in fault

KeptInv == TypeOK /\ TruncatedInv /\ FileInv /\ MemoryInv /\ CommandInv

LEMMA BareTyped ==
  \A k \in {"missing", "empty", "cut", "doc"} : Bare(k) \in Content
  BY DEF Bare, Content, Choices

\* What the user leaves on disk: the paths are whole unless it is cut.
LEMMA UserMadeWhole ==
  ASSUME NEW p \in Paths \cup {NoPaths}, NEW c \in UserMade(p)
  PROVE  c \in Content /\ (c.kind # "cut" => c.paths = p)
  BY BareTyped DEF UserMade, Bare

\* A file that loads puts the user's paths into conf_json and conf; any other
\* leaves a fault.
LEMMA ReadIsCurrent ==
  ASSUME KeptInv, NEW old \in Content, old.kind = "doc", ReadSettings(old)
  PROVE  /\ memory' \in Content /\ memory'.kind = "doc"
         /\ conf' \in Paths \cup {NoPaths}
         /\ last' \in Choices
         /\ fault' \subseteq fault \cup {"failed"}
         /\ fault \subseteq fault' \cup {"unread"}
         /\ fault' = {} => /\ main # "truncated"
                           /\ memory'.paths = userPaths /\ conf' = userPaths
<1>1. memory' \in Content /\ memory'.kind = "doc"
  BY DEF KeptInv, TypeOK, ReadSettings, Parsed, Prefix, Content
<1>2. conf' \in Paths \cup {NoPaths}
  BY DEF KeptInv, TypeOK, ReadSettings, ConfRead, Content
<1>3. last' \in Choices
  BY DEF ReadSettings, Choices
<1>4. fault' \subseteq fault \cup {"failed"} /\ fault \subseteq fault' \cup {"unread"}
  BY DEF ReadSettings
<1>5. ASSUME fault' = {}
      PROVE  main # "truncated" /\ memory'.paths = userPaths /\ conf' = userPaths
  <2>1. LoadSucceeds /\ fault \subseteq {"unread"}
    BY <1>5 DEF ReadSettings
  <2>2. file.kind = "doc" /\ main # "truncated"
    BY <2>1 DEF LoadSucceeds, KeptInv, TruncatedInv, Bare
  <2>3. file.paths = userPaths
    BY <2>1, <2>2 DEF KeptInv, FileInv
  <2> QED
    BY <2>2, <2>3 DEF ReadSettings, Parsed, ConfRead
<1> QED
  BY <1>1, <1>2, <1>3, <1>4, <1>5

LEMMA KeptInit == Init => KeptInv
<1> SUFFICES ASSUME Init PROVE KeptInv
  OBVIOUS
<1>1. file \in Content /\ (file.kind # "cut" => file.paths = userPaths)
  BY UserMadeWhole DEF Init
<1>2. memory \in Content /\ memory.kind = "doc"
  BY BareTyped DEF Init, NullDoc, Bare
<1> QED
  BY <1>1, <1>2
  DEF Init, KeptInv, TypeOK, TruncatedInv, FileInv, MemoryInv, CommandInv,
      WillSave, Choices, Modes

LEMMA KeptNext == KeptInv /\ [Next]_vars => KeptInv'
<1> SUFFICES ASSUME KeptInv, [Next]_vars PROVE KeptInv'
  OBVIOUS
<1> USE DEF memVars
<1>0. NullDoc \in Content /\ NullDoc.kind = "doc"
  BY BareTyped DEF NullDoc, Bare
<1>1. ASSUME NEW m \in Modes, Start(m) PROVE KeptInv'
  <2>1. main' \in {"loop", "quit"} /\ UNCHANGED <<file, userPaths, task, raced>>
    BY <1>1 DEF Start
  <2>2. CASE m = "browser"
    <3>1. ReadSettings(NullDoc)
      BY <1>1, <2>2 DEF Start
    <3> QED
      BY <1>0, <1>1, <2>1, <2>2, <3>1, ReadIsCurrent
      DEF Start, KeptInv, TypeOK, TruncatedInv, FileInv, MemoryInv, CommandInv
  <2>3. CASE m = "command"
    BY <1>0, <1>1, <2>1, <2>3
    DEF Start, KeptInv, TypeOK, TruncatedInv, FileInv, MemoryInv, CommandInv,
        Choices
  <2> QED
    BY <2>2, <2>3 DEF Modes
<1>2. ASSUME NEW t \in {"Bin", "Json", "Refresh"}, TakeTask(t) PROVE KeptInv'
  BY <1>2
  DEF TakeTask, KeptInv, TypeOK, TruncatedInv, FileInv, MemoryInv, CommandInv,
      WillSave
<1>3. CASE FinishConvert
  <2>1. /\ memory' \in Content /\ memory'.kind = "doc"
        /\ memory'.paths = memory.paths
    BY <1>3 DEF FinishConvert, NewChoice, KeptInv, TypeOK, Content, Choices
  <2> QED
    BY <1>3, <2>1
    DEF FinishConvert, KeptInv, TypeOK, TruncatedInv, FileInv, MemoryInv,
        CommandInv, WillSave, Choices
<1>4. CASE FinishRefresh
  <2>1. CASE mode = "browser"
    <3>1. ReadSettings(memory)
      BY <1>4, <2>1 DEF FinishRefresh
    <3>2. memory \in Content /\ memory.kind = "doc"
      BY DEF KeptInv, TypeOK
    <3>3. UNCHANGED <<file, userPaths, mode, gui, main, raced>> /\ task' = "none"
      BY <1>4 DEF FinishRefresh
    <3> QED
      BY <2>1, <3>1, <3>2, <3>3, ReadIsCurrent
      DEF KeptInv, TypeOK, TruncatedInv, FileInv, MemoryInv, CommandInv, WillSave
  <2>2. CASE mode = "command"
    BY <1>4, <2>2
    DEF FinishRefresh, KeptInv, TypeOK, TruncatedInv, FileInv, MemoryInv,
        CommandInv, WillSave
  <2> QED
    BY <2>1, <2>2 DEF KeptInv, TypeOK, Modes
<1>5. CASE CloseWindow
  BY <1>5
  DEF CloseWindow, KeptInv, TypeOK, TruncatedInv, FileInv, MemoryInv,
      CommandInv, WillSave
<1>6. CASE OpenForSave
  BY <1>6, BareTyped
  DEF OpenForSave, KeptInv, TypeOK, TruncatedInv, FileInv, MemoryInv,
      CommandInv, WillSave
<1>7. CASE WriteSettings
  <2>1. CASE main' = "saved"
    <3>1. file' \in Content /\ file'.paths = memory.paths
      BY <1>7, <2>1 DEF WriteSettings, KeptInv, TypeOK, Content
    <3>2. main = "truncated" /\ UNCHANGED <<userPaths, memory, conf, mode, gui,
                                            task, last, fault>>
          /\ raced' = FALSE
      BY <1>7, <2>1 DEF WriteSettings
    <3> QED
      BY <2>1, <3>1, <3>2
      DEF KeptInv, TypeOK, TruncatedInv, FileInv, MemoryInv, CommandInv, WillSave
  <2>2. CASE main' = "off"
    BY <1>0, <1>7, <2>2
    DEF WriteSettings, KeptInv, TypeOK, TruncatedInv, FileInv, MemoryInv,
        CommandInv, WillSave
  <2> QED
    BY <1>7, <2>1, <2>2 DEF WriteSettings
<1>8. CASE Join
  BY <1>0, <1>8
  DEF Join, KeptInv, TypeOK, TruncatedInv, FileInv, MemoryInv, CommandInv,
      WillSave
<1>9. CASE Kill
  BY <1>0, <1>9
  DEF Kill, KeptInv, TypeOK, TruncatedInv, FileInv, MemoryInv, CommandInv,
      WillSave
<1>10. CASE UserEdit
  <2>1. file' \in Content /\ (file'.kind # "cut" => file'.paths = userPaths')
    BY <1>10, UserMadeWhole DEF UserEdit
  <2> QED
    BY <1>10, <2>1
    DEF UserEdit, KeptInv, TypeOK, TruncatedInv, FileInv, MemoryInv, CommandInv,
        WillSave
<1>11. CASE UNCHANGED vars
  BY <1>11
  DEF vars, KeptInv, TypeOK, TruncatedInv, FileInv, MemoryInv, CommandInv,
      WillSave
<1> QED
  BY <1>1, <1>2, <1>3, <1>4, <1>5, <1>6, <1>7, <1>8, <1>9, <1>10, <1>11
  DEF Next

\* What every run of the program keeps of the file, conf_json and conf.
THEOREM KeptAlways == Spec => []KeptInv
<1> QED
  BY KeptInit, KeptNext, PTL DEF Spec

\* The program never changes the paths of setup.json on its own: LoadSetting,
\* the conversions and SaveSetting carry the user's last ones through any
\* number of runs (SettingsKept names the faults that void this).
THEOREM PathsAreKept == Spec => []SettingsKept
<1>1. KeptInv => SettingsKept
  BY DEF KeptInv, FileInv, SettingsKept
<1> QED
  BY <1>1, KeptAlways, PTL

\* In the browser mode conf has the paths the user wrote last.
THEOREM ConfFollowsUser == Spec => []ConfIsCurrent
<1>1. KeptInv => ConfIsCurrent
  BY DEF KeptInv, MemoryInv, WillSave, ConfIsCurrent
<1> QED
  BY <1>1, KeptAlways, PTL

\* The settings of every process are what TypeOK says (LoadSetting,
\* SaveSetting, the converters' note under "convert").
THEOREM SettingsTyped == Spec => []TypeOK
<1>1. KeptInv => TypeOK
  BY DEF KeptInv
<1> QED
  BY <1>1, KeptAlways, PTL

-----------------------------------------------------------------------------
\* A process that has converted since conf_json was read has the kind there.
ChoiceInv == main # "off" /\ last # "none" => memory.choice = last

LEMMA ChoiceNext == KeptInv /\ ChoiceInv /\ [Next]_vars => ChoiceInv'
<1> SUFFICES ASSUME KeptInv, ChoiceInv, [Next]_vars PROVE ChoiceInv'
  OBVIOUS
<1> USE DEF ChoiceInv
<1>1. ASSUME NEW m \in Modes, Start(m) PROVE ChoiceInv'
  BY <1>1 DEF Start, ReadSettings
<1>2. ASSUME NEW t \in {"Bin", "Json", "Refresh"}, TakeTask(t) PROVE ChoiceInv'
  BY <1>2 DEF TakeTask, memVars
<1>3. CASE FinishConvert
  BY <1>3 DEF FinishConvert, NewChoice, KeptInv, TypeOK, Content
<1>4. CASE FinishRefresh
  BY <1>4 DEF FinishRefresh, ReadSettings
<1>5. CASE CloseWindow
  BY <1>5 DEF CloseWindow, memVars
<1>6. CASE OpenForSave
  BY <1>6 DEF OpenForSave, memVars
<1>7. CASE WriteSettings
  BY <1>7 DEF WriteSettings, memVars
<1>8. CASE Join
  BY <1>8 DEF Join
<1>9. CASE Kill
  BY <1>9 DEF Kill
<1>10. CASE UserEdit
  BY <1>10 DEF UserEdit, memVars
<1>11. CASE UNCHANGED vars
  BY <1>11 DEF vars, memVars
<1> QED
  BY <1>1, <1>2, <1>3, <1>4, <1>5, <1>6, <1>7, <1>8, <1>9, <1>10, <1>11 DEF Next

\* The exit writes the kind of the last conversion, from which Main.vue's
\* getConf restores the choice.
THEOREM ChoiceIsRemembered == Spec => ChoiceRemembered
<1>1. Init => ChoiceInv
  BY DEF Init, ChoiceInv
<1>2. ChoiceInv /\ [Next]_vars =>
        [main = "truncated" /\ main' = "saved" /\ ~raced /\ last # "none" =>
           file'.choice = last]_vars
  <2> SUFFICES ASSUME ChoiceInv, [Next]_vars, main = "truncated", main' = "saved",
                      ~raced, last # "none"
               PROVE  file'.choice = last
    OBVIOUS
  <2>1. WriteSettings
    BY DEF Next, Start, TakeTask, FinishConvert, FinishRefresh, CloseWindow,
           OpenForSave, Join, Kill, UserEdit, vars
  <2>2. file' = memory
    BY <2>1 DEF WriteSettings
  <2> QED
    BY <2>2 DEF ChoiceInv
<1> QED
  BY <1>1, <1>2, ChoiceNext, KeptAlways, PTL DEF Spec, ChoiceRemembered
==============================================================================
