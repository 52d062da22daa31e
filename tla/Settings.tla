------------------------------ MODULE Settings -------------------------------
(***************************************************************************)
(* setup.json from one run of the program to the next: the user edits it,  *)
(* LoadSetting reads it at the start and at every Refresh, a conversion    *)
(* notes its kind under "convert", and ~Application writes it back, also   *)
(* when it was never read.  ~Application runs before the dispatcher is     *)
(* joined, so a task may still be running while the file is written.       *)
(*                                                                         *)
(* A settings document is abstracted to the members that have to be there  *)
(* (files, folders, xlsx_folder and output_folder, together "paths") and   *)
(* to "convert".  Credentials and the bucket go the way of "paths".        *)
(***************************************************************************)
EXTENDS Naturals

CONSTANTS
  Paths,    \* values the user gives the paths
  NoPaths   \* the paths are not there, or not all of them

ASSUME SettingsAssumption == NoPaths \notin Paths

Choices == {"none", "Bin", "Json"}
Modes   == {"browser", "command"}   \* argc = 1, argc > 1

\* What may be on disk.  "cut": a document the parser gets through up to some
\* point, with the members before it; "empty": truncated and not yet written.
Content == [kind : {"missing", "empty", "cut", "doc"},
            paths : Paths \cup {NoPaths}, choice : Choices]
Bare(k) == [kind |-> k, paths |-> NoPaths, choice |-> "none"]

\* conf_json as the process starts: null, which operator[] makes an object.
NullDoc == Bare("doc")

VARIABLES
  file,       \* setup.json
  userPaths,  \* the paths the user last wrote
  memory,     \* conf_json
  conf,       \* the paths in conf
  mode,       \* how the program was started
  gui,        \* it opened the window
  main,       \* where the main thread stands
  task,       \* what the dispatcher's worker runs
  raced,      \* a task changed conf_json while it was being written
  last,       \* the kind of the last conversion since conf_json was read
  fault       \* why file may differ from what the user wrote

memVars == <<memory, conf>>
vars == <<file, userPaths, memory, conf, mode, gui, main, task, raced, last, fault>>

TypeOK ==
  /\ file \in Content
  /\ userPaths \in Paths \cup {NoPaths}
  /\ memory \in {c \in Content : c.kind = "doc"}
  /\ conf \in Paths \cup {NoPaths}
  /\ mode \in Modes
  /\ gui \in BOOLEAN
  /\ main \in {"off", "loop", "quit", "truncated", "saved"}
  /\ task \in {"none", "Bin", "Json", "Refresh"}
  /\ raced \in BOOLEAN
  /\ last \in Choices
  /\ fault \in SUBSET {"unread", "overwritten", "failed", "command",
                       "killed", "raced"}

\* What a user may leave on disk: a document with the paths p, one cut short
\* before or after them, or none.
UserMade(p) ==
  {c \in Content : \/ c.kind = "doc" /\ c.paths = p
                   \/ c.kind = "cut" /\ c.paths \in {p, NoPaths}}
    \cup {c \in {Bare("missing")} : p = NoPaths}

Init ==
  /\ userPaths \in Paths \cup {NoPaths}
  /\ file \in UserMade(userPaths)
  /\ memory = NullDoc
  /\ conf = NoPaths
  /\ mode = "browser"
  /\ gui = FALSE
  /\ main = "off"
  /\ task = "none"
  /\ raced = FALSE
  /\ last = "none"
  /\ fault = {}

-----------------------------------------------------------------------------
(* Reading.                                                                *)

\* What the parser puts into conf_json before it throws.
Discarded(c) == c   \* mutant: the marker of a failed parse stays in conf_json
Prefix(c) == [c EXCEPT !.kind = "doc"]

\* conf_json after jfile >> conf_json: a file without a first value, like one
\* that cannot be opened, leaves it as it is.
NotReplaced(old) ==   \* mutant: members that are there are not replaced
  IF file.kind = "doc" /\ old.paths = NoPaths THEN file
  ELSE IF file.kind = "cut" THEN Prefix(file) ELSE old
Parsed(old) ==
  CASE file.kind = "doc" -> file
    [] file.kind = "cut" -> Prefix(file)
    [] OTHER -> old

\* The paths go to conf once the whole document has been read.
ConfKept == conf   \* mutant: conf keeps its members
ConfRead == IF file.kind = "doc" THEN file.paths ELSE NoPaths

\* LoadSetting's result.
LoadSucceeds == file.kind = "doc" /\ file.paths # NoPaths

\* LoadSetting without arguments, by a process whose conf_json is old.
ReadSettings(old) ==
  /\ memory' = Parsed(old)
  /\ conf' = ConfRead
  /\ last' = "none"
  /\ fault' = (fault \ {"unread"}) \cup (IF LoadSucceeds THEN {} ELSE {"failed"})

-----------------------------------------------------------------------------
(* One run of the program.                                                 *)

\* main: LoadSetting, which reads nothing when there are arguments, and Run
\* if it returned true; on Windows the window is opened in any case,
\* elsewhere main returns.
Start(m) ==
  /\ main = "off"
  /\ mode' = m
  /\ gui' \in BOOLEAN
  /\ main' = IF gui' THEN "loop" ELSE "quit"
  /\ \/ /\ m = "browser"
        /\ ReadSettings(NullDoc)
     \/ /\ m = "command"
        /\ memory' = NullDoc
        /\ conf' = NoPaths
        /\ last' = "none"
        /\ fault' = fault \cup {"command"}
  /\ UNCHANGED <<file, userPaths, task, raced>>

\* The worker takes a task, while the window is open or out of the queue of a
\* dispatcher not yet joined.  The page lists resources to convert only after
\* the settings have been loaded.  GetConf, GetResourceNameAll and Upload only
\* read the settings.
TakeTask(t) ==
  /\ gui
  /\ main # "off"
  /\ t = "Refresh" \/ conf # NoPaths
  /\ task = "none"
  /\ task' = t
  /\ UNCHANGED <<file, userPaths, memVars, mode, gui, main, raced, last, fault>>

\* conf_json["convert"] = "Bin" or "Json", the last step of either converter.
ChoiceDropped(k) == memory.choice   \* mutant: == for =
NewChoice(k) == k

FinishConvert ==
  /\ task \in {"Bin", "Json"}
  /\ memory' = [memory EXCEPT !.choice = NewChoice(task)]
  /\ last' = task
  /\ raced' = (raced \/ main = "truncated")
  /\ task' = "none"
  /\ UNCHANGED <<file, userPaths, conf, mode, gui, main, fault>>

\* Refresh: conf = Settings() and LoadSetting with the arguments of main.
FinishRefresh ==
  /\ task = "Refresh"
  /\ task' = "none"
  /\ \/ /\ mode = "browser"
        /\ ReadSettings(memory)
     \/ /\ mode = "command"
        /\ conf' = NoPaths
        /\ UNCHANGED <<memory, last, fault>>
  /\ UNCHANGED <<file, userPaths, mode, gui, main, raced>>

CloseWindow ==
  /\ main = "loop"
  /\ main' = "quit"
  /\ UNCHANGED <<file, userPaths, memVars, mode, gui, task, raced, last, fault>>

\* SaveSetting, std::ofstream jfile(path): truncates, unless it cannot open
\* the file.
OpenForSave ==
  /\ main = "quit"
  /\ \/ /\ file' = Bare("empty")
        /\ main' = "truncated"
     \/ /\ main' = "saved"
        /\ UNCHANGED file
  /\ fault' = IF "unread" \in fault THEN fault \cup {"overwritten"} ELSE fault
  /\ UNCHANGED <<userPaths, memVars, mode, gui, task, raced, last>>

\* jfile << conf_json.  The write of a value another thread assigns meanwhile
\* shows the value before or after, or ends the process.
WriteSettings ==
  /\ main = "truncated"
  /\ \/ /\ file' = memory
        /\ main' = "saved"
        /\ UNCHANGED <<memVars, task, fault>>
     \/ /\ raced
        /\ \E c \in Choices : file' = [memory EXCEPT !.choice = c]
        /\ main' = "saved"
        /\ UNCHANGED <<memVars, task, fault>>
     \/ /\ raced
        /\ main' = "off"
        /\ memory' = NullDoc
        /\ conf' = NoPaths
        /\ task' = "none"
        /\ fault' = fault \cup {"raced"}
        /\ UNCHANGED file
  /\ raced' = FALSE
  /\ UNCHANGED <<userPaths, mode, gui, last>>

\* The dispatcher's destructor joins its worker and the process is over.
Join ==
  /\ main = "saved"
  /\ task = "none"
  /\ main' = "off"
  /\ memory' = NullDoc
  /\ conf' = NoPaths
  /\ UNCHANGED <<file, userPaths, mode, gui, task, raced, last, fault>>

-----------------------------------------------------------------------------
(* What happens to the program.                                            *)

\* The process is killed: the file stays as it is, empty if it was about to
\* be written.
Kill ==
  /\ main # "off"
  /\ main' = "off"
  /\ memory' = NullDoc
  /\ conf' = NoPaths
  /\ task' = "none"
  /\ raced' = FALSE
  /\ fault' = IF main = "truncated" THEN fault \cup {"killed"} ELSE fault
  /\ UNCHANGED <<file, userPaths, mode, gui, last>>

\* The user saves the file in an editor.
UserEdit ==
  /\ main # "truncated"
  /\ userPaths' \in Paths \cup {NoPaths}
  /\ file' \in UserMade(userPaths')
  /\ fault' = IF main \in {"loop", "quit"} THEN {"unread"} ELSE {}
  /\ UNCHANGED <<memVars, mode, gui, main, task, raced, last>>

Next ==
  \/ \E m \in Modes : Start(m)
  \/ \E t \in {"Bin", "Json", "Refresh"} : TakeTask(t)
  \/ FinishConvert
  \/ FinishRefresh
  \/ CloseWindow
  \/ OpenForSave
  \/ WriteSettings
  \/ Join
  \/ Kill
  \/ UserEdit

Spec == Init /\ [][Next]_vars
-----------------------------------------------------------------------------
(* Properties.                                                             *)

\* Whatever number of runs, conversions and Refreshes, the paths on disk are
\* the ones the user wrote, unless one of five things happened since: the
\* edit came while a process ran that has not read it, a process could not
\* read the file, one was started with arguments, or one was killed or
\* crashed between truncating and writing.
SettingsKept ==
  fault = {} /\ main # "truncated" /\ file.kind # "cut" =>
    file.paths = userPaths

\* The program works with the paths the user wrote last, before the start or
\* before a Refresh.
ConfIsCurrent ==
  main = "loop" /\ mode = "browser" /\ fault = {} => conf = userPaths

\* A conversion's kind is in the file the exit writes: Main.vue's getConf
\* restores the choice from it.  A Refresh after the conversion, or a
\* conversion that ends during the write, voids this.
ChoiceRemembered ==
  [][main = "truncated" /\ main' = "saved" /\ ~raced /\ last # "none" =>
       file'.choice = last]_vars

\* README.md:5 "CommandMode: Generate Resource Structure defined by protobuf":
\* a run with arguments generates structures, and the settings it has not
\* read are after it what they were.
CommandModeKeepsSettings ==
  main = "saved" /\ fault = {"command"} /\ file.kind # "cut" =>
    file.paths = userPaths
==============================================================================
