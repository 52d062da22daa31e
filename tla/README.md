# A verification project for AResConvert

AResConvert turns game data kept in `.xlsx` sheets into binary or JSON files. A
message in a `.proto` file declares a resource: its columns, its sheet, its key
and its output file. In *browser mode* a WebView2 window shows the resources and
the user converts and uploads them; in *command mode* the same program is a
protobuf plug-in that writes C++ structs.

This directory holds TLA+ modules for the parts whose behaviour depends on order,
on failure or on what was left over from before, TLC configurations that check
them on small instances, and TLAPS proofs for the results that should hold for
every instance. `PROJECT.json` lists runs, mutants, the source lines behind every
definition, findings, hazards and theorems.

## The system

| Component | State | Operations | Talks to |
|---|---|---|---|
| Page (`Client/src/components/Main.vue`) | `nodes`, `logs`, `status`, `progress`, `convertMethod` | `getConf`, `clickConvert`, `convertOne` (a chain: the next call is made when the last is answered), `uploadToCloudOne`, `refresh` | bound functions, through promises |
| RPC bridge (`webview.h`) | `window._rpc` with `nextSeq`; the thread's message queue | `bind_js`, `on_message`, `resolve`, `dispatch`, `run`, `wndproc`, `terminate` | page and `HandlerWrapper` |
| Handler tasks (`application.h`, `HandlerWrapper`) | `m_log_stream`, rdbufs of `cout`/`cerr` | parse, queue; redirect, run, restore, collect log, resolve | dispatcher, handlers |
| Task dispatcher (`task_dispatcher.h`, absent from the repository) | a queue, one worker | `dispatch`, destructor | handler tasks |
| Converter (`application.cpp`) | `plugin_arguments`, output files, open `FILE*` | `ConvertBin`, `ConvertJson`, `SerializeToBin`, `SerializeToJson`, `Refresh`, `GetResourceNameAll` | generator, disk |
| Generator (`aresconvert_generator.*`) | `m_info`, `m_table_meta`, `m_message_meta`, `m_enum_meta` | `Generate` with `resource`, `convert:`, `convert_json:`, `struct` | protobuf's `CommandLineInterface` |
| Settings (`application.cpp`, `setup.json`) | `conf_json`, `conf`, the file | `LoadSetting`, `SaveSetting`, `GetConf` | disk, `~Application` |
| Upload (`application.cpp`) | whether the OSS library is initialised | `Upload` | OSS SDK |
| Meta data, MD5 (`AMeta.*`, `md5.*`) | a digest's state and buffer | serialisation, `update`, `final` | converter, generator, reader |
| Helpers (`helpers.*`) | – | `GetCellCol`, `ReplaceString`, `stringSplit` | log lines, templates |
| Bin reader (`UnitTest/main.cpp`) | the header it was compiled with | `LoadFile` | output files |

Hard behaviours: three threads of control (page, GUI/main thread, dispatcher's
worker) joined by three queues, the last of which is not reliable; process-wide streams
swapped by a task; a task that throws; a page reload, a window moved and a window closed
at any moment; a global object saving
its state while the worker may still change it; tables kept from one request to
the next while the user edits the files they came from; functions with a dozen
returns after `fopen`; a settings file that many runs read and write.

What makes each component correct:

- bridge and tasks: an answer reaches the promise of its own call, in order, with that
  call's log; a call that is not answered has a cause; the process can always end.
- converter and generator: a "success" leaves a file that matches the message on
  disk; what one conversion leaves behind does not show in another.
- settings: nothing but the user changes the paths; the last choice is kept.
- page: a chain converts what was clicked, in the kind that was chosen; when nothing
  is under way the page shows what the application has.
- layout: the record, the meta data, the JSON writer and the generated struct agree
  on where a column is; an enum value is the one the header's text means.
- bin file and reader: what a reader accepts has its columns in its members, and a file
  made from the reader's own messages is accepted; a cell has one value in both formats.
- meta data and digest: bytes are read back as they were written; a digest does not depend
  on how its input was cut.

## Modules

| Module | Models | Proofs |
|---|---|---|
| `TaskBridge` | bridge, tasks, dispatcher, upload's control flow, shutdown | `TaskBridgeProofs` |
| `CallOrder` | what the bridge promises its page: calls served one by one, in order | `TaskBridgeProofs`: `TaskBridge` implements it |
| `Client` | the page, over `CallOrder` | `ClientProofs` |
| `Converter` | conversion, generator's tables, files on disk | `ConverterProofs` |
| `Settings` | `setup.json` over any number of runs | `SettingsProofs` |
| `Layout` | look-up of enum values, record, meta data, JSON columns and struct of a message | `LayoutProofs` |
| `Cells` | what a cell becomes in a record and in the JSON file | `BinFileProofs` |
| `MetaCodec` | the meta data of a `.proto` file as bytes | `BytesProofs` |
| `Digest` | MD5's buffer, blocks and padding | `BytesProofs` |
| `BinFile` | header, conversion and reader of one binary file, over `Layout`, `Cells`, `MetaCodec`, `Digest` | `BinFileProofs` |
| `Recursion` | no code: what recursive functions and folds give | itself |
| `MCTaskBridge`, `MCClient`, `MCConverter`, `MCSettings`, `MCLayout`, `MCBinFile` | constants for TLC | – |

Operators commented `mutant:` stand before a definition and are used by nothing:
they are that definition with a plausible slip, and `PROJECT.json` says which
property has to notice it.

### TaskBridge

| Code | Model |
|---|---|
| `window[name]()` of `bind_js` | `MakeCall`: a promise under `issued + 1`, a message in `inbox` |
| a reload runs `init`'s scripts again | `Reload`: `issued` is 0 again, messages, tasks and answers stay |
| `on_message`, `HandlerWrapper`'s handler | `OnMessage`: from `inbox` to `tasks` |
| the queued task | `TakeTask`, `Redirect`, `RunHandler`, `Restore`, `CollectLog` or `CollectThrows`, `Settle` of a worker |
| `resolve`, `dispatch`, `run` | `Settle` appends to `posted`, `Deliver` evaluates the script |
| `DefWindowProcW` while the user holds the title bar or a border | `MoveWindow`; in between `LoseAnswer` for every message of the thread |
| `PostThreadMessage` whose result nobody looks at | `PostFails` |
| `result.dump()` on a line that is not UTF-8 | `DumpThrows`; `garbled` has the calls with such a line |
| `WM_DESTROY`, `~Application`, members destroyed in reverse order | `CloseWindow`, `SaveSettings`, `DestroyMember` (one at a time, the dispatcher's with its join) |

A handler is one step that yields a kind of result and some lines: `null` (the
converters, which compare `result["code"]` where they mean to assign), `zero`,
`failure`, or `number` (`Upload` after a failed `PutObject`). A log line is
abstracted to the call that wrote it.

The way back is not reliable, and the model has the three ways to lose an answer. `dispatch`
posts to the thread and not to a window (`webview.h:1421`), and only `run`'s own loop
(`webview.h:1403`) knows what to do with such a message. While the user moves or
sizes the window, `DefWindowProcW` (`webview.h:1352`) runs a loop of Windows' instead, which
dispatches the message to no window: the answer is gone, its promise stays pending and a chain of
conversions stops. `PostThreadMessage` may fail besides. Before that, `result.dump()`
(`application.h:84`) throws when a collected line is not UTF-8, a path or a message of
the system in the machine's code page. `lost` is a history variable with the numbers of the
current page's calls whose answer went; `carried` has the numbers of the calls that were under way
when the page was loaded, whose answers find a promise of the new page under their number.
Calls on their way to the application are safe: the control delivers them through a
window of its own, which every loop serves.

`task_dispatcher.h` is not in the repository:
it is taken to be a FIFO with the number of workers it is given, whose destructor
joins. Whether that destructor drains the queue, and whether an exception in a
task is swallowed or ends the process, is unknown; the model allows both.

Fairness (`FairSpec`): a message loop takes every message, `run`'s to deliver it or that of a
window being moved to lose it (`WF(Deliver \/ LoseAnswer)`, so nothing says that an
answer arrives), a worker thread with a
task goes on, `exit()` runs to its end. There is none on the user: no call, reload
or close has to happen, and a window once taken need not be let go. This assumes that handlers return; `PutObject` has the
SDK's own timeout.

### CallOrder and Client

`CallOrder` is two queues: calls to do (`Issue`), answers to hand over (`Answer`, or
`Fail` for a call that ends without one, then `Hand`, or `Lose` for an answer that never
arrives), until `Close`. `TaskBridge`
reads its own `inbox`, `tasks` and `job` as the first and `posted` as the second
(`Todo`, `Done`), and implements it.

`Client` stands on these two queues instead of the bridge's three threads, so it can
afford the page's own interleavings. Between a call and its answer the user may do
anything.

| Code | Model |
|---|---|
| `mounted`, `getConf` | `GetConf` and its continuations `ThenGetConf`, `ThenGetResourceNameAll` |
| `clickConvert`, `convertOne` | `ClickConvert`, `ThenConvert`: the next call is made when the last is answered |
| `uploadToCloud`, `uploadToCloudOne` | `ClickUpload`, `ThenUpload` |
| `refresh` | `ClickRefresh`, `ThenRefresh` |
| check boxes, selection | `Check`, `Select` |
| an answer that does not come | `LoseAnswer`, and the second alternative of `Served`: no callback is called |
| `Application`'s functions, as far as the page sees them | `RunGetConf`, `RunConvert`, ... : the list it read, the kind it remembers |

The page divides by `nodes.length`, which is 0 after a refresh: `Infinity` stands for
the result, as a number no sum of the others reaches. `CheckedKeys` is the list
`getCheckedKeys` gives, the checked nodes in the order of `nodes`. A history variable `overlap` says that a click found another one under
way, `asked` what the last click wanted, `cut` that since then an answer did not
come, `unlisted` that one did not come which the page's list depends on. Fairness
(`FairSpec`): the application serves a waiting call and a message loop takes a waiting answer, to
hand it over or to lose it (`WF(Then \/ LoseAnswer)`), as `TaskBridge`'s worker and loops do;
the user owes nothing.

### Layout

The functions are pure, so the state is their argument: the `.proto` files, to which
`AddField` and `Import` add. Each function follows its code: `FindEnumInFile`, `GetEnumValue`,
`GetTypeSize` (and `MessageSize`), `Flatten`, `CreateField`, `MessageMeta` for the loop that
`CreateMessageMetaFromDescriptor` and `CollectMessageMetaFromDescriptor` share,
`JsonColumns` for the names `WriteJsonToFile` looks for, `StructLeaves` for the members that
`GenerateInfo`, `GetStructTypeField` and the template give the struct. Recursion over
messages is a recursive function. `CppValue` is the reference for look-ups: what the
text of a size means to the C++ compiler in the generated namespace. Types have the widths
1 (bool), 4 (int32, enum) and 8 (int64, double); unsigned and float have no width of their
own. Negative enum values, groups, maps and messages within themselves are left out.

The exceptions in the properties are real: without any one of them TLC finds a
counterexample. They are a count
without `repeated` (`Labelled`), bytes, which become one `uint8_t` (`Compiles`), a count in an
imported message, which is looked up in the importing file (`CountsTravel`), a repeated
field inside a member message, which `GetTypeSize` counts once (`MetaMatchesRecord`), two
fields that flatten to one name (`NoClash`), an empty message (`SameSheet`). Two more show in
the look-up without breaking a property: any prefix that is not the file's own package
finds the file's values (`RES::OPTION_COUNT` of `table.proto`, whose package is `Res`), while
the right prefix finds none.

### Converter

A request is handled by the one worker, so its steps do not interleave with other
requests' (`TaskBridge` is why). It does interleave with the user, who edits files at any
time: a conversion is therefore two steps, `cli.Run` (`RunConvert`, `RunConvertJson`)
and the serialisation (`SerializeToBin`, `SerializeToJson`, `SheetMissing`), with edits
in between. A message is the set of its columns and of those `Flatten` gets through
before it fails; a sheet is its header, its number of rows and one cell no writer
accepts. `m_table_meta` is one table for all messages; `m_message_meta` and
`m_enum_meta` keep their first definition (`emplace`); all three live until `Refresh`
makes a new generator. An output file records what was written into it, and a
`FILE*` a failing branch does not close is kept with its unwritten bytes until
`ExitProcess` flushes it.

### BinFile, Cells, MetaCodec and Digest

`Converter` takes a record for the set of its columns. `BinFile` looks into it: the steps
of one conversion of one resource, at any of which it may fail or be killed, the header that
command mode made from the messages at some other time, and the reader compiled with it.

| Code | Model |
|---|---|
| the author edits a message | `EditProto` |
| `GenerateMeta`, the structs, the C++ compiler | `GenerateHeader`: `compiled` is the messages by then |
| `cli.Run`, `SerializeToBin` up to `fopen` | `OpenOutput`, where Flatten gets through: messages, header row and rows are chosen |
| missing or repeated columns; `fwrite` of the head; a `Write...Cell` that fails; the records; `fclose` | `RefuseColumns`, `WriteHead`, `CellFails`, `WriteRecords`, `Close` |
| the end of the process | `Kill`, with what had reached the disk (`seen`) |
| `LoadFile`: digest, size, `fread`, its answer | `Fits`, `Loaded`, `Answer`, functions of `file` and `compiled` |

The reader is a function of the state, so it may run in every state, on what a killed
conversion left as well. The record buffer is `new char[]` and not cleared, so a record is two
things: for each column where its value came from (`from`), a `cell`, the `heap` where the
row ended early, or `damage` where a row longer than the header indexed past `columns[]`; and
the bytes that are what was on the heap (`HeapBytes`), those no cell writes. A text is written by `strcpy`
up to its terminator (`Filled`), so the bytes behind it are among them in every row, and so are
the bytes between the columns where two fields flatten to one name (the size is added
twice, the entry made once). A struct's member gets a column, if one has its very bytes,
else heap bytes, if it has no others, else a mixture (`MemberOf`). `MembersGetTheirColumns` compares
that with the member; `HeapIsBehindTexts` says byte by byte where a full row has heap in it. `TakenHasSameMeta` is about the guard in front of it: a file that is
taken was made from a message described as the header describes it. Messages that Flatten
does not get through are `Converter`'s. Names are strings that are not empty, of which
`BinFileAssumption` has finitely many messages and enums. It also has no message called as a type
of C++ or an enum is (`int32_t`, `Kind`): the meta data would not tell a field of the one from a field of the other.

`Cells` has each conversion of a cell twice, as the code has: `Written` for the
`Write...Cell` functions, `Json` for `GetPrimitiveValForJson` and what it calls. Numbers
are cast at their width (`Cast`), with `ByteBits` bits to a byte.

`MetaCodec` is `AMeta.cpp` byte by byte: the sizes each level computes, the writers and
the constructors from a buffer, which throw when a size is not the one they compute.
`Digest` is `MD5` without its round function: a state is the sequence of blocks it was
given, so two digests are equal only for equal blocks. `ReadersMD5` is the reader's way to the
digest (header, buffer, `AFileMeta`, `GetMD5`), `ConvertMD5` the converter's.

The conditions in the properties are real here too: without any one of them TLC finds a
counterexample. In `MembersGetTheirColumns` they are the fields of member messages, which the
digest does not cover, fields that are not in the order of their names (finding 2), a
count without `repeated` in the header, an array of one element on either side (its column is `hp1`, that of
a plain field `hp`, and their meta data are the same), names that collide in the file, and rows longer than the header; in
`HeapIsBehindTexts`, names that collide and rows that end early; in `GoodFileIsTaken`, meta data that fail, as the digest stays empty and the conversion goes
on; in `SameInBothFormats`, a text too long for its record and a double, which the JSON
writer reads by `get<float>` from a cell it wants to be an integer, and so never accepts; in
`DigestAgrees`, a digest asked for in between where the padding takes a second block.

### Settings

One run is `Start` (`LoadSetting` and `Run`), tasks, `CloseWindow`, `OpenForSave`
(which truncates), `WriteSettings` and `Join`. Runs follow each other without bound.
With arguments `LoadSetting` returns before it reads; the exit saves all the same. A
task may end between truncation and write: the data race on `conf_json` shows the
choice before, after or ends the process. `fault` is a history variable that names why
the file may no longer have the user's paths: an edit the process has not read
(`unread`, then `overwritten`), a file that could not be loaded (`failed`), a run with
arguments (`command`), an end between truncation and write (`killed`, `raced`). An edit
starts it afresh. Reading is one step: a `Refresh` whose read spans the truncation
of the file is not modelled.

## Runs

| Run | Bounds | States | Question |
|---|---|---|---|
| `bridge` | 2 calls per page, 1 reload, 1 line | 351 892 | Log attribution, no line lost or shown twice, streams restored between tasks, a promise settled by the answer to its own call, a pending one has its call under way, its task threw or its answer was lost, no task runs while a member it uses is gone; implements `CallOrder`; with `FairSpec`, every call is answered up to throws and losses, and the exit completes |
| `bridge_upload` | 1 call | – | *violated*: a failed `PutObject` leaves its promise pending |
| `client` | 2 clicks, 1 edit | 479 113 | A chain keeps the kind it was clicked with, the bar is a percentage and full exactly when a chain is done, the idle page agrees with the application, every chain ends: each up to what a lost answer leaves undone |
| `converter` | 2 resources, 3 messages, 5 sheets, 2 enums, 2 edits | 2 271 228 | A bin has its own message's columns; without an edit since `Refresh` no stale table is used; a listed resource can be converted; the exit damages only resources whose conversion failed |
| `converter_success` | 1 resource in the second of two files | – | *violated*: "success" with records of no columns |
| `converter_exit` | 1 resource, 1 edit | – | *violated*: a leaked stream overwrites `total_size` of a later, good file |
| `settings` | 2 values of the paths, unbounded runs and edits | 19 335 | Paths kept, `conf` current, choice remembered |
| `settings_command` | the same | – | *violated*: a run with arguments replaces `setup.json` by `null` |
| `layout` | 2 messages of 1 and 2 fields, 3 names, 12 shapes, 2 files | 103 354 | Record, meta data, JSON columns and struct agree up to the named exceptions; look-ups find the value that is meant |
| `layout_reader` | the same | – | *violated*: members are sorted, columns are not |
| `binfile` | 2 and 9 drafts of two messages, 1 edit, 0 or 2 rows of 6 kinds, 5 header rows, bytes of 2 bits, blocks of 16 bytes | 148 462 | A reader compiled at any time takes only files of the same meta data and gets columns in their members; heap bytes of a full row are behind its texts; its own messages' file is read in full; both formats agree; meta data and digests survive the trip |
| `binfile_answer` | the same | – | *violated*: a complete file is answered with `false` |

Why the bounds are enough. Bridge: with two pages of two calls, four calls share the
three queues and the worker; a failed upload followed by another call needs two, an old and a
new answer for the same number need one call per page. The calls are
of the two kinds of function the properties tell apart (`KindsOfMethod`): `Convert`, whose result
has no code, and `Upload`, which can succeed, fail and return a number. `GetConf`, which logs nothing, is the former
with fewer lines, and lines travel together, so one stands for several. With `GetConf` as a third the
invariants and `ServesInOrder` hold as well (668 731 states). Converter: a stale table needs
a conversion, an edit and a second conversion; broken settings, a failed
`Refresh` and an old page need one edit; a sheet that goes bad and is mended needs two. Two
resources are all that one shared table can confuse. The run starts with good sheets and one of
the two enums (`FirstInit`), edits lead to the others; the proofs start from `Init`. Page: two clicks are what overlaps, a chain and
a refresh or two chains, and any answer may be lost. Layout: a mismatch between two algorithms needs one field behind another,
one nesting, one array, two names that collide, one number that differs between files. Bin
file: a stale header needs one edit between command mode and conversion; bytes of 2 bits make
an int32 a number of 8 bits, which 300 overflows; the meta data fill several blocks of 16 and
the cuts of `DigestAgrees` fall on every place of one; two records differ when only the first
has reached the disk. Settings needs no bound: its
state is finite, two values tell an old one from the user's.

`TypeOK` is each module's type invariant. `bridge`, `client`, `converter` and `settings` check
deadlock as well: `Ended`, `Closed` and `Terminated` are the only states without a further
step. In `layout` and `binfile` the author simply has nothing left to write.

## Findings

1. **A failed upload is never answered** (`application.cpp:98`, `bridge_upload`). `return -1`
   becomes a JSON number; `result["log"]` on it throws in the worker. The promise
   stays pending, the lines show up in the next call's answer, the SDK stays
   initialised. `OrphansHaveCause` and `IdleIsClean` have it among their exceptions.
2. **Records do not fit their struct** (`aresconvert_generator.cpp:426`, `layout_reader`). The
   members of a generated struct are in the order of their names (the fields go
   through a `json` object), the columns of a record in the order of declaration. Sizes
   agree, so the reader accepts the file. `SortedRecordsAreStructs` holds: it takes messages
   declared in the order of their names, and `table.proto` has not one.
3. **Success without columns** (`aresconvert_generator.cpp:281`, `converter_success`). With two
   `files` the list is the last file's, the conversion needs the first file.
   The same property also falls to a message that stopped being
   found or that `Flatten` cannot finish (`cli.Run`'s result is ignored); `GeneratedBinIsCurrent`
   holds because it asks that the generator got through.
4. **A failed conversion damages a later file** (`application.cpp:719`, `converter_exit`).
5. **Command mode erases `setup.json`** (`application.cpp:771`, `settings_command`).
6. **`LoadFile` does not tell whether it loaded** (`UnitTest/main.cpp:64`, `binfile_answer`).
   `fread`'s result counts records and is compared with bytes; `return -1` is `true`.

## Proofs

`TaskBridgeProofs` (for any number of calls, reloads and lines, from `BridgeAssumption`):

- `TypeCorrect`: `TypeOK` with `Busy`, a worker that is not idle has a call. `TypeOK` alone is
  not inductive, as `job` may be `NoCall`.
- `StreamsFollowWorker`: `StreamInv`, four parts. `SinkInv`: the streams are
  redirected exactly between `Redirect` and `Restore`, and what was saved is the console.
  `LogInv`: the log has lines of the running task, while it has not collected them, and of
  tasks that threw. `AnswerInv`: so do answers. `SdkInv`: the library is up only
  because of an upload that failed or is about to throw. They are needed together because
  an answer's lines come through `lines` from the log, whose lines come from a handler
  that found the streams redirected. All rest on `OneWorker`: with two workers
  `LogAttribution` and `NoLineLost` fail (a mutant).
- Corollaries `LogsAreAttributed`, `LinesReachTheLog`, `CleanWhenIdle` for the checked
  properties `LogAttribution`, `NoLineLost`, `IdleIsClean`.

`SettingsProofs` (for any set of paths, from `SettingsAssumption`): `KeptAlways` is the
inductive `KeptInv`. The file has the user's paths while no fault but an unread edit
stands (`FileInv`), a process without fault holds them in `conf_json` and `conf`
(`MemoryInv`), an emptied file is never taken for the user's (`TruncatedInv`) and a process
with arguments always has a fault (`CommandInv`). `PathsAreKept` and `ConfFollowsUser`
are the checked properties `SettingsKept` and `ConfIsCurrent`.

The refinement, in the same module: `ServedInOrder`, `TaskBridge`
implements `CallOrder`. The mapped queues change as `CallOrder` allows or not at all,
step by step; the one fact that needs the invariant is that the head of `Todo` is the call
of the worker that settles, which `OneWorker` and the type invariant give. It
has `MembersOutliveTasks` besides (`TasksHaveMembers`): the dispatcher is the last member of
`Application`, so its join comes before anything a task uses is destroyed.

Its last part follows a call, which passes the queues as one
piece. `IssuedInv`: a promise waits only under a number its page has issued.
`WaitingInv`: while the window is open a pending promise has its call
in `inbox`, `tasks`, at the worker or in `posted`, or the call's task threw, or its answer was lost
(`OrphansAlwaysHaveCause`, for `OrphansHaveCause`): what `StaysInFlight` adds step by step is that no
reload and no other call's answer takes a promise its answer. `CarriedInv`: whatever is under way was called by
this page or has a number in `carried` (`InFlightComes`: only the page adds to it), and so does what settled a
promise (`AnswersAlwaysMatch`, for `AnswersMatch`). `OnceInv`: no call is in two places, and none
comes back after its answer was made; it is what lets `LinesInv` say that a line
is in the log, with the worker or in one answer (`LinesAreDeliveredOnce`). `BridgeTyped` is `TypeOK`.

`ConverterProofs` (for any resources, schemas, sheets and edits, from `ConverterAssumption` and the
general `Init`, not the run's `FirstInit`): `TablesFollowFiles` is the inductive
`ConverterInv`. `TableInv`: between `cli.Run` and the serialisation `m_table_meta` is the
message's. `CacheInv`: without an edit since `Refresh` whatever `m_message_meta` and
`m_enum_meta` have is what the files say. `JsonTableInv`: a conversion that got through its
message finds them there. `LeakInv`: only a failed conversion leaves its `FILE*` open. `RunInv`:
the process ends between requests. From them `BinIsItsMessages` (`GeneratedBinIsCurrent`),
`NoStaleTables` (`UneditedIsCurrent`), `ArgumentsAreThere` (`ArgumentsForListed`),
`ExitSparesGoodFiles` (`ExitDamageNeedsFailure`) and `ConverterTyped` (`TypeOK`). The properties alone are
not inductive: nothing in them says what the tables hold while a conversion is under way.

`ClientProofs` (for any lists and any number of clicks and edits, from `ClientAssumption`):
the two queues of `CallOrder` are read as one sequence `Work`, the calls of the waiting answers
followed by the calls to do. Serving a call leaves `Work` as it is, handing its answer over
drops the first, a click or the next link of a chain appends. `StageInv` is the induction: until an answer is lost or
clicks overlap, `Work` has besides uploads nothing (`Idle`), one conversion (`Chain`), one
`Refresh` (`Refreshing`), `GetConf` before `GetResourceNameAll` (`Loading`) or the latter alone
(`Listing`), each with what the page shows meanwhile. A lost answer cuts it short: no conversion
is left in `Work` and the bar stays below 100 (`Halted`), until the next click on convert or refresh
begins anew; losing an answer is handing it over to nobody (`LoseIsHand`), which is why one set of lemmas about
`Work` does for both. `ListInv` needs no such condition but that no answer the list depends on
was lost: the page has the application's list, or a `Refresh` or a question for the list is still to
be answered with it. `LinkInv` is the part of the type invariant that bounds a chain. For
the bar the proof has `k * (100 \div n) <= 100`, and for `clickConvert` that `CheckedKeys` lists the
checked nodes without repetition. Theorems: `ClientTyped`, `ChainsKeepTheirKind`,
`FullBarMeansDone`, `PageAgreesWhenIdle`.

`SettingsProofs` has besides `SettingsTyped` and `ChoiceIsRemembered` (`ChoiceRemembered`), the latter from
`ChoiceInv`: a process that has converted since it read `conf_json` has the kind there.

`Recursion` has no code. TLA+ defines a recursive function as the `CHOOSE` of one that equals
its body, and a fold of the community modules by such a function, so nothing is known of
them before one is shown to exist. `Defined` shows it for a function over things with
a level, whose body looks below the level only; `FoldLeftIs` says that a fold is what its steps
make of it. `LevelSet` is the induction that goes with them: what follows for a thing from
what is below it holds everywhere. All of them have the hypothesis `Induction`, induction over `Nat`
for sets of numbers, and the step is the module's constant. A proof instantiates the module with the
operator it is about, `LayoutProofs` once for each recursion of `Layout`, `BytesProofs` twice, for sums of
sizes and for `Starts`. Both prove the hypothesis, and `LevelSet` without it, themselves (`NatSet`, from the well-founded
order of `Nat`): in `Recursion` the library's theorems would come along with every instance.

`LayoutProofs` (for any files, enums, messages, names and shapes, from `LayoutAssumption`, which has
the numbers of enums not negative) proves every property of `layout`. `MessagesAreLegal` is the inductive
`Legal`. `Typed`: fields are names with shapes. `Nested`: a member message is of a lower
level, which is what makes the recursions of `MessageSize`, `Flatten`, `Reach`, `StructLeaves` and
`JsonColumns` end. A second invariant, `NamesAreDistinct`, says that no message has two fields of one name.

- Flatten's columns have a size when it gets through. `TableMeta`
  is the columns' prefix sums: the k-th column begins where the sizes before it end, and the first
  column of a name has the entry. Then every byte is inside exactly one column of the sequence, and
  inside one of the table unless a name came twice: `GapsAreClashesAlways`
  (`GapsAreClashes`), `LayoutTypeOK` (`TypeOK`).
- `LookupAgreesAlways` (`LookupAgrees`) goes through the places
  `GetEnumValue` and the C++ compiler look at, for a name with the file's own package, with
  another's and with none.
- `RecordFitsStructAlways` (`RecordFitsStruct`). `Members` lists the fields by the rank of their
  names, so with distinct names it is a permutation of the fields (`MembersAre`).
  A sum does not depend on the order of its terms (`AddsPermuted`), a size and a count are the
  same number for converter and compiler (`LookupAgrees`), and by `LevelSet` a message's columns and
  its struct's members have the same size when those of the messages below do.
- `SortedRecordsAlways` (`SortedRecordsAreStructs`). When all messages below are in the
  order of their names, the columns without their types are the struct's members, in the same order, not only of
  the same size. A column's offset is then a sum over the same prefix on both sides.
- `SameSheetAlways` (`SameSheet`). At every level `JsonColumns` gets through
  exactly when `Flatten` does, and then the names are the same. It needs that the messages with columns are
  those of a size other than 0, in `MessageSize` as well, as the JSON writer asks `GetTypeSize`.
- `MetaMatchesAlways` (`MetaMatchesRecord`). The meta data add `count * size` field by field, the
  table adds column by column. In a message whose member messages repeat nothing
  `MessageSize` is the size of the columns, so both sums agree at the first column of each field,
  and that column has its name alone (`NoClash`).

`BytesProofs` has two parts, both for what `Digest` and `MetaCodec` compute. The digest (for any
block size, from `DigestAssumption`): `Absorbed` is what an `update` keeps, q whole blocks in the
state and the r bytes behind them at the front of the buffer, whatever else the buffer has.
`UpdateTakesAll`: it takes all of its input in whatever piece it comes. `MD5IsReference`: the digest
is that of the padded input cut into blocks. `AnyCuts`: `CutsAgree`, which `DigestAgrees` asks of
the meta data's bytes, holds for every sequence of bytes, with its exception for a digest asked
for in between. `DigestTells`: different bytes have different blocks. The length at the end is not
needed for that: of two paddings of the same blocks the one that begins later has its 128 where
the other has a 0.

The codec (for any names and numbers): what was written is at its place (`Has`), an int32 is read
back from its four bytes (`ReadsWord`, with the weights of the bytes), a text up to its terminator
(`ReadsString`), and the parts of a list are found by adding up the sizes in front of them
(`PartsFound`, for `Starts`, a recursive function that `Recursion` shows to exist). One
level rests on the other, fields on numbers and texts, messages on fields, the file on messages and
enums: `WrittenIsRead`, the meta data of a file come back as they were and take the bytes that
were computed beforehand. It asks that an int32 holds the numbers and the size of the whole
(`FileFits`); a number beyond that would lose its upper bytes in `WriteInt32`, and what the code's signed `int32`
makes of it is not modelled. With both parts, `DigestTellsMeta`: meta data of the same digest are the same.

`BinFileProofs` (for any drafts, rows, header rows and width of a byte, from
`BinFileAssumption`, `CellsAssumption` and `DigestAssumption`): the inductive `Inv` has messages from
the drafts (`Drafted`) and a file whose stage says how much of it was looked at (`FileOK`). Three
more are inductive with it: the header is made of drafts (`HeaderOK`) and compiles (`CompiledOK`), and
the file was made from drafts that Flatten got through, its table is theirs, and a full one has all its
records (`SourceOK`). The messages as they are, the header's and the file's are three instances of
`Layout`; `Flat(messages)` says of any messages what each of them says of its own, and two instances of
`LayoutProofs` bring its results, for the header's and for the file's.

- `BinFileTypeOK` (`TypeOK`) rests on `Cast`'s arithmetic: a value cast at a width is in its range,
  and one in its range is kept, which is also the heart of `SameInBothFormatsAlways`
  (`SameInBothFormats`). The provers do not know `^`: that a power of 2 is positive and even is
  what `CellsAssumption` says of it.
- `HeapIsBehindTextsAlways` (`HeapIsBehindTexts`): by `LayoutProofs`' `GapsOf` every byte of a record
  is in exactly one column when no names collide; by the check of the header row before the
  records a row that reaches to the end has that column's cell (`HasEveryCell`), which fills it unless it is a text (`HeapOf`).
- `DigestAgreesAlways` (`DigestAgrees`) and `MetaRoundTripAlways` (`MetaRoundTrip`): what a header
  carries of any drafts, a failed message among them with a prefix of its fields, is
  meta data as `BytesProofs` has them.
- `GoodFileIsTakenAlways` (`GoodFileIsTaken`): the digest in the header, read back from its bytes,
  is the conversion's by `WrittenIsRead`, and the struct has the size of the record by `LayoutProofs`'
  `RecordFits`, for which the header has to compile.
- `TakenHasSameMetaAlways` (`TakenHasSameMeta`) is the other direction: by `DigestTellsMeta` a digest
  that agrees is one of the same meta data, and as no digest is empty none of its fields failed.
- `MembersGetTheirColumnsAlways` (`MembersGetTheirColumns`) goes on from there, in five steps.
  1. The meta data are a set, but each field's offset is where the one before it ends, so the
     two lists are the same row (`SameRow`): the file's message has the first fields of the header's,
     with the same names, types, sizes and counts (`SameFields`).
  2. Member messages, being the file's, are flattened as the header has them (`InnerFlat`, by `LevelSet`).
  3. A field of the file takes as many bytes as the header's member or fewer: the meta data
     do not have the label, so the file's may be one plain field where the header has an array; and
     the header may have more fields than the file. But the reader compares the sizes of the whole, so no
     field takes less and none is missing (`Squeeze`, `SameStruct`), and the struct is the file's columns, in order.
  4. As no two columns have one name, the only column with the offset and the size of a member is the one of
     its name (`ColumnAt`, `MemberIs`), so no member gets heap bytes or a mixture for any other reason than that its column's
     cell is beyond the row.
  5. Only a row that is longer than the header does damage, and the rows of a sheet are of one kind
     (`DamageOK`, inductive with `Inv`).

  The proof asked for less than the property did: names may collide in the header, and member messages
  may have counts without a label. Both conditions went. Before that, an attempt at step 3 had met the array of one
  element, for which TLC found the counterexample.

The last four have the hypothesis that the numbers fit an int32, in the header
(`FileFits(FileMeta)`) and, for the last two, in the file's message too (`MessageFits`).

So every invariant and action property of the passing runs is proved. Only model-checked is
liveness (`EveryCallAnswered`, `ExitCompletes`, `ConversionsEnd`): fairness and `ENABLED` are beyond
the prover.

## Not modelled

- Vendored libraries, the creation and geometry of the window, the text of the struct
  templates, builds. The helpers: `GetCellCol` and `GetCellNo` only word log lines (from
  column 26 on wrongly), `ReplaceString` only texts of the header, and `stringSplit`'s result is
  what `Layout` calls a name.
- What cells and records leave out: unsigned and float columns, the text mode (`"r"`) in
  which `LoadFile` opens a file written with `"wb+"`, as Windows translates line ends in it, and `count * size` beyond an `int32`,
  which needs a sheet of 2^31 bytes. The punctuation of the JSON file.
- MD5's round function, which has no state of its own, and its `update` from a stream,
  which nothing calls. Damaged meta data: `AMeta`'s constructors would read past the end of
  the buffer, but the buffer is compiled into the header.
- In messages: groups, maps, negative enum values, messages within themselves (`GetTypeSize` does not
  return for them).
- A page reload has the effect the code gives it: an answer of the old page may settle a call of
  the new one with the same number. `AnswersMatch` says when (`carried`) and that nothing else does it; that
  it should not happen is nowhere claimed. Which of `run`'s other messages a modal loop takes (timers, painting)
  has no effect on a call.
- Two packages that have a message or an enum of the same simple name: `Converter` has one message or enum to a
  name, so what `emplace` makes of such a pair is not covered.
- A use of the destroyed `webview` by a worker still running at exit: undefined behaviour without
  a state in the model, listed under hazards.
- Credentials and bucket follow the paths; that `Upload` ignores `bucket_name` is the wording of
  a constant.

## Plan

Order: what the user sees every day first. All of it is done, except as said at the end.

1. `TaskBridge`, its runs, its stream invariant.
2. `Converter`, its runs.
3. `Settings`, its runs, its invariant.
4. `CallOrder`, the abstract promise of the bridge, and the proof that `TaskBridge` keeps it.
5. `Client` over `CallOrder`, its run.
6. `Layout`, its runs.
7. `BinFile` and `Cells`: rows, columns by index, uninitialised bytes, the reader.
8. `MetaCodec` and `Digest`, over which `BinFile` stands.
9. Proofs about `Converter` and `Client`, about calls and answers, the rest of `Settings`.
10. `Recursion` and, on it, proofs about `Layout`, `BinFile`, `Cells`, `Digest` and `MetaCodec`.

What could follow: unsigned and float columns in `Cells`, maps in `Layout`.
