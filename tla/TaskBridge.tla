----------------------------- MODULE TaskBridge -----------------------------
(***************************************************************************)
(* The call path between the page (Main.vue in the WebView2 control) and   *)
(* the application: a bound JavaScript function makes a promise and posts  *)
(* a message (webview.h, bind_js); the GUI thread hands the message to     *)
(* HandlerWrapper's handler, which queues a task on m_task_dispatcher; the *)
(* dispatcher's worker redirects cout and cerr into m_log_stream, runs the *)
(* bound member function, restores the streams, moves the collected lines  *)
(* into result["log"] and calls resolve, which posts a script back to the  *)
(* GUI thread; that script settles the promise.  The module also has what  *)
(* disturbs this traffic, a window that is moved, and what ends it: a      *)
(* reload of the page, the closing of the window, the exit of the process. *)
(*                                                                         *)
(* Three threads take part: the page, the GUI thread (also the main        *)
(* thread) and the dispatcher's worker.                                    *)
(***************************************************************************)
EXTENDS Integers, Sequences, Functions

CONSTANTS
  MaxCalls,     \* bound: calls one page makes
  MaxReloads,   \* bound: reloads of the page
  MaxLines,     \* bound: lines one handler logs
  PageMethods   \* the bound functions the page calls

\* The functions main binds.
Methods == {"Convert", "ConvertJson", "GetResourceNameAll", "GetConf",
            "Refresh", "Upload"}

ASSUME BridgeAssumption ==
  /\ MaxCalls \in Nat
  /\ MaxReloads \in Nat
  /\ MaxLines \in Nat \ {0}
  /\ PageMethods \subseteq Methods

\* TaskDispatcher m_task_dispatcher{1}
TwoWorkers == 2   \* mutant: a larger pool
PoolSize == 1

\* The members of app that a task uses and the dispatcher, as declared.
DispatcherFirst ==   \* mutant: the dispatcher is declared before what it uses
  <<"m_task_dispatcher", "aresconvert_generator", "conf_json", "m_log_stream">>
Members ==
  <<"aresconvert_generator", "conf_json", "m_log_stream", "m_task_dispatcher">>

Workers == 1..PoolSize
Seqs    == 1..MaxCalls

\* A call as it travels to the worker.  The code carries seq and the bound
\* function; "page" says which load of the page made the call and only
\* properties read it.
Call   == [page : 0..MaxReloads, seq : Seqs, method : PageMethods]
NoCall == [page |-> 0, seq |-> 0, method |-> "none"]

\* What a handler's json result looks like to HandlerWrapper: an object whose
\* "code" is null, 0 or -1, or a bare number, which is not an object.
Results == {"null", "zero", "failure", "number"}

\* A call of resolve(seq, ret, result.dump()).
Answer   == [call : Call, status : {"resolved", "rejected"}, log : Seq(Call)]
NoAnswer == [call |-> NoCall, status |-> "none", log |-> <<>>]

VARIABLES
  page,      \* loads of the page so far, less one
  issued,    \* calls of this page: RPC.nextSeq - 1
  promise,   \* promise[seq]: the page's promise for RPC[seq]
  reply,     \* reply[seq]: the answer that settled it
  inbox,     \* messages on their way from the page to on_message
  tasks,     \* the dispatcher's queue
  posted,    \* WM_APP messages: answers on their way to the page
  pc,        \* pc[w]: where worker w stands in the task
  job,       \* job[w]: the call it works on
  saved,     \* saved[w]: old_cout and old_cerr
  result,    \* result[w]: the handler's result
  lines,     \* lines[w]: result["log"]
  sink,      \* what cout and cerr write to
  log,       \* m_log_stream: for every line the call that logged it
  console,   \* calls whose lines went to the console and not to the log
  sdk,       \* the OSS client library is initialised
  threw,     \* calls whose task ended with an exception
  alive,     \* members not yet destroyed: the first alive of Members
  main,      \* where the main thread stands
  moving,    \* the user holds the window: DefWindowProcW runs a loop of its own
  garbled,   \* calls with a line in the log or in a result that is not UTF-8
  lost,      \* history: numbers of this page's calls whose answer was lost
  carried    \* history: numbers of the calls under way when it was loaded

pageVars   == <<page, issued, promise, reply, lost, carried>>
streamVars == <<sink, log, console, garbled>>
workerVars == <<pc, job, saved, result, lines>>
vars == <<page, issued, promise, reply, inbox, tasks, posted, pc, job, saved,
          result, lines, sink, log, console, sdk, threw, alive, main, moving,
          garbled, lost, carried>>

TypeOK ==
  /\ page \in 0..MaxReloads
  /\ issued \in 0..MaxCalls
  /\ promise \in [Seqs -> {"none", "pending", "resolved", "rejected"}]
  /\ reply \in [Seqs -> Answer \cup {NoAnswer}]
  /\ inbox \in Seq(Call)
  /\ tasks \in Seq(Call)
  /\ posted \in Seq(Answer)
  /\ pc \in [Workers -> {"idle", "taken", "redirected", "ran", "restored",
                         "collected"}]
  /\ job \in [Workers -> Call \cup {NoCall}]
  /\ saved \in [Workers -> {"console", "log"}]
  /\ result \in [Workers -> Results]
  /\ lines \in [Workers -> Seq(Call)]
  /\ sink \in {"console", "log"}
  /\ log \in Seq(Call)
  /\ console \in SUBSET Call
  /\ sdk \in {"up", "down"}
  /\ threw \in SUBSET Call
  /\ alive \in 0..Len(Members)
  /\ main \in {"loop", "quit", "saved", "exited", "aborted"}
  /\ moving \in BOOLEAN
  /\ garbled \in SUBSET Call
  /\ lost \in SUBSET Seqs
  /\ carried \in SUBSET Seqs

Init ==
  /\ page = 0
  /\ issued = 0
  /\ promise = [s \in Seqs |-> "none"]
  /\ reply = [s \in Seqs |-> NoAnswer]
  /\ inbox = <<>>
  /\ tasks = <<>>
  /\ posted = <<>>
  /\ pc = [w \in Workers |-> "idle"]
  /\ job = [w \in Workers |-> NoCall]
  /\ saved = [w \in Workers |-> "console"]
  /\ result = [w \in Workers |-> "null"]
  /\ lines = [w \in Workers |-> <<>>]
  /\ sink = "console"
  /\ log = <<>>
  /\ console = {}
  /\ sdk = "down"
  /\ threw = {}
  /\ alive = Len(Members)
  /\ main = "loop"
  /\ moving = FALSE
  /\ garbled = {}
  /\ lost = {}
  /\ carried = {}

-----------------------------------------------------------------------------
(* The page.                                                               *)

\* window[name](...): a new promise under the next number, and a message.
MakeCall(m) ==
  /\ main = "loop"
  /\ issued < MaxCalls
  /\ issued' = issued + 1
  /\ promise' = [promise EXCEPT ![issued + 1] = "pending"]
  /\ inbox' = Append(inbox, [page |-> page, seq |-> issued + 1, method |-> m])
  /\ UNCHANGED <<page, reply, lost, carried, tasks, posted, workerVars,
                 streamVars, sdk, threw, alive, main, moving>>

\* The calls still on their way to the page's promises.
InFlight == Range(inbox) \cup Range(tasks) \cup {job[w] : w \in Workers}
              \cup {posted[i].call : i \in 1..Len(posted)}

\* The user reloads the page: the scripts of init() run again, RPC is a new
\* object with nextSeq 1, and the old promises are gone with the old page.
Reload ==
  /\ main = "loop"
  /\ page < MaxReloads
  /\ page' = page + 1
  /\ issued' = 0
  /\ promise' = [s \in Seqs |-> "none"]
  /\ reply' = [s \in Seqs |-> NoAnswer]
  /\ lost' = {}
  /\ carried' = {c.seq : c \in InFlight \ {NoCall}}
  /\ UNCHANGED <<inbox, tasks, posted, workerVars, streamVars, sdk, threw,
                 alive, main, moving>>

-----------------------------------------------------------------------------
(* The GUI thread.                                                         *)

\* on_message and the handler: parse the arguments, queue the task.  The
\* arguments come from JSON.stringify, so the parse_error branch is dead.  The
\* control calls on_message from a window of its own, which every loop serves.
OnMessage ==
  /\ main = "loop"
  /\ inbox # <<>>
  /\ inbox' = Tail(inbox)
  /\ tasks' = Append(tasks, Head(inbox))
  /\ UNCHANGED <<pageVars, posted, workerVars, streamVars, sdk, threw, alive,
                 main, moving>>

\* window._rpc[s] is there until the script of resolve deletes it.
HasEntry(s) == promise[s] = "pending"

\* The entry an answer is for: window._rpc[seq].
OldestEntry(a) ==   \* mutant: calls are taken to be answered in their order
  LET waiting == {s \in Seqs : HasEntry(s)}
  IN  IF waiting = {} THEN a.call.seq
      ELSE CHOOSE s \in waiting : \A t \in waiting : s <= t
EntryOf(a) == a.call.seq

\* run() takes a WM_APP message and evaluates the script of resolve: it
\* looks the promise up by number alone and deletes the entry; without an
\* entry the script fails and nothing changes.
Deliver ==
  /\ main = "loop"
  /\ ~moving
  /\ posted # <<>>
  /\ posted' = Tail(posted)
  /\ LET a == Head(posted)
         s == EntryOf(a)
     IN IF HasEntry(s)
        THEN /\ promise' = [promise EXCEPT ![s] = a.status]
             /\ reply' = [reply EXCEPT ![s] = a]
        ELSE UNCHANGED <<promise, reply>>
  /\ UNCHANGED <<page, issued, lost, carried, inbox, tasks, workerVars,
                 streamVars, sdk, threw, alive, main, moving>>

\* The user takes the title bar or a border, and lets it go: in between,
\* DefWindowProcW does not return and Windows' own loop takes the messages.
MoveWindow ==
  /\ main = "loop"
  /\ moving' = ~moving
  /\ UNCHANGED <<pageVars, inbox, tasks, posted, workerVars, streamVars, sdk,
                 threw, alive, main>>

\* The answer to c is gone.
Lost(c) == lost' = lost \cup {s \in {c.seq} : c.page = page}

\* That loop has no window to hand a WM_APP message to, and dispatch() posts it
\* to the thread: it is gone, the answer with it.
LoseAnswer ==
  /\ main = "loop"
  /\ moving
  /\ posted # <<>>
  /\ posted' = Tail(posted)
  /\ Lost(Head(posted).call)
  /\ UNCHANGED <<page, issued, promise, reply, carried, inbox, tasks,
                 workerVars, streamVars, sdk, threw, alive, main, moving>>

\* The user closes the window: the page is gone with it, run() returns and
\* main destroys its webview w.  Messages in flight are never looked at.
CloseWindow ==
  /\ main = "loop"
  /\ main' = "quit"
  /\ moving' = FALSE
  /\ inbox' = <<>>
  /\ posted' = <<>>
  /\ UNCHANGED <<pageVars, tasks, workerVars, streamVars, sdk, threw, alive>>

\* exit() destroys the global app: the body of ~Application saves setup.json.
SaveSettings ==
  /\ main = "quit"
  /\ main' = "saved"
  /\ UNCHANGED <<pageVars, inbox, tasks, posted, workerVars, streamVars, sdk,
                 threw, alive, moving>>

\* The members of app are destroyed in the reverse order of declaration.  The
\* dispatcher's destructor joins its worker; whether it drains or drops the
\* queue is not known, and both are behaviours here (TakeTask stays enabled
\* until the join).
DestroyMember ==
  /\ main = "saved"
  /\ IF Members[alive] = "m_task_dispatcher"
     THEN tasks' = <<>> /\ \A w \in Workers : pc[w] = "idle"
     ELSE UNCHANGED tasks
  /\ alive' = alive - 1
  /\ main' = IF alive = 1 THEN "exited" ELSE main
  /\ UNCHANGED <<pageVars, inbox, posted, workerVars, streamVars, sdk, threw,
                 moving>>

-----------------------------------------------------------------------------
(* The dispatcher's worker: the task HandlerWrapper's handler queued.      *)

\* The worker runs until the dispatcher is joined or the process terminated.
StopsAtQuit == main = "loop"   \* mutant: no step after the loop has ended
Running == main \notin {"exited", "aborted"}

TakeTask(w) ==
  /\ Running
  /\ pc[w] = "idle"
  /\ tasks # <<>>
  /\ job' = [job EXCEPT ![w] = Head(tasks)]
  /\ tasks' = Tail(tasks)
  /\ pc' = [pc EXCEPT ![w] = "taken"]
  /\ UNCHANGED <<pageVars, inbox, posted, saved, result, lines, streamVars,
                 sdk, threw, alive, main, moving>>

\* Keep the two rdbufs and point both streams at m_log_stream.
Redirect(w) ==
  /\ Running
  /\ pc[w] = "taken"
  /\ saved' = [saved EXCEPT ![w] = sink]
  /\ sink' = "log"
  /\ pc' = [pc EXCEPT ![w] = "redirected"]
  /\ UNCHANGED <<pageVars, inbox, tasks, posted, job, result, lines, log,
                 console, garbled, sdk, threw, alive, main, moving>>

\* The results a bound function can return.  The converters compare
\* result["code"] with -1 and 0 where they mean to assign it, so it is null.
\* Upload returns the number -1 when PutObject fails.
ResultsOf(m) ==
  CASE m \in {"Convert", "ConvertJson"} -> {"null"}
    [] m = "Upload" -> {"zero", "failure", "number"}
    [] OTHER -> {"zero"}

\* GetConf and GetResourceNameAll log nothing, the others at least one line.
LineCounts(m) ==
  IF m \in {"GetConf", "GetResourceNameAll"} THEN {0} ELSE 1..MaxLines

\* Upload initialises the OSS library and shuts it down on every return but
\* the one after a failed PutObject; the other handlers leave it alone.
SdkAfter(m, r) ==
  IF m # "Upload" THEN sdk ELSE IF r = "number" THEN "up" ELSE "down"

\* (this->*f)(req).  A line may hold bytes that are no UTF-8: a path or a
\* message of the system in the code page of the machine.
RunHandler(w) ==
  /\ Running
  /\ pc[w] = "redirected"
  /\ \E r \in ResultsOf(job[w].method), n \in LineCounts(job[w].method),
        utf8 \in BOOLEAN :
       /\ result' = [result EXCEPT ![w] = r]
       /\ sdk' = SdkAfter(job[w].method, r)
       /\ IF sink = "log"
          THEN /\ log' = log \o [i \in 1..n |-> job[w]]
               /\ garbled' = IF utf8 \/ n = 0 THEN garbled
                             ELSE garbled \cup {job[w]}
               /\ UNCHANGED console
          ELSE /\ console' = IF n = 0 THEN console ELSE console \cup {job[w]}
               /\ UNCHANGED <<log, garbled>>
  /\ pc' = [pc EXCEPT ![w] = "ran"]
  /\ UNCHANGED <<pageVars, inbox, tasks, posted, job, saved, lines, sink,
                 threw, alive, main, moving>>

\* std::cout.rdbuf(old_cout), std::cerr.rdbuf(old_cerr)
NotRestored(w) == sink   \* mutant: the restore is forgotten
OldStream(w) == saved[w]

Restore(w) ==
  /\ Running
  /\ pc[w] = "ran"
  /\ sink' = OldStream(w)
  /\ pc' = [pc EXCEPT ![w] = "restored"]
  /\ UNCHANGED <<pageVars, inbox, tasks, posted, job, saved, result, lines,
                 log, console, garbled, sdk, threw, alive, main, moving>>

\* log_stream.str("")
LogKept == log   \* mutant: the reset is forgotten
EmptyLog == <<>>

\* The lines of m_log_stream become result["log"] and the stream is emptied.
CollectLog(w) ==
  /\ Running
  /\ pc[w] = "restored"
  /\ result[w] # "number"
  /\ lines' = [lines EXCEPT ![w] = log]
  /\ log' = EmptyLog
  /\ pc' = [pc EXCEPT ![w] = "collected"]
  /\ UNCHANGED <<pageVars, inbox, tasks, posted, job, saved, result, sink,
                 console, garbled, sdk, threw, alive, main, moving>>

\* The task is over and its local variables are gone.
EndTask(w) ==
  /\ pc' = [pc EXCEPT ![w] = "idle"]
  /\ job' = [job EXCEPT ![w] = NoCall]
  /\ saved' = [saved EXCEPT ![w] = "console"]
  /\ result' = [result EXCEPT ![w] = "null"]
  /\ lines' = [lines EXCEPT ![w] = <<>>]

\* An exception skips the rest of the task.  What the dispatcher makes of it is
\* not known: it swallows it, or the process is terminated.
Throws(w) ==
  /\ threw' = threw \cup {job[w]}
  /\ EndTask(w)
  /\ main' \in {main, "aborted"}
  /\ UNCHANGED <<pageVars, inbox, tasks, posted, sink, log, console, sdk, alive,
                 moving>>

\* result["log"] on a number throws, before the log is emptied.
CollectThrows(w) ==
  /\ Running
  /\ pc[w] = "restored"
  /\ result[w] = "number"
  /\ Throws(w)
  /\ UNCHANGED garbled

\* result.dump() throws on a string that is not UTF-8.
Dumps(w) == Range(lines[w]) \cap garbled = {}

DumpThrows(w) ==
  /\ Running
  /\ pc[w] = "collected"
  /\ ~Dumps(w)
  /\ Throws(w)
  /\ garbled' = garbled \ Range(lines[w])

\* ret: 0 when "code" is null, else its value.
CodeAsIs(r) == r   \* mutant: no test for null
StatusOf(r) == IF r = "failure" THEN "rejected" ELSE "resolved"

\* The thread's messages after dispatch().
ResolveOnSuccess(a) ==   \* mutant: resolve is skipped when ret is not 0
  IF a.status = "resolved" THEN Append(posted, a) ELSE posted
Posted(a) == Append(posted, a)

\* resolver->resolve(seq, ret, result.dump()).  Once the loop has ended
\* nobody takes the message.
Settle(w) ==
  /\ Running
  /\ pc[w] = "collected"
  /\ Dumps(w)
  /\ posted' = IF main = "loop"
               THEN Posted([call |-> job[w],
                            status |-> StatusOf(result[w]),
                            log |-> lines[w]])
               ELSE posted
  /\ EndTask(w)
  /\ UNCHANGED <<pageVars, inbox, tasks, streamVars, sdk, threw, alive,
                 main, moving>>

\* PostThreadMessage may fail (the thread's queue is full), and dispatch() does
\* not look at what it returns.
PostFails(w) ==
  /\ main = "loop"
  /\ pc[w] = "collected"
  /\ Dumps(w)
  /\ Lost(job[w])
  /\ EndTask(w)
  /\ UNCHANGED <<page, issued, promise, reply, carried, inbox, tasks, posted,
                 streamVars, sdk, threw, alive, main, moving>>

WorkerStep(w) ==
  \/ TakeTask(w)
  \/ Redirect(w)
  \/ RunHandler(w)
  \/ Restore(w)
  \/ CollectLog(w)
  \/ CollectThrows(w)
  \/ DumpThrows(w)
  \/ Settle(w)
  \/ PostFails(w)

\* The process has ended.
Ended == ~Running /\ UNCHANGED vars

Next ==
  \/ \E m \in PageMethods : MakeCall(m)
  \/ Reload
  \/ OnMessage
  \/ Deliver
  \/ MoveWindow
  \/ LoseAnswer
  \/ CloseWindow
  \/ SaveSettings
  \/ DestroyMember
  \/ \E w \in Workers : WorkerStep(w)
  \/ Ended

Spec == Init /\ [][Next]_vars

\* A loop takes every message the GUI thread is sent, run() to deliver it and
\* the loop of a window that is moved to lose it; the worker is a running thread
\* whose handlers end.  The user owes nothing: no fairness on calls, reloads,
\* moving or closing the window, nor on letting it go; exit() runs to its end.
FairSpec ==
  /\ Spec
  /\ WF_vars(OnMessage)
  /\ WF_vars(Deliver \/ LoseAnswer)
  /\ \A w \in Workers : WF_vars(WorkerStep(w))
  /\ WF_vars(SaveSettings)
  /\ WF_vars(DestroyMember)
-----------------------------------------------------------------------------
(* Properties.                                                             *)

Settled(s) == promise[s] \in {"resolved", "rejected"}

\* Answers the page has or will get.
Answers == {reply[s] : s \in {t \in Seqs : Settled(t)}} \cup Range(posted)

\* What an Upload that failed leaves in the log, for the next call to collect.
LeftBehind == {c \in threw : c.method = "Upload"}

\* An answer's "log" holds only lines of its own call, or of an Upload whose
\* task threw before it could empty the stream (HandlerWrapper swaps the
\* process-wide streams, so this rests on the pool having one worker).
LogAttribution ==
  \A a \in Answers : Range(a.log) \subseteq {a.call} \cup LeftBehind

\* The page never shows a line twice: the stream is emptied after it has been
\* copied into a result.
LinesDeliveredOnce ==
  \A a, b \in Answers :
    a.call # b.call => Range(a.log) \cap Range(b.log) = {}

\* No line a handler logs goes to the console instead of the page.
NoLineLost == console = {}

\* Between two tasks the process is as if no task had run: the streams are the
\* process's own and, unless a failed Upload left its traces, the log is empty
\* and the OSS library is shut down.
IdleIsClean ==
  (\A w \in Workers : pc[w] = "idle") =>
    /\ sink = "console"
    /\ LeftBehind = {} => log = <<>> /\ sdk = "down"

\* The calls not yet run to their end, oldest first, and the answers under
\* way, as the page sees them while the window is open.
Working == IF pc[1] = "idle" THEN <<>> ELSE <<job[1]>>
Todo == IF main = "loop" THEN Working \o tasks \o inbox ELSE <<>>
Done == IF main = "loop"
        THEN [i \in DOMAIN posted |->
                [call |-> posted[i].call, data |-> posted[i].status]]
        ELSE <<>>

CO == INSTANCE CallOrder WITH
        Batches <- {<<c>> : c \in Call},
        Data <- {"resolved", "rejected"},
        todo <- Todo,
        done <- Done,
        open <- main = "loop"

\* The bridge, the dispatcher and the tasks together serve calls one by one in
\* the order they were made and hand the answers over in that order.
ServesInOrder == CO!Spec

\* While the window is open a pending promise still has its call under way,
\* unless the call's task threw or its answer was lost on the way back: nothing
\* else, no reload and no answer of another call, takes a promise its answer.
OrphansHaveCause ==
  main = "loop" =>
    \A s \in Seqs :
      promise[s] = "pending" =>
        \/ s \in lost
        \/ \E c \in InFlight \cup threw : c.page = page /\ c.seq = s

\* webview.h:1594 "Async bindings require the user to call the resolve
\* function": a pending promise always has its call under way.
NoOrphanedPromise ==
  main = "loop" =>
    \A s \in Seqs :
      promise[s] = "pending" =>
        \E c \in InFlight : c.page = page /\ c.seq = s

\* A task never runs while a member it uses is gone: the dispatcher is the
\* last member, so it is destroyed, and its worker joined, before the others.
TasksHaveMembers == \A w \in Workers : pc[w] # "idle" => alive = Len(Members)

\* A promise is settled by the answer to its own call, however many calls
\* before it were never answered.  Only a call that was under way when the page
\* was loaded can take its place: resolve finds the promise by number alone,
\* and a new page counts from 1 again.
AnswersMatch ==
  \A s \in Seqs :
    Settled(s) =>
      LET c == reply[s].call
      IN c.seq = s /\ (c.page = page \/ s \in carried)

\* Every call is answered, unless its task throws, its answer is lost, the
\* page is reloaded or the session ends.
EveryCallAnswered ==
  \A s \in Seqs, p \in 0..MaxReloads :
    (page = p /\ promise[s] = "pending") ~>
      \/ page # p
      \/ Settled(s)
      \/ s \in lost
      \/ \E c \in threw : c.page = p /\ c.seq = s
      \/ main # "loop"

\* A closed window ends the process: the join cannot wait forever.
ExitCompletes == main = "quit" ~> main \in {"exited", "aborted"}
=============================================================================
