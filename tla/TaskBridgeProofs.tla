-------------------------- MODULE TaskBridgeProofs ---------------------------
(***************************************************************************)
(* Proofs about TaskBridge, for every number of calls, reloads and lines.  *)
(*                                                                         *)
(* The streams: the dispatcher has one worker, so whether cout and cerr    *)
(* are redirected, and whose lines are in the log, is a function of where  *)
(* that worker stands.  StreamInv says which function.                     *)
(*                                                                         *)
(* Which call a promise, an answer and a line belong to: a call passes the *)
(* queues as one piece.  A promise waits only for a number that was issued *)
(* (IssuedInv), its call is in one of the queues until its answer is       *)
(* handed over or lost (WaitingInv), a call of an earlier page has a       *)
(* number that was carried over (CarriedInv), no call is in two places     *)
(* (OnceInv), and so no line can be in two answers (LinesInv).             *)
(*                                                                         *)
(* TaskBridge implements CallOrder: read one after the other, the task the *)
(* worker has, the dispatcher's queue and the messages on their way are    *)
(* one queue of calls, and each step of TaskBridge is a step of CallOrder  *)
(* on that queue or none.                                                  *)
(***************************************************************************)
EXTENDS TaskBridge, SequenceTheorems, TLAPS

\* A worker that is not idle works on a call.
Busy == \A w \in Workers : pc[w] # "idle" => job[w] \in Call

\* The members are all there until the settings are saved, and one is left as
\* long as the process has not exited.
Standing ==
  /\ main \in {"loop", "quit"} => alive = Len(Members)
  /\ main = "saved" => alive > 0

TypeInv == TypeOK /\ Busy /\ Standing

LEMMA OneWorker == Workers = {1} /\ 1 \in Workers
  BY DEF Workers, PoolSize

LEMMA CallTyped ==
  ASSUME NEW m \in PageMethods, page \in 0..MaxReloads, issued \in 0..MaxCalls,
         issued < MaxCalls
  PROVE  /\ [page |-> page, seq |-> issued + 1, method |-> m] \in Call
         /\ issued + 1 \in Seqs
         /\ issued + 1 \in 0..MaxCalls
  BY BridgeAssumption DEF Call, Seqs, BridgeAssumption

\* The lines of one handler, added to a log, leave a log of lines.
LEMMA LoggedTyped ==
  ASSUME NEW s \in Seq(Call), NEW c \in Call, NEW n \in Nat
  PROVE  /\ s \o [i \in 1..n |-> c] \in Seq(Call)
         /\ Range(s \o [i \in 1..n |-> c]) \subseteq Range(s) \cup {c}
<1> DEFINE new == [i \in 1..n |-> c]
<1>1. new \in Seq(Call)
  OBVIOUS
<1>2. Range(new) \subseteq {c}
  BY DEF Range
<1> HIDE DEF new
<1>3. s \o new \in Seq(Call) /\ Range(s \o new) \subseteq Range(s) \cup {c}
  BY <1>1, <1>2, ConcatProperties, RangeConcatenation
<1> QED
  BY <1>3 DEF new

LEMMA LineCountNat == \A m \in PageMethods : LineCounts(m) \subseteq Nat
  BY BridgeAssumption DEF LineCounts, BridgeAssumption

LEMMA ResultsTyped == \A m : ResultsOf(m) \subseteq Results
  BY DEF ResultsOf, Results

\* The elements of a queue after one is taken or added.
LEMMA RangeOfTail ==
  ASSUME NEW S, NEW s \in Seq(S), s # <<>>
  PROVE  Head(s) \in Range(s) /\ Range(Tail(s)) \subseteq Range(s)
  BY HeadTailProperties, RangeEquality DEF Range

LEMMA RangeOfAppend ==
  ASSUME NEW S, NEW s \in Seq(S), NEW e \in S
  PROVE  Range(Append(s, e)) = Range(s) \cup {e}
<1> DEFINE one == <<e>>
<1>1. one \in Seq(S) /\ Range(one) = {e}
  BY DEF Range
<1>2. Append(s, e) = s \o one
  BY AppendIsConcat
<1> HIDE DEF one
<1> QED
  BY <1>1, <1>2, RangeConcatenation

LEMMA EndTaskTyped ==
  ASSUME NEW w \in Workers, TypeInv, EndTask(w)
  PROVE  /\ pc' \in [Workers -> {"idle", "taken", "redirected", "ran",
                                 "restored", "collected"}]
         /\ job' \in [Workers -> Call \cup {NoCall}]
         /\ saved' \in [Workers -> {"console", "log"}]
         /\ result' \in [Workers -> Results]
         /\ lines' \in [Workers -> Seq(Call)]
         /\ Busy'
  BY EmptySeq DEF TypeInv, TypeOK, Busy, EndTask, Results

\* The calls of a sequence of answers.
LEMMA CallsOf ==
  ASSUME NEW s \in Seq(Answer)
  PROVE  {s[i].call : i \in 1..Len(s)} = {a.call : a \in Range(s)}
<1>1. DOMAIN s = 1..Len(s)
  OBVIOUS
<1>2. Range(s) = {s[i] : i \in 1..Len(s)}
  BY <1>1 DEF Range
<1> QED
  BY <1>2

\* What is in flight, of sets.
LEMMA InFlightIs ==
  ASSUME posted \in Seq(Answer)
  PROVE  InFlight = Range(inbox) \cup Range(tasks) \cup {job[1]}
                      \cup {a.call : a \in Range(posted)}
<1>1. {job[w] : w \in Workers} = {job[1]}
  BY OneWorker
<1> QED
  BY <1>1, CallsOf DEF InFlight

LEMMA InFlightTyped == TypeInv => InFlight \ {NoCall} \subseteq Call
<1> SUFFICES ASSUME TypeInv PROVE InFlight \ {NoCall} \subseteq Call
  OBVIOUS
<1>1. Range(inbox) \cup Range(tasks) \subseteq Call /\ Range(posted) \subseteq Answer
  BY DEF Range, TypeInv, TypeOK
<1>2. {a.call : a \in Range(posted)} \subseteq Call
  BY <1>1 DEF Answer
<1>3. job[1] \in Call \cup {NoCall}
  BY OneWorker DEF TypeInv, TypeOK
<1> QED
  BY <1>1, <1>2, <1>3, InFlightIs DEF TypeInv, TypeOK

\* Only a number that can be issued is lost.
LEMMA LostTyped ==
  ASSUME NEW c \in Call, lost \in SUBSET Seqs, Lost(c)
  PROVE  lost' \in SUBSET Seqs
  BY DEF Lost, Call

-----------------------------------------------------------------------------
(* Type correctness.                                                       *)

LEMMA TypeInit == Init => TypeInv
<1> SUFFICES ASSUME Init PROVE TypeInv
  OBVIOUS
<1>1. /\ page \in 0..MaxReloads /\ issued \in 0..MaxCalls
      /\ promise \in [Seqs -> {"none", "pending", "resolved", "rejected"}]
      /\ reply \in [Seqs -> Answer \cup {NoAnswer}]
      /\ lost \in SUBSET Seqs /\ carried \in SUBSET Seqs
  BY BridgeAssumption DEF Init, BridgeAssumption
<1>2. /\ inbox \in Seq(Call) /\ tasks \in Seq(Call) /\ posted \in Seq(Answer)
      /\ log \in Seq(Call) /\ lines \in [Workers -> Seq(Call)]
  BY EmptySeq DEF Init
<1>3. /\ pc = [w \in Workers |-> "idle"] /\ alive = 4 /\ Len(Members) = 4
      /\ main = "loop"
  BY DEF Init, Members
<1>4. /\ job \in [Workers -> Call \cup {NoCall}]
      /\ saved \in [Workers -> {"console", "log"}]
      /\ result \in [Workers -> Results]
  BY DEF Init, Results
<1>5. Busy /\ Standing
  BY <1>3 DEF Busy, Standing
<1>6. /\ sink \in {"console", "log"} /\ console \in SUBSET Call
      /\ sdk \in {"up", "down"} /\ threw \in SUBSET Call
      /\ alive \in 0..Len(Members)
      /\ main \in {"loop", "quit", "saved", "exited", "aborted"}
      /\ garbled \in SUBSET Call
  BY <1>3 DEF Init
<1>8. moving \in BOOLEAN
  <2>1. moving = FALSE
    BY Zenon DEF Init
  <2> QED
    BY <2>1, Zenon
<1>7. pc \in [Workers -> {"idle", "taken", "redirected", "ran", "restored",
                         "collected"}]
  BY <1>3
<1> QED
  BY <1>1, <1>2, <1>4, <1>5, <1>6, <1>7, <1>8 DEF TypeInv, TypeOK

LEMMA TypeNext == TypeInv /\ [Next]_vars => TypeInv'
<1> SUFFICES ASSUME TypeInv, [Next]_vars PROVE TypeInv'
  OBVIOUS
<1> USE DEF TypeInv, TypeOK, Standing
<1>1. ASSUME NEW m \in PageMethods, MakeCall(m) PROVE TypeInv'
  BY <1>1, CallTyped, AppendProperties
  DEF MakeCall, Busy, workerVars, streamVars
<1>2. CASE Reload
  <2>1. {c.seq : c \in InFlight \ {NoCall}} \subseteq Seqs
    <3>1. \A c \in InFlight \ {NoCall} : c \in Call
      BY InFlightTyped
    <3>2. \A c \in Call : c.seq \in Seqs
      BY DEF Call
    <3> QED
      BY <3>1, <3>2
  <2> QED
    BY <1>2, <2>1, BridgeAssumption
    DEF Reload, Busy, workerVars, streamVars, BridgeAssumption
<1>3. CASE OnMessage
  BY <1>3, HeadTailProperties, AppendProperties
  DEF OnMessage, Busy, pageVars, workerVars, streamVars
<1>4. CASE Deliver
  <2>1. Head(posted) \in Answer /\ Tail(posted) \in Seq(Answer)
    BY <1>4, HeadTailProperties DEF Deliver
  <2>2. Head(posted).status \in {"resolved", "rejected"}
    BY <2>1 DEF Answer
  <2>3. promise' \in [Seqs -> {"none", "pending", "resolved", "rejected"}]
    BY <1>4, <2>2 DEF Deliver
  <2>4. reply' \in [Seqs -> Answer \cup {NoAnswer}]
    BY <1>4, <2>1 DEF Deliver
  <2> QED
    BY <1>4, <2>1, <2>3, <2>4 DEF Deliver, Busy, workerVars, streamVars
<1>5. CASE CloseWindow
  BY <1>5, EmptySeq
  DEF CloseWindow, Busy, pageVars, workerVars, streamVars
<1>6. CASE SaveSettings
  BY <1>6 DEF SaveSettings, Members, Busy, pageVars, workerVars, streamVars
<1>7. CASE DestroyMember
  <2>1. alive' \in 0..Len(Members) /\ (main' = "saved" => alive' > 0)
    BY <1>7 DEF DestroyMember, Members
  <2>2. main' \in {"saved", "exited"}
    BY <1>7 DEF DestroyMember
  <2> QED
    BY <1>7, <2>1, <2>2, EmptySeq
    DEF DestroyMember, Busy, pageVars, workerVars, streamVars
<1>8. ASSUME NEW w \in Workers, TakeTask(w) PROVE TypeInv'
  BY <1>8, HeadTailProperties DEF TakeTask, Busy, pageVars, streamVars
<1>9. ASSUME NEW w \in Workers, Redirect(w) PROVE TypeInv'
  BY <1>9 DEF Redirect, Busy, pageVars
<1>10. ASSUME NEW w \in Workers, RunHandler(w) PROVE TypeInv'
  <2>1. job[w] \in Call /\ job[w].method \in PageMethods
    BY <1>10 DEF RunHandler, Busy, Call
  <2>6. garbled' \in SUBSET Call
    BY <1>10, <2>1 DEF RunHandler
  <2>2. log' \in Seq(Call)
    <3>1. PICK n \in LineCounts(job[w].method) :
            log' \in {log, log \o [i \in 1..n |-> job[w]]}
      BY <1>10 DEF RunHandler
    <3>2. n \in Nat
      BY <2>1, LineCountNat
    <3>3. log \o [i \in 1..n |-> job[w]] \in Seq(Call)
      BY <2>1, <3>2, LoggedTyped
    <3> QED
      BY <3>1, <3>3
  <2>3. console' \in SUBSET Call
    BY <1>10, <2>1 DEF RunHandler
  <2>4. result' \in [Workers -> Results]
    BY <1>10, ResultsTyped DEF RunHandler
  <2>5. sdk' \in {"up", "down"}
    BY <1>10 DEF RunHandler, SdkAfter
  <2> QED
    BY <1>10, <2>2, <2>3, <2>4, <2>5, <2>6 DEF RunHandler, Busy, pageVars
<1>11. ASSUME NEW w \in Workers, Restore(w) PROVE TypeInv'
  BY <1>11 DEF Restore, OldStream, Busy, pageVars
<1>12. ASSUME NEW w \in Workers, CollectLog(w) PROVE TypeInv'
  BY <1>12, EmptySeq DEF CollectLog, EmptyLog, Busy, pageVars
<1>13. ASSUME NEW w \in Workers, CollectThrows(w) \/ DumpThrows(w) PROVE TypeInv'
  <2>1. threw' \in SUBSET Call /\ garbled' \in SUBSET Call
    BY <1>13 DEF CollectThrows, DumpThrows, Throws, Busy
  <2>2. EndTask(w) /\ main' \in {main, "aborted"}
    BY <1>13 DEF CollectThrows, DumpThrows, Throws
  <2> QED
    BY <1>13, <2>1, <2>2, EndTaskTyped
    DEF CollectThrows, DumpThrows, Throws, pageVars
<1>14. ASSUME NEW w \in Workers, Settle(w) PROVE TypeInv'
  <2>1. [call |-> job[w], status |-> StatusOf(result[w]), log |-> lines[w]]
          \in Answer
    BY <1>14 DEF Settle, Busy, Answer, StatusOf
  <2>2. posted' \in Seq(Answer)
    BY <1>14, <2>1, AppendProperties DEF Settle, Posted
  <2> QED
    BY <1>14, <2>2, EndTaskTyped DEF Settle, pageVars, streamVars
<1>15. ASSUME NEW w \in Workers, PostFails(w) PROVE TypeInv'
  <2>1. job[w] \in Call
    BY <1>15 DEF PostFails, Busy
  <2>2. lost' \in SUBSET Seqs
    BY <1>15, <2>1, LostTyped DEF PostFails
  <2> QED
    BY <1>15, <2>2, EndTaskTyped DEF PostFails, streamVars
<1>16. CASE MoveWindow
  BY <1>16 DEF MoveWindow, Busy, pageVars, workerVars, streamVars
<1>17. CASE LoseAnswer
  <2>1. Head(posted) \in Answer /\ Tail(posted) \in Seq(Answer)
    BY <1>17, HeadTailProperties DEF LoseAnswer
  <2>2. Head(posted).call \in Call
    BY <2>1 DEF Answer
  <2>3. lost' \in SUBSET Seqs
    BY <1>17, <2>2, LostTyped DEF LoseAnswer
  <2> QED
    BY <1>17, <2>1, <2>3 DEF LoseAnswer, Busy, workerVars, streamVars
<1>18. CASE UNCHANGED vars
  BY <1>18 DEF vars, Busy
<1> QED
  BY <1>1, <1>2, <1>3, <1>4, <1>5, <1>6, <1>7, <1>8, <1>9, <1>10, <1>11,
     <1>12, <1>13, <1>14, <1>15, <1>16, <1>17, <1>18
  DEF Next, WorkerStep, Ended

\* TaskBridge's state has the types TypeOK gives it, and a busy worker has a
\* call to work on.
THEOREM TypeCorrect == Spec => []TypeInv
<1>1. Init => TypeInv
  BY TypeInit
<1>2. TypeInv /\ [Next]_vars => TypeInv'
  BY TypeNext
<1> QED
  BY <1>1, <1>2, PTL DEF Spec

-----------------------------------------------------------------------------
(* The streams.                                                            *)

\* The lines of an answer are its own call's, or left by a failed Upload.
Own(a) == Range(a.log) \subseteq {a.call} \cup LeftBehind

\* The call whose lines are in the log while its task has not moved them.
Logging == IF pc[1] \in {"ran", "restored"} THEN {job[1]} ELSE {}

SinkInv ==
  /\ saved[1] = "console"
  /\ sink = IF pc[1] \in {"redirected", "ran"} THEN "log" ELSE "console"
  /\ console = {}

LogInv ==
  /\ Range(log) \subseteq LeftBehind \cup Logging
  /\ pc[1] = "collected" => Range(lines[1]) \subseteq {job[1]} \cup LeftBehind

AnswerInv ==
  /\ \A a \in Range(posted) : Own(a)
  /\ \A s \in Seqs : Settled(s) => Own(reply[s])

\* The worker has a number for a result: an Upload has failed.
Number == pc[1] \in {"ran", "restored"} /\ result[1] = "number"

SdkInv ==
  /\ Number => job[1].method = "Upload"
  /\ sdk = "up" => LeftBehind # {} \/ Number

StreamInv == SinkInv /\ LogInv /\ AnswerInv /\ SdkInv

LEMMA StreamInit == Init => StreamInv
<1> SUFFICES ASSUME Init PROVE StreamInv
  OBVIOUS
<1>1. Range(<<>>) = {}
  BY DEF Range
<1> QED
  BY <1>1, OneWorker
  DEF Init, StreamInv, SinkInv, LogInv, AnswerInv, SdkInv, Number, Settled

\* A step that leaves worker, streams and answers alone.
LEMMA StreamFrame ==
  ASSUME StreamInv, UNCHANGED <<workerVars, streamVars, sdk, threw>>,
         AnswerInv'
  PROVE  StreamInv'
  BY DEF StreamInv, SinkInv, LogInv, SdkInv, Number, Logging, LeftBehind,
         workerVars, streamVars

\* Answers stay their own call's when more tasks have thrown.
LEMMA OwnGrows ==
  ASSUME AnswerInv, threw \subseteq threw', UNCHANGED <<promise, reply, posted>>
  PROVE  AnswerInv'
  BY DEF AnswerInv, Own, LeftBehind, Settled

LEMMA StreamNext ==
  TypeInv /\ StreamInv /\ [Next]_vars => StreamInv'
<1> SUFFICES ASSUME TypeInv, StreamInv, [Next]_vars PROVE StreamInv'
  OBVIOUS
<1>a. pc \in [Workers -> {"idle", "taken", "redirected", "ran", "restored",
                         "collected"}]
  BY DEF TypeInv, TypeOK
<1>1. ASSUME NEW m \in PageMethods, MakeCall(m) PROVE StreamInv'
  <2>1. \A s \in Seqs : Settled(s)' => Settled(s) /\ reply'[s] = reply[s]
    BY <1>1 DEF MakeCall, Settled, TypeInv, TypeOK
  <2>2. AnswerInv'
    BY <1>1, <2>1 DEF MakeCall, StreamInv, AnswerInv, Own, LeftBehind
  <2> QED
    BY <1>1, <2>2, StreamFrame DEF MakeCall
<1>2. CASE Reload
  <2>1. AnswerInv'
    BY <1>2 DEF Reload, StreamInv, AnswerInv, Own, LeftBehind, Settled
  <2> QED
    BY <1>2, <2>1, StreamFrame DEF Reload
<1>3. CASE OnMessage
  BY <1>3, OwnGrows, StreamFrame DEF OnMessage, pageVars, StreamInv
<1>4. CASE Deliver
  <2>1. Own(Head(posted)) /\ Range(Tail(posted)) \subseteq Range(posted)
    BY <1>4, RangeOfTail DEF Deliver, TypeInv, TypeOK, StreamInv, AnswerInv
  <2>2. \A s \in Seqs : Settled(s)' =>
          \/ Settled(s) /\ reply'[s] = reply[s]
          \/ reply'[s] = Head(posted)
    BY <1>4 DEF Deliver, Settled, TypeInv, TypeOK
  <2>3. AnswerInv'
    BY <1>4, <2>1, <2>2 DEF Deliver, StreamInv, AnswerInv, Own, LeftBehind
  <2> QED
    BY <1>4, <2>3, StreamFrame DEF Deliver
<1>5. CASE CloseWindow
  <2>1. AnswerInv'
    BY <1>5 DEF CloseWindow, pageVars, StreamInv, AnswerInv, Own, LeftBehind, Settled,
        Range
  <2> QED
    BY <1>5, <2>1, StreamFrame DEF CloseWindow
<1>6. CASE SaveSettings
  BY <1>6, OwnGrows, StreamFrame DEF SaveSettings, pageVars, StreamInv
<1>7. CASE DestroyMember
  BY <1>7, OwnGrows, StreamFrame DEF DestroyMember, pageVars, StreamInv
<1>8. ASSUME TakeTask(1) PROVE StreamInv'
  <2>1. AnswerInv'
    BY <1>8, OwnGrows DEF TakeTask, pageVars, StreamInv
  <2> QED
    BY <1>8, <1>a, <2>1, OneWorker
    DEF TakeTask, streamVars, StreamInv, SinkInv, LogInv, SdkInv, Number, Logging, LeftBehind
<1>9. ASSUME Redirect(1) PROVE StreamInv'
  <2>1. AnswerInv'
    BY <1>9, OwnGrows DEF Redirect, pageVars, StreamInv
  <2>2. SinkInv'
    BY <1>9, <1>a, OneWorker
    DEF Redirect, StreamInv, SinkInv, TypeInv, TypeOK
  <2> QED
    BY <1>9, <1>a, <2>1, <2>2, OneWorker
    DEF Redirect, StreamInv, LogInv, SdkInv, Number, Logging, LeftBehind
<1>10. ASSUME RunHandler(1) PROVE StreamInv'
  <2>1. AnswerInv'
    BY <1>10, OwnGrows DEF RunHandler, pageVars, StreamInv
  <2>2. pc[1] = "redirected" /\ pc'[1] = "ran" /\ sink = "log"
    BY <1>10, <1>a, OneWorker DEF RunHandler, StreamInv, SinkInv
  <2>3. SinkInv'
    BY <1>10, <2>2 DEF RunHandler, StreamInv, SinkInv
  <2>4. LogInv'
    <3>1. job[1] \in Call /\ job[1].method \in PageMethods
      BY <2>2, OneWorker DEF TypeInv, Busy, Call
    <3>2. PICK n \in LineCounts(job[1].method) :
            log' = log \o [i \in 1..n |-> job[1]]
      BY <1>10, <2>2 DEF RunHandler
    <3>3. n \in Nat
      BY <3>1, LineCountNat
    <3>4. Range(log \o [i \in 1..n |-> job[1]]) \subseteq Range(log) \cup {job[1]}
      BY <3>1, <3>3, LoggedTyped DEF TypeInv, TypeOK
    <3> QED
      BY <1>10, <2>2, <3>2, <3>4
      DEF RunHandler, StreamInv, LogInv, Logging, LeftBehind
  <2>5. SdkInv'
    BY <1>10, <2>2, OneWorker
    DEF RunHandler, SdkAfter, ResultsOf, StreamInv, SdkInv, Number, LeftBehind,
        TypeInv, TypeOK
  <2> QED
    BY <2>1, <2>3, <2>4, <2>5 DEF StreamInv
<1>11. ASSUME Restore(1) PROVE StreamInv'
  <2>1. AnswerInv'
    BY <1>11, OwnGrows DEF Restore, pageVars, StreamInv
  <2> QED
    BY <1>11, <1>a, <2>1, OneWorker
    DEF Restore, OldStream, StreamInv, SinkInv, LogInv, SdkInv, Number, Logging, LeftBehind
<1>12. ASSUME CollectLog(1) PROVE StreamInv'
  <2>1. AnswerInv'
    BY <1>12, OwnGrows DEF CollectLog, pageVars, StreamInv
  <2>2. LogInv'
    BY <1>12, <1>a, OneWorker
    DEF CollectLog, EmptyLog, StreamInv, LogInv, Logging, LeftBehind, Range,
        TypeInv, TypeOK
  <2> QED
    BY <1>12, <1>a, <2>1, <2>2, OneWorker
    DEF CollectLog, StreamInv, SinkInv, SdkInv, Number, LeftBehind
<1>13. ASSUME CollectThrows(1) \/ DumpThrows(1) PROVE StreamInv'
  <2>1. Throws(1) /\ pc[1] \in {"restored", "collected"}
    BY <1>13 DEF CollectThrows, DumpThrows
  <2>2. AnswerInv'
    BY <2>1, OwnGrows DEF Throws, pageVars, StreamInv
  <2>3. pc'[1] = "idle" /\ saved'[1] = "console"
    BY <2>1, <1>a, OneWorker DEF Throws, EndTask, TypeInv, TypeOK
  <2>4. LeftBehind \subseteq LeftBehind'
    BY <2>1 DEF Throws, LeftBehind
  <2>5. pc[1] = "restored" => job[1] \in LeftBehind'
    <3>1. pc[1] = "restored" => result[1] = "number"
      BY <1>13 DEF CollectThrows, DumpThrows
    <3> QED
      BY <2>1, <3>1 DEF Throws, LeftBehind, StreamInv, SdkInv, Number
  <2>6. SinkInv'
    BY <2>1, <2>3 DEF Throws, StreamInv, SinkInv
  <2>7. LogInv'
    BY <2>1, <2>3, <2>4, <2>5 DEF Throws, StreamInv, LogInv, Logging
  <2>8. SdkInv'
    BY <2>1, <2>3, <2>4, <2>5 DEF Throws, StreamInv, SdkInv, Number
  <2> QED
    BY <2>2, <2>6, <2>7, <2>8 DEF StreamInv
<1>14. ASSUME Settle(1) PROVE StreamInv'
  <2> DEFINE new == [call |-> job[1], status |-> StatusOf(result[1]),
                     log |-> lines[1]]
  <2>1. new \in Answer /\ Own(new)
    BY <1>14, OneWorker
    DEF Settle, StreamInv, LogInv, Own, LeftBehind, Answer, StatusOf, TypeInv, TypeOK, Busy
  <2>2. posted' \in {posted, Append(posted, new)}
    BY <1>14 DEF Settle, Posted
  <2> HIDE DEF new
  <2>3. Range(posted') \subseteq Range(posted) \cup {new}
    <3>1. posted \in Seq(Answer)
      BY DEF TypeInv, TypeOK
    <3>2. Range(Append(posted, new)) = Range(posted) \cup {new}
      BY <2>1, <3>1, RangeOfAppend
    <3> QED
      BY <2>2, <3>2
  <2>4. AnswerInv'
    BY <1>14, <2>1, <2>3
    DEF Settle, pageVars, StreamInv, AnswerInv, Own, LeftBehind, Settled
  <2> QED
    <3>1. /\ pc[1] = "collected" /\ UNCHANGED <<sink, log, console, sdk, threw>>
          /\ pc'[1] = "idle" /\ saved'[1] = "console"
      BY <1>14, <1>a, OneWorker DEF Settle, EndTask, streamVars, TypeInv, TypeOK
    <3>2. SinkInv' /\ LogInv' /\ SdkInv'
      BY <3>1
      DEF StreamInv, SinkInv, LogInv, SdkInv, Number, Logging, LeftBehind
    <3> QED
      BY <2>4, <3>2 DEF StreamInv
<1>15. ASSUME PostFails(1) PROVE StreamInv'
  <2>1. AnswerInv'
    BY <1>15, OwnGrows DEF PostFails, StreamInv
  <2>2. /\ pc[1] = "collected" /\ UNCHANGED <<sink, log, console, sdk, threw>>
        /\ pc'[1] = "idle" /\ saved'[1] = "console"
    BY <1>15, <1>a, OneWorker
    DEF PostFails, EndTask, streamVars, TypeInv, TypeOK
  <2>3. SinkInv' /\ LogInv' /\ SdkInv'
    BY <2>2
    DEF StreamInv, SinkInv, LogInv, SdkInv, Number, Logging, LeftBehind
  <2> QED
    BY <2>1, <2>3 DEF StreamInv
<1>16. CASE MoveWindow
  BY <1>16, OwnGrows, StreamFrame DEF MoveWindow, pageVars, StreamInv
<1>17. CASE LoseAnswer
  <2>1. Range(posted') \subseteq Range(posted)
    BY <1>17, RangeOfTail DEF LoseAnswer, TypeInv, TypeOK
  <2>2. AnswerInv'
    BY <1>17, <2>1 DEF LoseAnswer, StreamInv, AnswerInv, Own, LeftBehind, Settled
  <2> QED
    BY <1>17, <2>2, StreamFrame DEF LoseAnswer
<1>18. CASE UNCHANGED vars
  BY <1>18, OwnGrows, StreamFrame DEF vars, workerVars, streamVars, StreamInv
<1> QED
  BY <1>1, <1>2, <1>3, <1>4, <1>5, <1>6, <1>7, <1>8, <1>9, <1>10, <1>11,
     <1>12, <1>13, <1>14, <1>15, <1>16, <1>17, <1>18, OneWorker
  DEF Next, WorkerStep, Ended

\* At every moment the place of the one worker says where cout and cerr write,
\* whose lines are in the log, and whether the OSS library may be initialised.
THEOREM StreamsFollowWorker == Spec => []StreamInv
<1>1. Init => StreamInv
  BY StreamInit
<1>2. TypeInv /\ StreamInv /\ [Next]_vars => StreamInv'
  BY StreamNext
<1> QED
  BY <1>1, <1>2, TypeCorrect, PTL DEF Spec

\* No answer shows another call's lines, unless that call is an Upload that
\* failed (HandlerWrapper's redirection and log_stream.str("")).
THEOREM LogsAreAttributed == Spec => []LogAttribution
<1>1. StreamInv => LogAttribution
  BY DEF StreamInv, AnswerInv, LogAttribution, Answers, Own
<1> QED
  BY <1>1, StreamsFollowWorker, PTL

\* No line of a handler is written to the console instead of the log.
THEOREM LinesReachTheLog == Spec => []NoLineLost
<1>1. StreamInv => NoLineLost
  BY DEF StreamInv, SinkInv, NoLineLost
<1> QED
  BY <1>1, StreamsFollowWorker, PTL

\* Between tasks the process-wide streams are restored and, if no Upload has
\* failed, the log is empty and the OSS library is shut down.
THEOREM CleanWhenIdle == Spec => []IdleIsClean
<1>1. TypeInv /\ StreamInv => IdleIsClean
  <2> SUFFICES ASSUME TypeInv, StreamInv, \A w \in Workers : pc[w] = "idle"
               PROVE  /\ sink = "console"
                      /\ LeftBehind = {} => log = <<>> /\ sdk = "down"
    BY DEF IdleIsClean
  <2>1. pc[1] = "idle"
    BY OneWorker
  <2>2. sink = "console"
    BY <2>1 DEF StreamInv, SinkInv
  <2>3. ASSUME LeftBehind = {} PROVE log = <<>>
    <3>1. Range(log) = {} /\ log \in Seq(Call)
      BY <2>1, <2>3 DEF StreamInv, LogInv, Logging, TypeInv, TypeOK
    <3> QED
      BY <3>1, RangeOfTail
  <2>4. ASSUME LeftBehind = {} PROVE sdk = "down"
    BY <2>1, <2>4 DEF StreamInv, SdkInv, Number, TypeInv, TypeOK
  <2> QED
    BY <2>2, <2>3, <2>4
<1> QED
  BY <1>1, TypeCorrect, StreamsFollowWorker, PTL

-----------------------------------------------------------------------------
(* The end of the process.                                                 *)

\* Once a member is gone the dispatcher is, with its queue and its task.
EndInv ==
  alive < Len(Members) =>
    /\ main # "loop"
    /\ tasks = <<>>
    /\ \A w \in Workers : pc[w] = "idle"

LEMMA EndNext == TypeInv /\ EndInv /\ [Next]_vars => EndInv'
<1> SUFFICES ASSUME TypeInv, EndInv, [Next]_vars PROVE EndInv'
  OBVIOUS
<1> USE DEF EndInv
<1>1. ASSUME NEW m \in PageMethods, MakeCall(m) PROVE EndInv'
  BY <1>1 DEF MakeCall, workerVars
<1>2. CASE Reload
  BY <1>2 DEF Reload, workerVars
<1>3. CASE OnMessage
  BY <1>3 DEF OnMessage, workerVars
<1>4. CASE Deliver
  BY <1>4 DEF Deliver, workerVars
<1>5. CASE CloseWindow
  BY <1>5 DEF CloseWindow, workerVars
<1>6. CASE SaveSettings
  BY <1>6 DEF SaveSettings, workerVars
<1>7. CASE DestroyMember
  <2>1. CASE alive = Len(Members)
    BY <1>7, <2>1 DEF DestroyMember, Members, workerVars
  <2>2. CASE alive < Len(Members)
    BY <1>7, <2>2 DEF DestroyMember, workerVars
  <2> QED
    BY <2>1, <2>2 DEF TypeInv, TypeOK, Members
<1>8. ASSUME NEW w \in Workers, WorkerStep(w) PROVE EndInv'
  <2>1. alive = Len(Members)
    BY <1>8
    DEF WorkerStep, TakeTask, Redirect, RunHandler, Restore, CollectLog,
        CollectThrows, DumpThrows, Settle, PostFails, TypeInv, TypeOK, Members
  <2>2. alive' = alive
    BY <1>8
    DEF WorkerStep, TakeTask, Redirect, RunHandler, Restore, CollectLog,
        CollectThrows, DumpThrows, Throws, Settle, PostFails
  <2> QED
    BY <2>1, <2>2 DEF Members
<1>9. CASE MoveWindow \/ LoseAnswer
  BY <1>9 DEF MoveWindow, LoseAnswer, workerVars
<1>10. CASE UNCHANGED vars
  BY <1>10 DEF vars
<1> QED
  BY <1>1, <1>2, <1>3, <1>4, <1>5, <1>6, <1>7, <1>8, <1>9, <1>10
  DEF Next, Ended

\* No task runs while a member of the application is gone: the dispatcher is
\* declared last, so its join comes before any other destructor.
THEOREM MembersOutliveTasks == Spec => []TasksHaveMembers
<1>1. Init => EndInv
  BY DEF Init, EndInv, Members
<1>2. TypeInv /\ EndInv /\ [Next]_vars => EndInv'
  BY EndNext
<1>3. TypeInv /\ EndInv => TasksHaveMembers
  BY DEF TypeInv, TypeOK, EndInv, TasksHaveMembers, Members
<1> QED
  BY <1>1, <1>2, <1>3, TypeCorrect, PTL DEF Spec

-----------------------------------------------------------------------------
(* Queues and answers.                                                     *)

\* The elements of a queue are its head and those of its tail.
LEMMA HeadOrTail ==
  ASSUME NEW S, NEW s \in Seq(S), s # <<>>
  PROVE  Range(s) = {Head(s)} \cup Range(Tail(s))
<1>1. Head(s) \in Range(s) /\ Range(Tail(s)) \subseteq Range(s)
  BY RangeOfTail
<1>2. ASSUME NEW x \in Range(s), x # Head(s) PROVE x \in Range(Tail(s))
  <2>1. PICK i \in DOMAIN s : s[i] = x
    BY <1>2 DEF Range
  <2>2. i \in 1..Len(s) /\ i # 1 /\ Len(s) \in Nat
    BY <1>2, <2>1
  <2>3. i - 1 \in 1..Len(Tail(s)) /\ Tail(s)[i - 1] = s[i]
    BY <2>2
  <2> QED
    BY <2>1, <2>3 DEF Range
<1> QED
  BY <1>1, <1>2

-----------------------------------------------------------------------------
(* Types.                                                                  *)

\* Every variable keeps its type.
THEOREM BridgeTyped == Spec => []TypeOK
<1>1. TypeInv => TypeOK
  BY DEF TypeInv
<1> QED
  BY <1>1, TypeCorrect, PTL

-----------------------------------------------------------------------------
(* Promises.                                                               *)

\* Only issued numbers have a promise.
IssuedInv == \A s \in Seqs : s > issued => promise[s] = "none"

LEMMA IssuedNext == TypeInv /\ IssuedInv /\ [Next]_vars => IssuedInv'
<1> SUFFICES ASSUME TypeInv, IssuedInv, [Next]_vars PROVE IssuedInv'
  OBVIOUS
<1> USE DEF IssuedInv
<1>1. ASSUME NEW m \in PageMethods, MakeCall(m) PROVE IssuedInv'
  BY <1>1 DEF MakeCall, TypeInv, TypeOK, Seqs
<1>2. CASE Reload
  BY <1>2 DEF Reload
<1>3. CASE Deliver
  <2>1. issued' = issued
    BY <1>3 DEF Deliver
  <2>2. \A s \in Seqs : promise[s] = "none" => promise'[s] = "none"
    BY <1>3 DEF Deliver, HasEntry, EntryOf, TypeInv, TypeOK
  <2> QED
    BY <2>1, <2>2
<1>4. CASE UNCHANGED <<issued, promise>>
  BY <1>4
<1> QED
  BY <1>1, <1>2, <1>3, <1>4
  DEF Next, OnMessage, MoveWindow, LoseAnswer, CloseWindow, SaveSettings, DestroyMember,
      WorkerStep, TakeTask, Redirect, RunHandler, Restore, CollectLog, CollectThrows,
      DumpThrows, Throws, Settle, PostFails, Ended, vars, pageVars

-----------------------------------------------------------------------------
(* Calls under way.                                                        *)

\* A pending promise has its call in a queue or at the worker, or the call's
\* task threw, or its answer was lost; an idle worker has none.
WaitingInv ==
  /\ OrphansHaveCause
  /\ pc[1] = "idle" => job[1] = NoCall

\* What is in flight after a step that leaves the window open, as far as the
\* step neither settles its promise nor loses its answer.
LEMMA StaysInFlight ==
  ASSUME TypeInv, TypeInv', WaitingInv, [Next]_vars, main' = "loop",
         NEW c \in InFlight \cup threw, c.seq \in Seqs
  PROVE  \/ c \in InFlight' \cup threw'
         \/ Deliver /\ c = Head(posted).call
         \/ c.page = page => c.seq \in lost'
<1> DEFINE Kept == c \in InFlight' \cup threw' \/ (c.page = page => c.seq \in lost')
<1>a. InFlight = Range(inbox) \cup Range(tasks) \cup {job[1]}
                   \cup {a.call : a \in Range(posted)}
  BY InFlightIs DEF TypeInv, TypeOK
<1>b. InFlight' = Range(inbox') \cup Range(tasks') \cup {job'[1]}
                    \cup {a.call : a \in Range(posted')}
  <2>1. {job'[w] : w \in Workers} = {job'[1]}
    BY OneWorker
  <2>2. posted' \in Seq(Answer)
    BY DEF TypeInv, TypeOK
  <2> QED
    BY <2>1, <2>2, CallsOf DEF InFlight
<1>c. /\ inbox \in Seq(Call) /\ tasks \in Seq(Call) /\ posted \in Seq(Answer)
      /\ job \in [Workers -> Call \cup {NoCall}] /\ pc \in [Workers -> {"idle", "taken",
           "redirected", "ran", "restored", "collected"}]
  BY DEF TypeInv, TypeOK
<1>d. c # NoCall
  BY DEF NoCall, Seqs
<1>1. ASSUME NEW m \in PageMethods, MakeCall(m) PROVE Kept
  <2>1. Range(inbox) \subseteq Range(inbox')
    BY <1>1, <1>c, CallTyped, RangeOfAppend DEF MakeCall, TypeInv, TypeOK
  <2> QED
    BY <1>1, <2>1, <1>a, <1>b DEF MakeCall, workerVars
<1>2. CASE OnMessage
  <2>1. Range(inbox) = {Head(inbox)} \cup Range(inbox') /\ Head(inbox) \in Call
    BY <1>2, <1>c, HeadOrTail, HeadTailProperties DEF OnMessage
  <2>2. Range(tasks') = Range(tasks) \cup {Head(inbox)}
    BY <1>2, <1>c, <2>1, RangeOfAppend DEF OnMessage
  <2> QED
    BY <1>2, <2>1, <2>2, <1>a, <1>b DEF OnMessage, workerVars
<1>3. CASE Deliver
  <2>1. Range(posted) = {Head(posted)} \cup Range(posted')
    BY <1>3, <1>c, HeadOrTail DEF Deliver
  <2> QED
    BY <1>3, <2>1, <1>a, <1>b DEF Deliver, workerVars
<1>4. ASSUME TakeTask(1) PROVE Kept
  <2>1. Range(tasks) = {Head(tasks)} \cup Range(tasks')
    BY <1>4, <1>c, HeadOrTail DEF TakeTask
  <2>2. job[1] = NoCall /\ job'[1] = Head(tasks)
    BY <1>4, <1>c, OneWorker DEF TakeTask, WaitingInv
  <2> QED
    BY <1>4, <2>1, <2>2, <1>a, <1>b, <1>d DEF TakeTask
<1>5. ASSUME CollectThrows(1) \/ DumpThrows(1) PROVE Kept
  <2>1. threw' = threw \cup {job[1]} /\ UNCHANGED <<inbox, tasks, posted>>
    BY <1>5 DEF CollectThrows, DumpThrows, Throws
  <2> QED
    BY <2>1, <1>a, <1>b
<1>6. ASSUME Settle(1) PROVE Kept
  <2> DEFINE new == [call |-> job[1], status |-> StatusOf(result[1]), log |-> lines[1]]
  <2>1. new \in Answer /\ new.call = job[1]
    BY <1>6, OneWorker DEF Settle, Answer, StatusOf, TypeInv, TypeOK, Busy
  <2>2. posted' = Append(posted, new)
    BY <1>6 DEF Settle, Posted
  <2> HIDE DEF new
  <2>3. Range(posted') = Range(posted) \cup {new}
    BY <2>1, <2>2, <1>c, RangeOfAppend
  <2> QED
    BY <1>6, <2>1, <2>3, <1>a, <1>b DEF Settle
<1>7. ASSUME PostFails(1) PROVE Kept
  <2>1. c = job[1] => (c.page = page => c.seq \in lost')
    BY <1>7 DEF PostFails, Lost
  <2> QED
    BY <1>7, <2>1, <1>a, <1>b DEF PostFails
<1>8. CASE LoseAnswer
  <2>1. Range(posted) = {Head(posted)} \cup Range(posted')
    BY <1>8, <1>c, HeadOrTail DEF LoseAnswer
  <2>2. c = Head(posted).call => (c.page = page => c.seq \in lost')
    BY <1>8 DEF LoseAnswer, Lost
  <2> QED
    BY <1>8, <2>1, <2>2, <1>a, <1>b DEF LoseAnswer, workerVars
<1>9. CASE Reload \/ UNCHANGED <<inbox, tasks, posted, job, threw>>
  BY <1>9, <1>a, <1>b DEF Reload, workerVars
<1> QED
  BY <1>1, <1>2, <1>3, <1>4, <1>5, <1>6, <1>7, <1>8, <1>9, OneWorker
  DEF Next, MoveWindow, CloseWindow, SaveSettings, DestroyMember, WorkerStep, Redirect,
      RunHandler, Restore, CollectLog, Ended, vars, pageVars, workerVars

LEMMA WaitingNext == TypeInv /\ TypeInv' /\ WaitingInv /\ [Next]_vars => WaitingInv'
<1> SUFFICES ASSUME TypeInv, TypeInv', WaitingInv, [Next]_vars PROVE WaitingInv'
  OBVIOUS
<1>1. pc'[1] = "idle" => job'[1] = NoCall
  <2>1. CASE WorkerStep(1)
    <3>1. CASE CollectThrows(1) \/ DumpThrows(1) \/ Settle(1) \/ PostFails(1)
      BY <3>1, OneWorker
      DEF CollectThrows, DumpThrows, Throws, Settle, PostFails, EndTask, TypeInv, TypeOK
    <3>2. CASE TakeTask(1) \/ Redirect(1) \/ RunHandler(1) \/ Restore(1) \/ CollectLog(1)
      <4>1. pc'[1] # "idle"
        BY <3>2, OneWorker
        DEF TakeTask, Redirect, RunHandler, Restore, CollectLog, TypeInv, TypeOK
      <4> QED
        BY <4>1
    <3> QED
      BY <2>1, <3>1, <3>2 DEF WorkerStep
  <2>2. CASE UNCHANGED <<pc, job>>
    BY <2>2 DEF WaitingInv
  <2> QED
    BY <2>1, <2>2, OneWorker
    DEF Next, MakeCall, Reload, OnMessage, Deliver, MoveWindow, LoseAnswer, CloseWindow,
        SaveSettings, DestroyMember, Ended, vars, workerVars
<1> DEFINE Caused(s) == \/ s \in lost'
                        \/ \E c \in InFlight' \cup threw' : c.page = page' /\ c.seq = s
<1>2. ASSUME main' = "loop", NEW s \in Seqs, promise'[s] = "pending"
      PROVE  Caused(s)
  <2>1. main = "loop"
    BY <1>2
    DEF Next, MakeCall, Reload, OnMessage, Deliver, MoveWindow, LoseAnswer, CloseWindow,
        SaveSettings, DestroyMember, WorkerStep, TakeTask, Redirect, RunHandler, Restore,
        CollectLog, CollectThrows, DumpThrows, Throws, Settle, PostFails, Ended, vars
  <2>a. Deliver => Head(posted).status # "pending"
    <3>1. Deliver => Head(posted) \in Answer
      BY HeadTailProperties DEF Deliver, TypeInv, TypeOK
    <3> QED
      BY <3>1 DEF Answer
  <2>b. Reload \/ lost \subseteq lost'
    BY DEF Next, MakeCall, OnMessage, Deliver, MoveWindow, LoseAnswer, CloseWindow,
           SaveSettings, DestroyMember, WorkerStep, TakeTask, Redirect, RunHandler, Restore,
           CollectLog, CollectThrows, DumpThrows, Throws, Settle, PostFails, Lost, Ended,
           vars, pageVars
  <2>2. ASSUME NEW m \in PageMethods, MakeCall(m), s = issued + 1
        PROVE  Caused(s)
    <3> DEFINE new == [page |-> page, seq |-> issued + 1, method |-> m]
    <3>1. new \in Call /\ inbox \in Seq(Call)
      BY <2>2, CallTyped DEF MakeCall, TypeInv, TypeOK
    <3>2. new \in Range(inbox')
      BY <2>2, <3>1, RangeOfAppend DEF MakeCall
    <3> QED
      BY <2>2, <3>2 DEF InFlight, MakeCall
  <2>3. ASSUME promise[s] = "pending", page' = page, ~Reload
        PROVE  Caused(s)
    <3>1. CASE s \in lost
      BY <2>3, <2>b, <3>1
    <3>2. CASE s \notin lost
      <4>1. PICK c \in InFlight \cup threw : c.page = page /\ c.seq = s
        BY <2>1, <2>3, <3>2 DEF WaitingInv, OrphansHaveCause
      <4>2. ~(Deliver /\ c = Head(posted).call)
        BY <1>2, <2>a, <2>3, <4>1 DEF Deliver, HasEntry, EntryOf, TypeInv, TypeOK
      <4> QED
        BY <1>2, <2>3, <4>1, <4>2, StaysInFlight
    <3> QED
      BY <3>1, <3>2
  <2>4. CASE Reload
    BY <1>2, <2>4 DEF Reload
  <2>5. CASE Deliver
    <3>1. promise[s] = "pending" /\ page' = page
      BY <1>2, <2>a, <2>5 DEF Deliver, TypeInv, TypeOK
    <3> QED
      BY <2>3, <2>4, <3>1
  <2>6. ASSUME NEW m \in PageMethods, MakeCall(m), s # issued + 1
        PROVE  promise[s] = "pending" /\ page' = page
    BY <1>2, <2>6 DEF MakeCall, TypeInv, TypeOK
  <2>7. CASE UNCHANGED <<promise, page>>
    BY <1>2, <2>3, <2>4, <2>7
  <2> QED
    BY <2>2, <2>3, <2>4, <2>5, <2>6, <2>7
    DEF Next, OnMessage, MoveWindow, LoseAnswer, CloseWindow, SaveSettings, DestroyMember,
        WorkerStep, TakeTask, Redirect, RunHandler, Restore, CollectLog, CollectThrows,
        DumpThrows, Throws, Settle, PostFails, Ended, vars, pageVars
<1> QED
  BY <1>1, <1>2 DEF WaitingInv, OrphansHaveCause

\* While the window is open a promise that waits in vain is one whose call's
\* task threw (after a failed PutObject, or on a line that is not UTF-8) or
\* whose answer was lost (in the loop of a window that is moved, or because the
\* thread's queue was full): nothing else takes a promise its answer.
THEOREM OrphansAlwaysHaveCause == Spec => []OrphansHaveCause
<1>1. Init => WaitingInv
  BY OneWorker DEF Init, WaitingInv, OrphansHaveCause
<1>2. TypeInv /\ TypeInv' /\ WaitingInv /\ [Next]_vars => WaitingInv'
  BY WaitingNext
<1>3. WaitingInv => OrphansHaveCause
  BY DEF WaitingInv
<1> QED
  BY <1>1, <1>2, <1>3, TypeCorrect, PTL DEF Spec

-----------------------------------------------------------------------------
(* Whose answer a promise gets.                                            *)

\* A call under way was made by this page, or its number was carried over when
\* this page was loaded.
CarriedInv ==
  /\ \A c \in InFlight \ {NoCall} : c.page = page \/ c.seq \in carried
  /\ AnswersMatch

\* Only the page adds to what is under way.
LEMMA InFlightComes ==
  ASSUME TypeInv, TypeInv', [Next]_vars, NEW c \in InFlight' \ {NoCall}
  PROVE  c \in InFlight \/ (c.page = page /\ page' = page)
<1>a. InFlight = Range(inbox) \cup Range(tasks) \cup {job[1]}
                   \cup {a.call : a \in Range(posted)}
  BY InFlightIs DEF TypeInv, TypeOK
<1>b. InFlight' = Range(inbox') \cup Range(tasks') \cup {job'[1]}
                    \cup {a.call : a \in Range(posted')}
  <2>1. {job'[w] : w \in Workers} = {job'[1]}
    BY OneWorker
  <2>2. posted' \in Seq(Answer)
    BY DEF TypeInv, TypeOK
  <2> QED
    BY <2>1, <2>2, CallsOf DEF InFlight
<1>c. /\ inbox \in Seq(Call) /\ tasks \in Seq(Call) /\ posted \in Seq(Answer)
      /\ job \in [Workers -> Call \cup {NoCall}]
  BY DEF TypeInv, TypeOK
<1>1. ASSUME NEW m \in PageMethods, MakeCall(m)
      PROVE  c \in InFlight \/ (c.page = page /\ page' = page)
  <2> DEFINE new == [page |-> page, seq |-> issued + 1, method |-> m]
  <2>1. new \in Call /\ new.page = page /\ inbox' = Append(inbox, new)
    BY <1>1, CallTyped DEF MakeCall, TypeInv, TypeOK
  <2> HIDE DEF new
  <2>2. Range(inbox') = Range(inbox) \cup {new}
    BY <2>1, <1>c, RangeOfAppend
  <2> QED
    BY <1>1, <2>1, <2>2, <1>a, <1>b DEF MakeCall, workerVars
<1>2. CASE OnMessage
  <2>1. Range(inbox) = {Head(inbox)} \cup Range(inbox') /\ Head(inbox) \in Call
    BY <1>2, <1>c, HeadOrTail, HeadTailProperties DEF OnMessage
  <2>2. Range(tasks') = Range(tasks) \cup {Head(inbox)}
    BY <1>2, <1>c, <2>1, RangeOfAppend DEF OnMessage
  <2> QED
    BY <1>2, <2>1, <2>2, <1>a, <1>b DEF OnMessage, workerVars
<1>3. CASE Deliver \/ LoseAnswer
  <2>1. Range(posted') \subseteq Range(posted)
    BY <1>3, <1>c, RangeOfTail DEF Deliver, LoseAnswer
  <2> QED
    BY <1>3, <2>1, <1>a, <1>b DEF Deliver, LoseAnswer, workerVars
<1>4. ASSUME TakeTask(1) PROVE c \in InFlight
  <2>1. Range(tasks) = {Head(tasks)} \cup Range(tasks')
    BY <1>4, <1>c, HeadOrTail DEF TakeTask
  <2>2. job'[1] = Head(tasks)
    BY <1>4, <1>c, OneWorker DEF TakeTask
  <2> QED
    BY <1>4, <2>1, <2>2, <1>a, <1>b DEF TakeTask
<1>5. ASSUME CollectThrows(1) \/ DumpThrows(1) \/ PostFails(1) PROVE c \in InFlight
  <2>1. job'[1] = NoCall /\ UNCHANGED <<inbox, tasks, posted>>
    BY <1>5, <1>c, OneWorker
    DEF CollectThrows, DumpThrows, Throws, PostFails, EndTask
  <2> QED
    BY <2>1, <1>a, <1>b
<1>6. ASSUME Settle(1) PROVE c \in InFlight
  <2> DEFINE new == [call |-> job[1], status |-> StatusOf(result[1]), log |-> lines[1]]
  <2>1. new \in Answer /\ new.call = job[1]
    BY <1>6, OneWorker DEF Settle, Answer, StatusOf, TypeInv, TypeOK, Busy
  <2>2. posted' \in {posted, Append(posted, new)} /\ job'[1] = NoCall
    BY <1>6, <1>c, OneWorker DEF Settle, EndTask, Posted
  <2> HIDE DEF new
  <2>3. Range(posted') \subseteq Range(posted) \cup {new}
    <3>1. Range(Append(posted, new)) = Range(posted) \cup {new}
      BY <2>1, <1>c, RangeOfAppend
    <3> QED
      BY <2>2, <3>1
  <2> QED
    BY <1>6, <2>1, <2>2, <2>3, <1>a, <1>b DEF Settle
<1>7. CASE CloseWindow
  BY <1>7, <1>a, <1>b DEF CloseWindow, workerVars, Range
<1>8. CASE DestroyMember
  <2>1. Range(tasks') \subseteq Range(tasks)
    BY <1>8 DEF DestroyMember, Range
  <2> QED
    BY <1>8, <2>1, <1>a, <1>b DEF DestroyMember, workerVars
<1>9. CASE Reload \/ MoveWindow \/ SaveSettings
           \/ UNCHANGED <<inbox, tasks, posted, job>>
  BY <1>9, <1>a, <1>b DEF Reload, MoveWindow, SaveSettings, workerVars
<1> QED
  BY <1>1, <1>2, <1>3, <1>4, <1>5, <1>6, <1>7, <1>8, <1>9, OneWorker
  DEF Next, WorkerStep, Redirect, RunHandler, Restore, CollectLog, Ended, vars, workerVars

LEMMA CarriedNext ==
  TypeInv /\ TypeInv' /\ IssuedInv /\ CarriedInv /\ [Next]_vars => CarriedInv'
<1> SUFFICES ASSUME TypeInv, TypeInv', IssuedInv, CarriedInv, [Next]_vars
             PROVE  CarriedInv'
  OBVIOUS
<1>1. CASE Reload
  <2>1. InFlight' = InFlight
    BY <1>1 DEF Reload, InFlight, workerVars
  <2>2. AnswersMatch'
    BY <1>1 DEF Reload, AnswersMatch, Settled
  <2> QED
    BY <1>1, <2>1, <2>2 DEF Reload, CarriedInv
<1>2. CASE ~Reload
  <2>1. page' = page /\ carried' = carried
    BY <1>2
    DEF Next, MakeCall, OnMessage, Deliver, MoveWindow, LoseAnswer, CloseWindow,
        SaveSettings, DestroyMember, WorkerStep, TakeTask, Redirect, RunHandler, Restore,
        CollectLog, CollectThrows, DumpThrows, Throws, Settle, PostFails, Ended, vars,
        pageVars
  <2>2. \A c \in InFlight' \ {NoCall} : c.page = page' \/ c.seq \in carried'
    BY <2>1, InFlightComes DEF CarriedInv
  <2>3. AnswersMatch'
    <3>1. CASE Deliver
      <4> DEFINE a == Head(posted)
      <4>1. a \in Range(posted) /\ a \in Answer
        BY <3>1, RangeOfTail, HeadTailProperties DEF Deliver, TypeInv, TypeOK
      <4>2. a.call \in InFlight \ {NoCall}
        <5>1. a.call \in InFlight
          BY <4>1, InFlightIs DEF TypeInv, TypeOK
        <5>2. a.call.seq # NoCall.seq
          BY <4>1 DEF Answer, Call, NoCall, Seqs
        <5> QED
          BY <5>1, <5>2
      <4>3. \A s \in Seqs : Settled(s)' =>
              \/ Settled(s) /\ reply'[s] = reply[s]
              \/ s = a.call.seq /\ reply'[s] = a
        BY <3>1 DEF Deliver, EntryOf, Settled, TypeInv, TypeOK
      <4> HIDE DEF a
      <4> QED
        BY <2>1, <4>2, <4>3 DEF CarriedInv, AnswersMatch
    <3>2. ASSUME NEW m \in PageMethods, MakeCall(m) PROVE AnswersMatch'
      <4>1. \A s \in Seqs : Settled(s)' => Settled(s) /\ reply'[s] = reply[s]
        BY <3>2 DEF MakeCall, Settled, TypeInv, TypeOK
      <4> QED
        BY <2>1, <4>1 DEF CarriedInv, AnswersMatch
    <3>3. CASE UNCHANGED <<promise, reply>>
      BY <2>1, <3>3 DEF CarriedInv, AnswersMatch, Settled
    <3> QED
      BY <1>2, <3>1, <3>2, <3>3
      DEF Next, OnMessage, MoveWindow, LoseAnswer, CloseWindow, SaveSettings,
          DestroyMember, WorkerStep, TakeTask, Redirect, RunHandler, Restore, CollectLog,
          CollectThrows, DumpThrows, Throws, Settle, PostFails, Ended, vars, pageVars
  <2> QED
    BY <2>2, <2>3 DEF CarriedInv
<1> QED
  BY <1>1, <1>2

\* A promise gets the answer to its own call, whatever was lost or thrown
\* before; only a call that was under way when the page was loaded can take its
\* place (resolve finds a promise by number, and a new page counts from 1).
THEOREM AnswersAlwaysMatch == Spec => []AnswersMatch
<1>1. Init => IssuedInv /\ CarriedInv
  <2> SUFFICES ASSUME Init PROVE IssuedInv /\ CarriedInv
    OBVIOUS
  <2>1. InFlight = {NoCall}
    <3>1. posted \in Seq(Answer) /\ Range(<<>>) = {}
      BY EmptySeq DEF Init, Range
    <3> QED
      BY <3>1, InFlightIs, OneWorker DEF Init
  <2> QED
    BY <2>1 DEF Init, IssuedInv, CarriedInv, AnswersMatch, Settled
<1>2. TypeInv /\ TypeInv' /\ IssuedInv /\ CarriedInv /\ [Next]_vars
        => IssuedInv' /\ CarriedInv'
  BY IssuedNext, CarriedNext
<1>3. CarriedInv => AnswersMatch
  BY DEF CarriedInv
<1> QED
  BY <1>1, <1>2, <1>3, TypeCorrect, PTL DEF Spec

-----------------------------------------------------------------------------
(* No call is in two places.                                               *)

LEMMA InjectiveTail ==
  ASSUME NEW S, NEW s \in Seq(S), s # <<>>, IsInjective(s)
  PROVE  IsInjective(Tail(s)) /\ Head(s) \notin Range(Tail(s))
<1>1. Len(s) \in Nat /\ DOMAIN s = 1..Len(s) /\ Len(s) # 0
  OBVIOUS
<1>2. DOMAIN Tail(s) = 1..(Len(s) - 1) /\ \A i \in 1..(Len(s) - 1) : Tail(s)[i] = s[i + 1]
  BY <1>1
<1>3. Head(s) = s[1]
  OBVIOUS
<1>4. \A i, j \in 1..Len(s) : s[i] = s[j] => i = j
  BY <1>1 DEF IsInjective
<1>5. IsInjective(Tail(s))
  BY <1>1, <1>2, <1>4 DEF IsInjective
<1>6. Head(s) \notin Range(Tail(s))
  BY <1>1, <1>2, <1>3, <1>4 DEF Range
<1> QED
  BY <1>5, <1>6

LEMMA InjectiveAppend ==
  ASSUME NEW S, NEW s \in Seq(S), NEW e \in S, IsInjective(s), e \notin Range(s)
  PROVE  IsInjective(Append(s, e))
<1>1. Len(s) \in Nat /\ DOMAIN s = 1..Len(s) /\ DOMAIN Append(s, e) = 1..(Len(s) + 1)
  OBVIOUS
<1>2. \A i \in 1..(Len(s) + 1) : Append(s, e)[i] = IF i = Len(s) + 1 THEN e ELSE s[i]
  BY <1>1
<1>3. \A i, j \in 1..Len(s) : s[i] = s[j] => i = j
  BY <1>1 DEF IsInjective
<1>4. \A i \in 1..Len(s) : s[i] # e
  BY <1>1 DEF Range
<1> QED
  BY <1>1, <1>2, <1>3, <1>4 DEF IsInjective

\* The call of the running task, the calls whose tasks have ended.
Mine == IF pc[1] = "idle" THEN {} ELSE {job[1]}
Past == threw \cup {a.call : a \in Answers}
Open == Range(inbox) \cup Range(tasks) \cup Mine

\* The call was made: by an earlier page, or by this one.
Made(c) == c.page < page \/ (c.page = page /\ c.seq <= issued)

OnceInv ==
  /\ IsInjective(inbox) /\ IsInjective(tasks)
  /\ Range(inbox) \cap Range(tasks) = {}
  /\ Mine \cap (Range(inbox) \cup Range(tasks)) = {}
  /\ Past \cap Open = {}
  /\ \A c \in Past \cup Open : Made(c)

LEMMA NumbersTyped ==
  ASSUME TypeInv
  PROVE  \A c \in Past \cup Open : c.page \in Nat /\ c.seq \in Nat
<1>1. \A c \in Call : c.page \in Nat /\ c.seq \in Nat
  BY BridgeAssumption DEF BridgeAssumption, Call, Seqs
<1>2. \A a \in Answer \cup {NoAnswer} : a.call.page \in Nat /\ a.call.seq \in Nat
  BY <1>1 DEF Answer, NoAnswer, NoCall
<1>3. Answers \subseteq Answer \cup {NoAnswer}
  BY DEF Answers, Range, TypeInv, TypeOK
<1>4. Range(inbox) \cup Range(tasks) \cup threw \subseteq Call
  BY DEF Range, TypeInv, TypeOK
<1>5. Mine \subseteq Call
  BY OneWorker DEF Mine, TypeInv, Busy
<1> QED
  BY <1>1, <1>2, <1>3, <1>4, <1>5 DEF Past, Open

\* Answers come from Settle only.
LEMMA AnswersCome ==
  ASSUME TypeInv, IssuedInv, [Next]_vars, ~Settle(1)
  PROVE  Answers' \subseteq Answers
<1>1. \A s \in Seqs : promise[s] \in {"none", "pending", "resolved", "rejected"}
  BY DEF TypeInv, TypeOK
<1>2. ASSUME NEW m \in PageMethods, MakeCall(m) PROVE Answers' \subseteq Answers
  <2>1. \A s \in Seqs : Settled(s)' => Settled(s)
    BY <1>2 DEF MakeCall, Settled, TypeInv, TypeOK
  <2> QED
    BY <1>2, <2>1 DEF MakeCall, Answers
<1>3. CASE Reload
  BY <1>3 DEF Reload, Answers, Settled
<1>4. CASE Deliver
  <2>1. Head(posted) \in Range(posted) /\ Range(posted') \subseteq Range(posted)
    BY <1>4, RangeOfTail DEF Deliver, TypeInv, TypeOK
  <2>2. \A s \in Seqs : Settled(s)' => (Settled(s) /\ reply'[s] = reply[s])
                                          \/ reply'[s] = Head(posted)
    BY <1>4 DEF Deliver, Settled, TypeInv, TypeOK
  <2> QED
    BY <2>1, <2>2 DEF Answers
<1>5. CASE CloseWindow
  <2>1. Range(posted') = {}
    BY <1>5 DEF CloseWindow, Range
  <2> QED
    BY <1>5, <2>1 DEF CloseWindow, pageVars, Answers, Settled
<1>6. CASE LoseAnswer
  <2>1. Range(posted') \subseteq Range(posted)
    BY <1>6, RangeOfTail DEF LoseAnswer, TypeInv, TypeOK
  <2> QED
    BY <1>6, <2>1 DEF LoseAnswer, Answers, Settled
<1>7. CASE UNCHANGED <<promise, reply, posted>>
  BY <1>7 DEF Answers, Settled
<1> QED
  BY <1>2, <1>3, <1>4, <1>5, <1>6, <1>7, OneWorker
  DEF Next, OnMessage, MoveWindow, SaveSettings, DestroyMember, WorkerStep, TakeTask,
      Redirect, RunHandler, Restore, CollectLog, CollectThrows, DumpThrows, Throws,
      PostFails, Ended, vars, pageVars

\* Settle adds the answer of the running task.
LEMMA SettleAnswers ==
  ASSUME TypeInv, Settle(1)
  PROVE  \A a \in Answers' : a \in Answers \/ (a.call = job[1] /\ a.log = lines[1])
<1> DEFINE new == [call |-> job[1], status |-> StatusOf(result[1]), log |-> lines[1]]
<1>1. new \in Answer /\ new.call = job[1] /\ new.log = lines[1]
  BY OneWorker DEF Settle, Answer, StatusOf, TypeInv, TypeOK, Busy
<1>2. posted' \in {posted, Append(posted, new)}
  BY DEF Settle, Posted
<1> HIDE DEF new
<1>3. Range(Append(posted, new)) = Range(posted) \cup {new}
  BY <1>1, RangeOfAppend DEF TypeInv, TypeOK
<1>4. Range(posted') \subseteq Range(posted) \cup {new}
  BY <1>2, <1>3
<1> QED
  BY <1>1, <1>4 DEF Settle, pageVars, Answers, Settled

\* A step after which no queue has more than before, and what has left the
\* worker has ended.
LEMMA OnceFrame ==
  ASSUME OnceInv, IsInjective(inbox'), IsInjective(tasks'),
         Range(inbox') \subseteq Range(inbox), Range(tasks') \subseteq Range(tasks),
         Mine' \subseteq Mine, Past' \subseteq Past \cup (Mine \ Mine'),
         UNCHANGED <<page, issued>>
  PROVE  OnceInv'
BY DEF OnceInv, Open, Made

LEMMA OnceNext == TypeInv /\ IssuedInv /\ OnceInv /\ [Next]_vars => OnceInv'
<1> SUFFICES ASSUME TypeInv, IssuedInv, OnceInv, [Next]_vars PROVE OnceInv'
  OBVIOUS
<1>a. /\ inbox \in Seq(Call) /\ tasks \in Seq(Call) /\ page \in Nat /\ issued \in Nat
      /\ pc \in [Workers -> {"idle", "taken", "redirected", "ran", "restored", "collected"}]
      /\ job \in [Workers -> Call \cup {NoCall}]
  BY BridgeAssumption DEF TypeInv, TypeOK, BridgeAssumption
<1>b. \A c \in Past \cup Open : c.page \in Nat /\ c.seq \in Nat
  BY NumbersTyped
<1>c. ~Settle(1) /\ threw' = threw => Past' \subseteq Past
  BY AnswersCome DEF Past
<1>d. IsInjective(inbox) /\ IsInjective(tasks)
  BY DEF OnceInv
<1>e. Settle(1) => pc' # pc
  BY <1>a, OneWorker DEF Settle, EndTask
<1>1. ASSUME NEW m \in PageMethods, MakeCall(m) PROVE OnceInv'
  <2> DEFINE new == [page |-> page, seq |-> issued + 1, method |-> m]
  <2>1. new \in Call /\ new.page = page /\ new.seq = issued + 1
    BY <1>1, CallTyped DEF MakeCall, TypeInv, TypeOK
  <2>2. inbox' = Append(inbox, new) /\ page' = page /\ issued' = issued + 1
    BY <1>1 DEF MakeCall
  <2>3. ~Made(new)
    BY <2>1, <1>a DEF Made
  <2> HIDE DEF new
  <2>4. new \notin Past \cup Open
    BY <2>3 DEF OnceInv
  <2>5. IsInjective(inbox')
    BY <2>1, <2>2, <2>4, <1>a, <1>d, InjectiveAppend DEF Open
  <2>6. Range(inbox') = Range(inbox) \cup {new}
    BY <2>1, <2>2, <1>a, RangeOfAppend
  <2>7. Past' \subseteq Past /\ Mine' = Mine /\ tasks' = tasks
    BY <1>1, <1>c, <1>e DEF MakeCall, Mine, workerVars
  <2>8. \A c \in Past \cup Open \cup {new} : Made(c)'
    BY <2>1, <2>2, <1>a, <1>b DEF OnceInv, Made
  <2>9. Open' = Open \cup {new}
    BY <2>6, <2>7 DEF Open
  <2>10. Range(inbox') \cap Range(tasks') = {} /\ Mine' \cap (Range(inbox') \cup Range(tasks')) = {}
    BY <2>4, <2>6, <2>7 DEF OnceInv, Open
  <2>11. Past' \cap Open' = {}
    BY <2>4, <2>7, <2>9 DEF OnceInv
  <2>12. \A c \in Past' \cup Open' : c.page < page' \/ (c.page = page' /\ c.seq <= issued')
    BY <2>7, <2>8, <2>9 DEF Made
  <2> QED
    BY <2>5, <2>7, <2>10, <2>11, <2>12, <1>d DEF OnceInv, Made
<1>2. CASE Reload
  <2>1. Past' \subseteq Past /\ Mine' = Mine /\ inbox' = inbox /\ tasks' = tasks
    BY <1>2, <1>c, <1>e DEF Reload, Mine, workerVars
  <2>2. \A c \in Past \cup Open : Made(c)'
    BY <1>2, <1>a, <1>b DEF Reload, OnceInv, Made
  <2> QED
    BY <2>1, <2>2 DEF OnceInv, Open
<1>3. CASE OnMessage
  <2>1. Range(inbox) = {Head(inbox)} \cup Range(inbox') /\ Head(inbox) \in Call
    BY <1>3, <1>a, HeadOrTail, HeadTailProperties DEF OnMessage
  <2>2. Range(tasks') = Range(tasks) \cup {Head(inbox)}
    BY <1>3, <1>a, <2>1, RangeOfAppend DEF OnMessage
  <2>3. IsInjective(inbox') /\ Head(inbox) \notin Range(inbox')
    BY <1>3, <1>a, <1>d, InjectiveTail DEF OnMessage
  <2>4. Head(inbox) \notin Range(tasks)
    BY <2>1 DEF OnceInv
  <2>5. IsInjective(tasks')
    BY <1>3, <1>a, <1>d, <2>1, <2>4, InjectiveAppend DEF OnMessage
  <2>6. Past' \subseteq Past /\ Mine' = Mine /\ UNCHANGED <<page, issued>>
    BY <1>3, <1>c, <1>e DEF OnMessage, Mine, workerVars, pageVars
  <2>7. Open' = Open
    BY <2>1, <2>2, <2>6 DEF Open
  <2>8. Range(inbox') \cap Range(tasks') = {} /\ Mine' \cap (Range(inbox') \cup Range(tasks')) = {}
    BY <2>1, <2>2, <2>3, <2>6 DEF OnceInv
  <2>9. Past' \cap Open' = {}
    BY <2>6, <2>7 DEF OnceInv
  <2>10. \A c \in Past' \cup Open' : c.page < page' \/ (c.page = page' /\ c.seq <= issued')
    BY <2>6, <2>7 DEF OnceInv, Made
  <2> QED
    BY <2>3, <2>5, <2>8, <2>9, <2>10 DEF OnceInv, Made
<1>4. CASE Deliver
  BY <1>4, <1>c, <1>d, <1>e, OnceFrame DEF Deliver, Mine, workerVars
<1>12. CASE LoseAnswer
  BY <1>12, <1>c, <1>d, <1>e, OnceFrame DEF LoseAnswer, Mine, workerVars
<1>5. CASE CloseWindow
  <2>1. Range(inbox') = {} /\ IsInjective(inbox')
    BY <1>5 DEF CloseWindow, Range, IsInjective
  <2> QED
    BY <1>5, <1>c, <1>d, <1>e, <2>1, OnceFrame DEF CloseWindow, Mine, workerVars, pageVars
<1>6. CASE DestroyMember
  <2>1. Range(tasks') \subseteq Range(tasks) /\ IsInjective(tasks')
    BY <1>6, <1>d DEF DestroyMember, Range, IsInjective
  <2> QED
    BY <1>6, <1>c, <1>d, <1>e, <2>1, OnceFrame
    DEF DestroyMember, Mine, workerVars, pageVars
<1>7. ASSUME TakeTask(1) PROVE OnceInv'
  <2>1. Range(tasks) = {Head(tasks)} \cup Range(tasks')
    BY <1>7, <1>a, HeadOrTail DEF TakeTask
  <2>2. IsInjective(tasks') /\ Head(tasks) \notin Range(tasks')
    BY <1>7, <1>a, <1>d, InjectiveTail DEF TakeTask
  <2>3. Mine = {} /\ Mine' = {Head(tasks)}
    BY <1>7, <1>a, OneWorker DEF TakeTask, Mine
  <2>4. Past' \subseteq Past /\ UNCHANGED <<page, issued, inbox>>
    BY <1>7, <1>a, <1>c, OneWorker DEF TakeTask, pageVars, Settle
  <2>5. Open' = Open
    BY <2>1, <2>3, <2>4 DEF Open
  <2> QED
    BY <2>1, <2>2, <2>3, <2>4, <2>5, <1>d DEF OnceInv, Open, Made
<1>8. ASSUME Redirect(1) \/ RunHandler(1) \/ Restore(1) \/ CollectLog(1) PROVE OnceInv'
  <2>1. Mine' = Mine
    BY <1>8, <1>a, OneWorker DEF Redirect, RunHandler, Restore, CollectLog, Mine
  <2>2. ~Settle(1) /\ UNCHANGED <<page, issued, inbox, tasks, threw>>
    BY <1>8, <1>a, OneWorker DEF Redirect, RunHandler, Restore, CollectLog, Settle, pageVars
  <2> QED
    BY <2>1, <2>2, <1>c, <1>d, OnceFrame
<1>9. ASSUME CollectThrows(1) \/ DumpThrows(1) \/ PostFails(1) PROVE OnceInv'
  <2>1. pc[1] # "idle" /\ EndTask(1) /\ UNCHANGED <<page, issued, inbox, tasks, promise,
          reply, posted>>
    BY <1>9 DEF CollectThrows, DumpThrows, Throws, PostFails, pageVars
  <2>2. Mine = {job[1]} /\ Mine' = {}
    BY <2>1, <1>a, OneWorker DEF EndTask, Mine
  <2>3. threw' \subseteq threw \cup {job[1]}
    BY <1>9 DEF CollectThrows, DumpThrows, Throws, PostFails
  <2>4. Past' \subseteq Past \cup {job[1]}
    BY <2>1, <2>3 DEF Past, Answers, Settled
  <2> QED
    BY <2>1, <2>2, <2>4, <1>d, OnceFrame
<1>10. ASSUME Settle(1) PROVE OnceInv'
  <2>1. Mine = {job[1]} /\ Mine' = {}
    BY <1>10, <1>a, OneWorker DEF Settle, EndTask, Mine
  <2>2. Past' \subseteq Past \cup {job[1]}
    BY <1>10, SettleAnswers DEF Settle, Past
  <2> QED
    BY <1>10, <2>1, <2>2, <1>d, OnceFrame DEF Settle, pageVars
<1>11. CASE MoveWindow \/ SaveSettings \/ UNCHANGED vars
  <2>1. UNCHANGED <<page, issued, inbox, tasks, pc, job, threw, promise, reply, posted>>
    BY <1>11 DEF MoveWindow, SaveSettings, vars, pageVars, workerVars
  <2>2. Mine' = Mine /\ Past' = Past
    BY <2>1 DEF Mine, Past, Answers, Settled
  <2> QED
    BY <2>1, <2>2, <1>d, OnceFrame
<1> QED
  BY <1>1, <1>2, <1>3, <1>4, <1>5, <1>6, <1>7, <1>8, <1>9, <1>10, <1>11, <1>12, OneWorker
  DEF Next, WorkerStep, Ended

-----------------------------------------------------------------------------
(* No line is in two places.                                               *)

LinesInv ==
  /\ LinesDeliveredOnce
  /\ \A a \in Answers : Range(a.log) \cap Range(log) = {}
  /\ pc[1] = "collected" =>
       /\ Range(lines[1]) \cap Range(log) = {}
       /\ \A a \in Answers : Range(a.log) \cap Range(lines[1]) = {}

\* A step that neither logs nor moves lines.
LEMMA LinesFrame ==
  ASSUME LinesInv, Answers' \subseteq Answers, log' = log,
         pc'[1] = "collected" => pc[1] = "collected" /\ lines'[1] = lines[1]
  PROVE  LinesInv'
BY DEF LinesInv, LinesDeliveredOnce

LEMMA LinesNext ==
  TypeInv /\ IssuedInv /\ StreamInv /\ OnceInv /\ LinesInv /\ [Next]_vars => LinesInv'
<1> SUFFICES ASSUME TypeInv, IssuedInv, StreamInv, OnceInv, LinesInv, [Next]_vars
             PROVE  LinesInv'
  OBVIOUS
<1>a. /\ pc \in [Workers -> {"idle", "taken", "redirected", "ran", "restored", "collected"}]
      /\ lines \in [Workers -> Seq(Call)] /\ log \in Seq(Call)
  BY DEF TypeInv, TypeOK
<1>b. ~Settle(1) => Answers' \subseteq Answers
  BY AnswersCome
<1>1. ASSUME RunHandler(1) PROVE LinesInv'
  <2>1. pc[1] = "redirected" /\ pc'[1] = "ran"
    BY <1>1, <1>a, OneWorker DEF RunHandler
  <2>2. Answers' \subseteq Answers
    BY <2>1, <1>b DEF Settle
  <2>3. Range(log') \subseteq Range(log) \cup {job[1]}
    <3>1. job[1] \in Call /\ job[1].method \in PageMethods
      BY <2>1, OneWorker DEF TypeInv, Busy, Call
    <3>2. PICK n \in LineCounts(job[1].method) :
            log' \in {log, log \o [i \in 1..n |-> job[1]]}
      BY <1>1 DEF RunHandler
    <3>3. n \in Nat
      BY <3>1, LineCountNat
    <3>4. Range(log \o [i \in 1..n |-> job[1]]) \subseteq Range(log) \cup {job[1]}
      BY <3>1, <3>3, <1>a, LoggedTyped
    <3> QED
      BY <3>2, <3>4
  <2>4. job[1] \notin Past
    BY <2>1 DEF OnceInv, Open, Mine
  <2>5. \A a \in Answers : Own(a)
    BY DEF StreamInv, AnswerInv, Answers
  <2>6. \A a \in Answers : Range(a.log) \subseteq Past
    BY <2>5 DEF Own, Past, LeftBehind
  <2>7. \A a \in Answers' : Range(a.log) \cap Range(log') = {}
    BY <2>2, <2>3, <2>4, <2>6 DEF LinesInv
  <2> QED
    BY <2>1, <2>2, <2>7 DEF LinesInv, LinesDeliveredOnce
<1>2. ASSUME CollectLog(1) PROVE LinesInv'
  <2>1. lines'[1] = log /\ Range(log') = {}
    BY <1>2, <1>a, OneWorker DEF CollectLog, EmptyLog, Range
  <2>2. Answers' \subseteq Answers
    BY <1>2, <1>a, <1>b, OneWorker DEF Settle, CollectLog
  <2> QED
    BY <2>1, <2>2 DEF LinesInv, LinesDeliveredOnce
<1>3. ASSUME Settle(1) PROVE LinesInv'
  <2>1. pc[1] = "collected" /\ pc'[1] = "idle" /\ log' = log
    BY <1>3, <1>a, OneWorker DEF Settle, EndTask, streamVars
  <2>2. \A a \in Answers' : a \in Answers \/ (a.call = job[1] /\ a.log = lines[1])
    BY <1>3, SettleAnswers
  <2>3. LinesDeliveredOnce'
    BY <2>1, <2>2 DEF LinesInv, LinesDeliveredOnce
  <2>4. \A a \in Answers' : Range(a.log) \cap Range(log') = {}
    BY <2>1, <2>2 DEF LinesInv
  <2> QED
    BY <2>1, <2>3, <2>4 DEF LinesInv
<1>4. ASSUME TakeTask(1) \/ Redirect(1) \/ Restore(1) \/ CollectThrows(1) PROVE LinesInv'
  <2>1. pc[1] # "collected" /\ pc'[1] # "collected" /\ log' = log
    BY <1>4, <1>a, OneWorker
    DEF TakeTask, Redirect, Restore, CollectThrows, Throws, EndTask, streamVars
  <2> QED
    BY <2>1, <1>b, LinesFrame DEF Settle
<1>7. ASSUME DumpThrows(1) \/ PostFails(1) PROVE LinesInv'
  <2>1. pc'[1] = "idle" /\ UNCHANGED <<promise, reply, posted, log>>
    BY <1>7, <1>a, OneWorker
    DEF DumpThrows, Throws, PostFails, EndTask, pageVars, streamVars
  <2>2. Answers' \subseteq Answers
    BY <2>1 DEF Answers, Settled
  <2> QED
    BY <2>1, <2>2, LinesFrame
<1>5. ASSUME UNCHANGED <<pc, lines, log>>, ~Settle(1) PROVE LinesInv'
  BY <1>5, <1>b, LinesFrame
<1>6. Settle(1) => pc'[1] # pc[1]
  BY <1>a, OneWorker DEF Settle, EndTask
<1> QED
  BY <1>1, <1>2, <1>3, <1>4, <1>5, <1>6, <1>7, OneWorker
  DEF Next, MakeCall, Reload, OnMessage, Deliver, MoveWindow, LoseAnswer, CloseWindow,
      SaveSettings, DestroyMember, WorkerStep, Ended, vars, workerVars, streamVars

\* No line is shown twice, in whatever order calls, reloads, tasks that throw
\* and lost answers come (log_stream.str("") after the lines were copied).
THEOREM LinesAreDeliveredOnce == Spec => []LinesDeliveredOnce
<1>1. Init => IssuedInv /\ OnceInv /\ LinesInv
  <2> SUFFICES ASSUME Init PROVE IssuedInv /\ OnceInv /\ LinesInv
    OBVIOUS
  <2>1. Range(<<>>) = {} /\ IsInjective(<<>>)
    BY DEF Range, IsInjective
  <2>2. Answers = {} /\ Mine = {} /\ threw = {} /\ pc[1] = "idle"
    BY <2>1, OneWorker DEF Init, Answers, Settled, Mine
  <2> QED
    BY <2>1, <2>2
    DEF Init, IssuedInv, OnceInv, LinesInv, LinesDeliveredOnce, Past, Open
<1>2. TypeInv /\ StreamInv /\ IssuedInv /\ OnceInv /\ LinesInv /\ [Next]_vars
        => IssuedInv' /\ OnceInv' /\ LinesInv'
  BY IssuedNext, OnceNext, LinesNext
<1>3. LinesInv => LinesDeliveredOnce
  BY DEF LinesInv
<1> QED
  BY <1>1, <1>2, <1>3, TypeCorrect, StreamsFollowWorker, PTL DEF Spec

-----------------------------------------------------------------------------
(* Queues read one after the other.                                        *)

\* Moving the head of one queue to the end of the one before it changes
\* nothing in the queue they make together.
LEMMA MoveHead ==
  ASSUME NEW S, NEW s \in Seq(S), NEW t \in Seq(S), t # <<>>
  PROVE  Append(s, Head(t)) \o Tail(t) = s \o t
<1>1. Head(t) \in S /\ Tail(t) \in Seq(S)
  BY HeadTailProperties
<1>2. Append(s, Head(t)) \in Seq(S)
  BY <1>1, AppendProperties
<1> DEFINE a == Append(s, Head(t))
<1>3. /\ a \o Tail(t) \in Seq(S)
      /\ Len(a \o Tail(t)) = Len(a) + Len(Tail(t))
      /\ \A i \in 1..Len(a) + Len(Tail(t)) :
           (a \o Tail(t))[i] = IF i <= Len(a) THEN a[i] ELSE Tail(t)[i - Len(a)]
  BY <1>1, <1>2, ConcatProperties
<1>4. /\ s \o t \in Seq(S)
      /\ Len(s \o t) = Len(s) + Len(t)
      /\ \A i \in 1..Len(s) + Len(t) :
           (s \o t)[i] = IF i <= Len(s) THEN s[i] ELSE t[i - Len(s)]
  BY ConcatProperties
<1>5. /\ Len(a) = Len(s) + 1
      /\ \A i \in 1..Len(s) : a[i] = s[i]
      /\ a[Len(s) + 1] = Head(t)
  BY <1>1, AppendProperties
<1>6. /\ Len(s) \in Nat
      /\ Len(t) \in Nat \ {0}
      /\ Len(Tail(t)) = Len(t) - 1
      /\ \A i \in 1..Len(Tail(t)) : Tail(t)[i] = t[i + 1]
      /\ Head(t) = t[1]
  BY HeadTailProperties, LenProperties, EmptySeq
<1> HIDE DEF a
<1>7. Len(a \o Tail(t)) = Len(s \o t)
  BY <1>3, <1>4, <1>5, <1>6
<1>8. ASSUME NEW i \in 1..Len(a \o Tail(t))
      PROVE  (a \o Tail(t))[i] = (s \o t)[i]
  <2>1. i \in 1..(Len(s) + Len(t)) /\ i \in 1..(Len(a) + Len(Tail(t)))
    BY <1>3, <1>4, <1>7
  <2>2. CASE i <= Len(s)
    BY <2>1, <2>2, <1>3, <1>4, <1>5, <1>6
  <2>3. CASE i = Len(s) + 1
    BY <2>1, <2>3, <1>3, <1>4, <1>5, <1>6
  <2>4. CASE i > Len(s) + 1
    <3>1. i - Len(a) \in 1..Len(Tail(t)) /\ (i - Len(a)) + 1 = i - Len(s)
      BY <2>1, <2>4, <1>5, <1>6
    <3> QED
      BY <2>1, <2>4, <3>1, <1>3, <1>4, <1>5, <1>6
  <2> QED
    BY <2>1, <2>2, <2>3, <2>4, <1>6
<1> QED
  BY <1>3, <1>4, <1>7, <1>8, SeqEqual DEF a

LEMMA HeadOfConcat ==
  ASSUME NEW S, NEW e \in S, NEW t \in Seq(S)
  PROVE  <<e>> \o t # <<>> /\ Head(<<e>> \o t) = e /\ Tail(<<e>> \o t) = t
<1> DEFINE q == <<e>> \o t
<1>1. <<e>> \in Seq(S) /\ Len(<<e>>) = 1 /\ <<e>>[1] = e
  OBVIOUS
<1>2. /\ q \in Seq(S)
      /\ Len(q) = 1 + Len(t)
      /\ \A i \in 1..1 + Len(t) : q[i] = IF i <= 1 THEN e ELSE t[i - 1]
  BY <1>1, ConcatProperties
<1>3. Len(t) \in Nat
  BY LenProperties
<1> HIDE DEF q
<1>4. q # <<>> /\ Head(q) = e
  BY <1>2, <1>3
<1>5. /\ Tail(q) \in Seq(S)
      /\ Len(Tail(q)) = Len(t)
      /\ \A i \in 1..Len(t) : Tail(q)[i] = q[i + 1]
  BY <1>2, <1>3, <1>4, HeadTailProperties
<1>6. \A i \in 1..Len(t) : Tail(q)[i] = t[i]
  BY <1>2, <1>3, <1>5
<1>7. Tail(q) = t
  BY <1>5, <1>6, SeqEqual
<1> QED
  BY <1>4, <1>7 DEF q

-----------------------------------------------------------------------------
(* The queue of calls.                                                     *)

LEMMA QueuesTyped ==
  ASSUME TypeInv
  PROVE  /\ Working \in Seq(Call)
         /\ tasks \in Seq(Call)
         /\ inbox \in Seq(Call)
         /\ posted \in Seq(Answer)
         /\ Working \o tasks \in Seq(Call)
<1>1. Working \in Seq(Call)
  BY OneWorker, EmptySeq DEF Working, TypeInv, Busy
<1> QED
  BY <1>1, ConcatProperties DEF TypeInv, TypeOK

\* A step that touches none of the queues is no step of CallOrder.
LEMMA Stutters ==
  ASSUME UNCHANGED <<tasks, inbox, posted, main>>, Working' = Working
  PROVE  UNCHANGED CO!vars
  BY DEF CO!vars, Todo, Done

\* Once the window is closed CallOrder has nothing left to do.
LEMMA ClosedStutters ==
  ASSUME main # "loop", main' # "loop"
  PROVE  UNCHANGED CO!vars
  BY DEF CO!vars, Todo, Done

LEMMA MakeCallIssues ==
  ASSUME TypeInv, NEW m \in PageMethods, MakeCall(m)
  PROVE  \E b \in {<<c>> : c \in Call} : CO!Issue(b)
<1> DEFINE c == [page |-> page, seq |-> issued + 1, method |-> m]
<1>1. c \in Call
  BY CallTyped DEF TypeInv, TypeOK, MakeCall
<1>2. /\ main = "loop" /\ main' = "loop"
      /\ inbox' = Append(inbox, c)
      /\ tasks' = tasks /\ posted' = posted /\ Working' = Working
  BY DEF MakeCall, workerVars, Working
<1> HIDE DEF c
<1>3. inbox' = inbox \o <<c>> /\ <<c>> \in Seq(Call)
  BY <1>1, <1>2, QueuesTyped, AppendIsConcat
<1>4. Todo' = Todo \o <<c>>
  BY <1>2, <1>3, QueuesTyped, ConcatAssociative DEF Todo
<1>5. Done' = Done
  BY <1>2 DEF Done
<1> QED
  BY <1>1, <1>2, <1>4, <1>5 DEF CO!Issue

LEMMA OnMessageStutters ==
  ASSUME TypeInv, OnMessage
  PROVE  UNCHANGED CO!vars
<1>1. /\ main = "loop" /\ main' = "loop" /\ posted' = posted
      /\ inbox # <<>> /\ inbox' = Tail(inbox)
      /\ tasks' = Append(tasks, Head(inbox)) /\ Working' = Working
  BY DEF OnMessage, workerVars, Working
<1>2. Head(inbox) \in Call /\ <<Head(inbox)>> \in Seq(Call)
  BY <1>1, QueuesTyped, HeadTailProperties
<1>3. Working \o Append(tasks, Head(inbox)) =
        Append(Working \o tasks, Head(inbox))
  BY <1>2, QueuesTyped, AppendIsConcat, ConcatAssociative
<1>4. Todo' = Todo
  BY <1>1, <1>3, QueuesTyped, MoveHead DEF Todo
<1>5. Done' = Done
  BY <1>1 DEF Done
<1> QED
  BY <1>1, <1>4, <1>5 DEF CO!vars

LEMMA TakeTaskStutters ==
  ASSUME TypeInv, TakeTask(1)
  PROVE  UNCHANGED CO!vars
<1>1. /\ main' = main /\ posted' = posted /\ inbox' = inbox
      /\ tasks # <<>> /\ tasks' = Tail(tasks)
      /\ Working = <<>> /\ Working' = <<Head(tasks)>>
  BY OneWorker DEF TakeTask, Working, TypeInv, TypeOK
<1>2. Append(<<>>, Head(tasks)) = <<Head(tasks)>>
  OBVIOUS
<1>3. <<>> \in Seq(Call)
  BY EmptySeq
<1>4. <<Head(tasks)>> \o Tail(tasks) = <<>> \o tasks
  BY <1>1, <1>2, <1>3, QueuesTyped, MoveHead
<1>5. Working' \o tasks' = Working \o tasks
  BY <1>1, <1>4
<1> QED
  BY <1>1, <1>5 DEF CO!vars, Todo, Done

\* The end of a task takes its call off the queue.
LEMMA EndTaskTakesOff ==
  ASSUME TypeInv, pc[1] # "idle", EndTask(1), UNCHANGED <<tasks, inbox>>,
         main = "loop"
  PROVE  /\ Todo # <<>>
         /\ Head(Todo) = job[1]
         /\ main' = "loop" => Todo' = Tail(Todo)
<1>1. job[1] \in Call /\ <<job[1]>> \in Seq(Call)
  BY OneWorker DEF TypeInv, Busy
<1>2. Working = <<job[1]>> /\ Working' = <<>>
  BY OneWorker DEF Working, EndTask, TypeInv, TypeOK
<1>3. tasks \o inbox \in Seq(Call)
  BY QueuesTyped, ConcatProperties
<1>4. Todo = <<job[1]>> \o (tasks \o inbox)
  BY <1>1, <1>2, QueuesTyped, ConcatAssociative DEF Todo
<1>5. main' = "loop" => Todo' = tasks \o inbox
  BY <1>2, QueuesTyped, ConcatEmptySeq DEF Todo
<1> QED
  BY <1>1, <1>3, <1>4, <1>5, HeadOfConcat

\* The end of a task that is not answered.
LEMMA UnansweredFails ==
  ASSUME TypeInv, CollectThrows(1) \/ DumpThrows(1) \/ PostFails(1)
  PROVE  CO!Fail \/ CO!Close \/ UNCHANGED CO!vars
<1>1. /\ pc[1] # "idle" /\ EndTask(1) /\ UNCHANGED <<tasks, inbox, posted>>
      /\ main' \in {main, "aborted"}
  BY DEF CollectThrows, DumpThrows, Throws, PostFails
<1>2. CASE main # "loop"
  BY <1>1, <1>2, ClosedStutters
<1>3. CASE main = "loop" /\ main' = "loop"
  <2>1. Todo # <<>> /\ Todo' = Tail(Todo)
    BY <1>1, <1>3, EndTaskTakesOff
  <2>2. Done' = Done
    BY <1>1, <1>3 DEF Done
  <2> QED
    BY <1>3, <2>1, <2>2 DEF CO!Fail
<1>4. CASE main = "loop" /\ main' = "aborted"
  <2>1. Todo' = <<>> /\ Done' = <<>>
    BY <1>4 DEF Todo, Done
  <2> QED
    BY <1>4, <2>1 DEF CO!Close
<1> QED
  BY <1>1, <1>2, <1>3, <1>4

LEMMA SettleIsAnswer ==
  ASSUME TypeInv, Settle(1)
  PROVE  (\E d \in {"resolved", "rejected"} : CO!Answer(d)) \/ UNCHANGED CO!vars
<1> DEFINE d == StatusOf(result[1])
           a == [call |-> job[1], status |-> d, log |-> lines[1]]
<1>1. /\ pc[1] # "idle" /\ EndTask(1) /\ UNCHANGED <<tasks, inbox, main>>
  BY DEF Settle
<1>2. CASE main # "loop"
  BY <1>1, <1>2, ClosedStutters
<1>3. CASE main = "loop"
  <2>1. posted' = Append(posted, a)
    BY <1>3 DEF Settle, Posted
  <2>2. a \in Answer /\ d \in {"resolved", "rejected"}
    BY <1>1, OneWorker DEF Answer, StatusOf, TypeInv, TypeOK, Busy
  <2>3. /\ Todo # <<>> /\ Head(Todo) = job[1]
        /\ Todo' = Tail(Todo)
    BY <1>1, <1>3, EndTaskTakesOff
  <2>4. a.call = job[1] /\ a.status = d
    OBVIOUS
  <2> HIDE DEF a, d
  <2>5. Done' = Append(Done, [call |-> job[1], data |-> d])
    <3>1. posted \in Seq(Answer)
      BY QueuesTyped
    <3>2. /\ Len(posted') = Len(posted) + 1 /\ Len(posted) \in Nat
          /\ posted' \in Seq(Answer)
          /\ DOMAIN posted = 1..Len(posted)
          /\ DOMAIN posted' = 1..(Len(posted) + 1)
          /\ \A i \in 1..Len(posted) : posted'[i] = posted[i]
          /\ posted'[Len(posted) + 1] = a
      BY <2>1, <2>2, <3>1, AppendProperties, LenProperties
    <3>3. Done' = [i \in DOMAIN posted' |->
                     [call |-> posted'[i].call, data |-> posted'[i].status]]
      BY <1>1, <1>3 DEF Done
    <3>4. Done = [i \in DOMAIN posted |->
                     [call |-> posted[i].call, data |-> posted[i].status]]
      BY <1>3 DEF Done
    <3> QED
      BY <2>4, <3>2, <3>3, <3>4
  <2> QED
    BY <1>1, <1>3, <2>2, <2>3, <2>5 DEF CO!Answer
<1> QED
  BY <1>2, <1>3

\* Taking the first answer off the thread's messages takes it off Done.
LEMMA DoneTail ==
  ASSUME TypeInv, main = "loop", main' = "loop",
         posted # <<>>, posted' = Tail(posted)
  PROVE  Done # <<>> /\ Done' = Tail(Done)
<1> DEFINE pair(x) == [call |-> x.call, data |-> x.status]
           S == {pair(x) : x \in Answer}
<1>3. Done = [i \in DOMAIN posted |-> pair(posted[i])]
  BY DEF Done
<1>4. Done' = [i \in DOMAIN Tail(posted) |-> pair(Tail(posted)[i])]
  BY DEF Done
<1>5. /\ posted \in Seq(Answer)
      /\ Len(posted) \in Nat \ {0}
      /\ DOMAIN posted = 1..Len(posted)
      /\ \A i \in 1..Len(posted) : posted[i] \in Answer
  BY QueuesTyped, EmptySeq, LenProperties, ElementOfSeq
<1>6. /\ Tail(posted) \in Seq(Answer)
      /\ Len(Tail(posted)) = Len(posted) - 1
      /\ DOMAIN Tail(posted) = 1..(Len(posted) - 1)
      /\ \A i \in 1..(Len(posted) - 1) : Tail(posted)[i] = posted[i + 1]
  BY <1>5, HeadTailProperties, LenProperties
<1>7. \A i \in 1..Len(posted) : pair(posted[i]) \in S
  BY <1>5
<1> HIDE DEF pair, S
<1>8. Done \in Seq(S) /\ Len(Done) = Len(posted)
  <2>1. Done \in [1..Len(posted) -> S]
    BY <1>3, <1>5, <1>7
  <2> QED
    BY <2>1, <1>5, LenProperties, SeqDef
<1>9. /\ Done # <<>>
      /\ Tail(Done) \in Seq(S)
      /\ Len(Tail(Done)) = Len(posted) - 1
      /\ \A i \in 1..(Len(posted) - 1) : Tail(Done)[i] = Done[i + 1]
  <2>1. Done # <<>>
    BY <1>5, <1>8, EmptySeq
  <2> QED
    BY <2>1, <1>8, HeadTailProperties
<1>10. Tail(Done) = Done'
  <2>1. DOMAIN Tail(Done) = 1..(Len(posted) - 1)
    BY <1>9, LenProperties
  <2>2. Tail(Done) = [i \in 1..(Len(posted) - 1) |-> Tail(Done)[i]]
    BY <1>9, <2>1, LenProperties
  <2>3. \A i \in 1..(Len(posted) - 1) : Tail(Done)[i] = pair(Tail(posted)[i])
    <3> TAKE i \in 1..(Len(posted) - 1)
    <3>1. i + 1 \in 1..Len(posted)
      BY <1>5
    <3> QED
      BY <1>3, <1>5, <1>6, <1>9, <3>1
  <2> QED
    BY <1>4, <1>6, <2>2, <2>3
<1> QED
  BY <1>9, <1>10

LEMMA DeliverHands ==
  ASSUME TypeInv, Deliver
  PROVE  CO!Hand(<<>>)
<1>1. /\ main = "loop" /\ main' = "loop"
      /\ posted # <<>> /\ posted' = Tail(posted)
      /\ UNCHANGED <<tasks, inbox>> /\ Working' = Working
  BY DEF Deliver, workerVars, Working
<1>2. Todo' = Todo /\ Todo' = Todo \o <<>>
  <2>1. Todo' = Todo
    BY <1>1 DEF Todo
  <2>2. Todo \in Seq(Call)
    BY <1>1, QueuesTyped, ConcatProperties DEF Todo
  <2> QED
    BY <2>1, <2>2, ConcatEmptySeq
<1> QED
  BY <1>1, <1>2, DoneTail DEF CO!Hand

LEMMA LoseAnswerLoses ==
  ASSUME TypeInv, LoseAnswer
  PROVE  CO!Lose
<1>1. /\ main = "loop" /\ main' = "loop"
      /\ posted # <<>> /\ posted' = Tail(posted)
      /\ UNCHANGED <<tasks, inbox>> /\ Working' = Working
  BY DEF LoseAnswer, workerVars, Working
<1>2. Todo' = Todo
  BY <1>1 DEF Todo
<1> QED
  BY <1>1, <1>2, DoneTail DEF CO!Lose

-----------------------------------------------------------------------------
(* The refinement.                                                         *)

LEMMA RefinesInit == Init => CO!Init
<1> SUFFICES ASSUME Init PROVE CO!Init
  OBVIOUS
<1>1. Working = <<>> /\ tasks = <<>> /\ inbox = <<>> /\ posted = <<>>
      /\ main = "loop"
  BY OneWorker DEF Init, Working
<1>2. Todo = <<>>
  BY <1>1, EmptySeq, ConcatEmptySeq DEF Todo
<1>3. Done = <<>>
  BY <1>1 DEF Done
<1> QED
  BY <1>1, <1>2, <1>3 DEF CO!Init

LEMMA RefinesNext == TypeInv /\ [Next]_vars => [CO!Next]_CO!vars
<1> SUFFICES ASSUME TypeInv, [Next]_vars
             PROVE  CO!Next \/ UNCHANGED CO!vars
  OBVIOUS
<1>1. ASSUME NEW m \in PageMethods, MakeCall(m) PROVE CO!Next
  BY <1>1, MakeCallIssues DEF CO!Next
<1>2. CASE Reload \/ MoveWindow
  BY <1>2, Stutters DEF Reload, MoveWindow, workerVars, Working
<1>3. CASE OnMessage
  BY <1>3, OnMessageStutters
<1>4. CASE Deliver
  BY <1>4, DeliverHands DEF CO!Next
<1>5. CASE CloseWindow
  <2>1. Todo' = <<>> /\ Done' = <<>>
    BY <1>5 DEF CloseWindow, Todo, Done
  <2>2. CO!Close
    BY <1>5, <2>1 DEF CloseWindow, CO!Close
  <2> QED
    BY <2>2 DEF CO!Next
<1>6. CASE SaveSettings
  BY <1>6, ClosedStutters DEF SaveSettings
<1>7. CASE DestroyMember
  BY <1>7, ClosedStutters DEF DestroyMember
<1>8. ASSUME TakeTask(1) PROVE UNCHANGED CO!vars
  BY <1>8, TakeTaskStutters
<1>9. ASSUME Redirect(1) \/ RunHandler(1) \/ Restore(1) \/ CollectLog(1)
      PROVE  UNCHANGED CO!vars
  <2>1. UNCHANGED <<tasks, inbox, posted, main>>
    BY <1>9 DEF Redirect, RunHandler, Restore, CollectLog
  <2>2. pc[1] # "idle" /\ pc'[1] # "idle" /\ job' = job
    BY <1>9, OneWorker
    DEF Redirect, RunHandler, Restore, CollectLog, TypeInv, TypeOK
  <2> QED
    BY <2>1, <2>2, Stutters DEF Working
<1>10. ASSUME CollectThrows(1) \/ DumpThrows(1) \/ PostFails(1)
       PROVE  CO!Next \/ UNCHANGED CO!vars
  BY <1>10, UnansweredFails DEF CO!Next
<1>11. ASSUME Settle(1) PROVE CO!Next \/ UNCHANGED CO!vars
  BY <1>11, SettleIsAnswer DEF CO!Next
<1>12. CASE LoseAnswer
  BY <1>12, LoseAnswerLoses DEF CO!Next
<1>13. CASE UNCHANGED vars
  BY <1>13, Stutters DEF vars, Working
<1> QED
  BY <1>1, <1>2, <1>3, <1>4, <1>5, <1>6, <1>7, <1>8, <1>9, <1>10, <1>11,
     <1>12, <1>13, OneWorker
  DEF Next, WorkerStep, Ended

\* The page, the message loop, the dispatcher and HandlerWrapper's tasks,
\* together, run the calls one by one in the order they were made and hand
\* over the answers in that order.
THEOREM ServedInOrder == Spec => ServesInOrder
<1>1. Init => CO!Init
  BY RefinesInit
<1>2. TypeInv /\ [Next]_vars => [CO!Next]_CO!vars
  BY RefinesNext
<1> QED
  BY <1>1, <1>2, TypeCorrect, PTL DEF Spec, ServesInOrder, CO!Spec
=============================================================================
