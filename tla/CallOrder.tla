----------------------------- MODULE CallOrder ------------------------------
(***************************************************************************)
(* What the page may expect of the application: calls are run one at a     *)
(* time in the order they were made, and their answers are handed to the   *)
(* page in that order.  A call is answered at most once, and it may not be *)
(* answered at all: its task throws, or its answer is lost on its way.     *)
(* When the window is closed, or the process terminated, calls and answers *)
(* are gone.                                                               *)
(*                                                                         *)
(* TaskBridge implements this specification; Client is a page that uses it.*)
(***************************************************************************)
EXTENDS Sequences

CONSTANTS
  Batches,   \* sequences of calls the page may make in one step
  Data       \* what an answer may say

VARIABLES
  todo,   \* calls that have been made and not yet run
  done,   \* answers on their way to the page
  open    \* the window is open

vars == <<todo, done, open>>

Init ==
  /\ todo \in Batches \cup {<<>>}
  /\ done = <<>>
  /\ open = TRUE

\* The page calls bound functions.
Issue(calls) ==
  /\ open
  /\ todo' = todo \o calls
  /\ UNCHANGED <<done, open>>

\* The oldest call is run and answered.
Answer(d) ==
  /\ open
  /\ todo # <<>>
  /\ todo' = Tail(todo)
  /\ done' = Append(done, [call |-> Head(todo), data |-> d])
  /\ UNCHANGED open

\* The oldest call is run without an answer: its task throws, or the answer
\* cannot be posted.
Fail ==
  /\ open
  /\ todo # <<>>
  /\ todo' = Tail(todo)
  /\ UNCHANGED <<done, open>>

\* The oldest answer settles its promise; the page may make calls on it.
Hand(calls) ==
  /\ open
  /\ done # <<>>
  /\ done' = Tail(done)
  /\ todo' = todo \o calls
  /\ UNCHANGED open

\* The oldest answer is lost: no promise is settled.
Lose ==
  /\ open
  /\ done # <<>>
  /\ done' = Tail(done)
  /\ UNCHANGED <<todo, open>>

Close ==
  /\ open
  /\ open' = FALSE
  /\ todo' = <<>>
  /\ done' = <<>>

Next ==
  \/ \E b \in Batches : Issue(b)
  \/ \E d \in Data : Answer(d)
  \/ Fail
  \/ \E b \in Batches \cup {<<>>} : Hand(b)
  \/ Lose
  \/ Close

Spec == Init /\ [][Next]_vars
=============================================================================
