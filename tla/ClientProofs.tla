---------------------------- MODULE ClientProofs ----------------------------
(***************************************************************************)
(* Proofs about Client, for any lists of resources and any number of       *)
(* clicks and edits.                                                       *)
(*                                                                         *)
(* The argument follows what is under way: the calls whose answers are on  *)
(* their way, then those that have not been run, in one sequence, Work.    *)
(* Running a call leaves Work as it is, handing an answer over takes its   *)
(* first, a click or a link of a chain adds at its end.  As long as no     *)
(* click interfered, Work has besides uploads nothing, one conversion, one *)
(* Refresh, or the two calls of getConf; once an answer other than an      *)
(* upload's has been lost (cut) it has no conversion and gets none before  *)
(* the next click.                                                         *)
(***************************************************************************)
EXTENDS Client, FiniteSetTheorems, SequenceTheorems, TLAPS

Answers == [call : Calls, data : Data]

WorkOf(d, t) ==
  [i \in 1..(Len(d) + Len(t)) |->
     IF i <= Len(d) THEN d[i].call ELSE t[i - Len(d)]]
Work == WorkOf(done, todo)

-----------------------------------------------------------------------------
(* The invariants.                                                         *)

Free(W) == \A j \in 1..Len(W) : W[j].method = "Upload"
Only(W, i) ==
  i \in 1..Len(W) /\ \A j \in 1..Len(W) : W[j].method = "Upload" <=> j # i
Pair(W, i, k) ==
  /\ i \in 1..Len(W) /\ k \in 1..Len(W) /\ i < k
  /\ \A j \in 1..Len(W) : W[j].method = "Upload" <=> j # i /\ j # k

\* A chain has nodes left, and a conversion takes the page's kind.
LinkInv ==
  \A j \in 1..Len(Work) :
    /\ Work[j].method \in Kinds \cup {"Upload"} => Work[j].rest # <<>>
    /\ Work[j].method \in Kinds => convertMethod \in Kinds

TypeInv == TypeOK /\ LinkInv

Agree == convertMethod = MethodOf(convert)
Asked == asked.nodes # {}
Marked(rest) == \A r \in asked.nodes : status[r] # "none" \/ r \in ToSet(rest)

Idle ==
  /\ Free(Work)
  /\ Agree
  /\ Asked => progress = 100 /\ Marked(<<>>)
  /\ ~Asked => progress = 0

\* The rest of a chain does not take the progress beyond the end.
RoomFor(p, rest, all) == p + Len(rest) * (100 \div Len(all)) <= 100

Chain(i) ==
  /\ Only(Work, i)
  /\ Work[i].method \in Kinds
  /\ Asked
  /\ Work[i].method = asked.kind
  /\ Work[i].method = convertMethod
  /\ i <= Len(done) => convert = convertMethod
  /\ nodes # <<>>
  /\ progress \in 0..99
  /\ RoomFor(progress, Work[i].rest, nodes)
  /\ Marked(Work[i].rest)

Refreshing(i) ==
  Only(Work, i) /\ Work[i].method = "Refresh" /\ ~Asked /\ progress = 0

Loading(i, k) ==
  /\ Pair(Work, i, k)
  /\ Work[i].method = "GetConf"
  /\ Work[k].method = "GetResourceNameAll"
  /\ ~Asked /\ progress = 0
  /\ i <= Len(done) => done[i].data.kind = convert

Listing(i) ==
  /\ Only(Work, i)
  /\ Work[i].method = "GetResourceNameAll"
  /\ ~Asked /\ progress = 0
  /\ Agree

\* What is under way, while the window is open and nothing interfered.
Stage ==
  \/ Idle
  \/ \E i \in 1..Len(Work) : Chain(i) \/ Refreshing(i) \/ Listing(i)
  \/ \E i, k \in 1..Len(Work) : Loading(i, k)

\* What is left when an answer was lost: the chain stands still.
Halted ==
  /\ progress \in 0..99
  /\ \A j \in 1..Len(Work) : Work[j].method \notin Kinds

StageInv ==
  /\ ~overlap => progress \in 0..100
  /\ open /\ ~overlap /\ ~cut => Stage
  /\ open /\ ~overlap /\ cut => Halted
  /\ ~open => todo = <<>> /\ done = <<>>

\* The page has the application's list, or will get it: a Refresh is under
\* way, a question for the list is still to be run, or was answered with it.
Fresh(a, l) ==
  \/ a.call.method = "Refresh"
  \/ a.call.method = "GetResourceNameAll" /\ a.data.list = l
Told(i, d, t, l) ==
  \/ \E j \in 1..Len(t) : t[j].method \in {"Refresh", "GetResourceNameAll"}
  \/ \E j \in 1..Len(d) : j > i /\ Fresh(d[j], l)
ListTold ==
  /\ nodes # list => Told(0, done, todo, list)
  /\ \A i \in 1..Len(done) :
       done[i].call.method = "GetResourceNameAll" /\ ~Fresh(done[i], list)
         => Told(i, done, todo, list)
ListInv == open /\ ~unlisted => ListTold

-----------------------------------------------------------------------------
(* Sequences.                                                              *)

LEMMA ListsTyped ==
  ASSUME NEW l \in Lists \cup {<<>>}
  PROVE  l \in Seq(Resources)
<1>1. CASE l = <<>>
  BY <1>1
<1>2. CASE l \in Lists
  <2>1. l \in Seq(ToSet(l))
    BY <1>2, ClientAssumption
  <2>2. ToSet(l) \subseteq Resources
    BY <1>2 DEF Resources
  <2> QED
    BY <2>1, <2>2, SeqMonotonic
<1> QED
  BY <1>1, <1>2

\* The checked keys are the checked nodes, none twice in the list if none is
\* in the tree.
LEMMA KeysOfChecks ==
  ASSUME nodes \in Seq(Resources), checked \subseteq ToSet(nodes)
  PROVE  /\ CheckedKeys \in Seq(Resources)
         /\ Len(CheckedKeys) <= Len(nodes)
         /\ checked \subseteq ToSet(CheckedKeys)
         /\ checked # {} => CheckedKeys # <<>>
<1> DEFINE P == {i \in DOMAIN nodes : nodes[i] \in checked}
           Upto(i) == {j \in P : j <= i}
           Rank(i) == Cardinality(Upto(i))
           n == Cardinality(P)
           At(k) == CHOOSE i \in P : Rank(i) = k
<1>0. CheckedKeys = [k \in 1..n |-> nodes[At(k)]]
  BY DEF CheckedKeys
<1>1. P \subseteq 1..Len(nodes) /\ Len(nodes) \in Nat
  OBVIOUS
<1>2. IsFiniteSet(P) /\ n \in Nat /\ n <= Len(nodes)
  <2>1. IsFiniteSet(1..Len(nodes)) /\ Cardinality(1..Len(nodes)) = Len(nodes)
    BY <1>1, FS_Interval
  <2>2. IsFiniteSet(P) /\ n <= Len(nodes)
    BY <1>1, <2>1, FS_Subset
  <2> QED
    BY <2>2, FS_CardinalityType
<1>3. ASSUME NEW i \in P
      PROVE  IsFiniteSet(Upto(i)) /\ Rank(i) \in 1..n /\ Rank(i) \in Int
  <2>1. Upto(i) \subseteq P /\ i \in Upto(i)
    BY <1>1
  <2>2. IsFiniteSet(Upto(i)) /\ Rank(i) <= n
    BY <1>2, <2>1, FS_Subset
  <2>3. Rank(i) \in Nat /\ Rank(i) # 0
    BY <2>1, <2>2, FS_CardinalityType, FS_EmptySet
  <2> QED
    BY <1>2, <2>2, <2>3
<1>4. ASSUME NEW i \in P, NEW j \in P, i < j
      PROVE  Rank(i) < Rank(j)
  <2>1. Upto(i) \subseteq Upto(j) /\ j \in Upto(j) /\ j \notin Upto(i)
    BY <1>1, <1>4
  <2>2. IsFiniteSet(Upto(j)) /\ Rank(i) \in Int /\ Rank(j) \in Int
    BY <1>3
  <2> HIDE DEF Upto
  <2>3. Rank(i) <= Rank(j) /\ (Rank(i) = Rank(j) => Upto(i) = Upto(j))
    BY <2>1, <2>2, FS_Subset
  <2> QED
    BY <2>1, <2>2, <2>3
<1>5. ASSUME NEW i \in P, NEW j \in P, Rank(i) = Rank(j)
      PROVE  i = j
  <2> HIDE DEF Rank
  <2>1. i \in Int /\ j \in Int
    BY <1>1
  <2>2. Rank(i) \in Int
    BY <1>3
  <2> QED
    BY <1>4, <1>5, <2>1, <2>2
<1>6. ASSUME NEW k \in 1..n
      PROVE  \E i \in P : Rank(i) = k
  <2> DEFINE f == [i \in P |-> Rank(i)]
  <2>1. IsFiniteSet(1..n) /\ Cardinality(1..n) = n
    BY <1>2, FS_Interval
  <2> HIDE DEF Rank
  <2>2. f \in Injection(P, 1..n)
    BY <1>3, <1>5 DEF Injection, IsInjective
  <2>3. f \in Surjection(P, 1..n)
    BY <2>1, <2>2, FS_Injection
  <2> QED
    BY <2>3 DEF Surjection
<1> HIDE DEF Rank
<1>7. ASSUME NEW k \in 1..n PROVE At(k) \in P /\ Rank(At(k)) = k
  BY <1>6
<1> HIDE DEF At
<1>8. ASSUME NEW i \in P PROVE CheckedKeys[Rank(i)] = nodes[i]
  <2>1. Rank(i) \in 1..n
    BY <1>3
  <2>2. At(Rank(i)) = i
    BY <1>5, <1>7, <2>1
  <2> QED
    BY <1>0, <2>1, <2>2
<1>9. CheckedKeys \in Seq(Resources) /\ Len(CheckedKeys) = n
  <2>1. \A k \in 1..n : nodes[At(k)] \in Resources
    BY <1>1, <1>7
  <2> HIDE DEF P, n
  <2> QED
    BY <1>0, <1>2, <2>1
<1>10. checked \subseteq ToSet(CheckedKeys)
  <2> SUFFICES ASSUME NEW r \in checked PROVE r \in ToSet(CheckedKeys)
    OBVIOUS
  <2>1. PICK i \in P : nodes[i] = r
    BY DEF ToSet
  <2>2. Rank(i) \in 1..n /\ CheckedKeys[Rank(i)] = r
    BY <1>3, <1>8, <2>1
  <2> QED
    BY <1>0, <2>2 DEF ToSet
<1>11. checked # {} => CheckedKeys # <<>>
  BY <1>10 DEF ToSet
<1> QED
  BY <1>2, <1>9, <1>10, <1>11

-----------------------------------------------------------------------------
(* What the actions of CallOrder do to Work.                               *)

LEMMA WorkTyped ==
  ASSUME NEW d \in Seq(Answers), NEW t \in Seq(Calls)
  PROVE  /\ Len(WorkOf(d, t)) = Len(d) + Len(t)
         /\ \A j \in 1..Len(WorkOf(d, t)) : WorkOf(d, t)[j] \in Calls
         /\ \A j \in 1..Len(d) : WorkOf(d, t)[j] = d[j].call
         /\ \A j \in 1..Len(t) : WorkOf(d, t)[Len(d) + j] = t[j]
<1> DEFINE W == WorkOf(d, t)
<1>1. DOMAIN W = 1..(Len(d) + Len(t)) /\ Len(W) = Len(d) + Len(t)
  BY DEF WorkOf
<1>2. \A j \in 1..Len(d) : W[j] = d[j].call
  BY DEF WorkOf
<1>3. \A j \in 1..Len(t) : W[Len(d) + j] = t[j]
  BY DEF WorkOf
<1>4. ASSUME NEW j \in 1..Len(W) PROVE W[j] \in Calls
  <2>1. CASE j <= Len(d)
    <3>1. d[j] \in Answers
      BY <1>1, <2>1, ElementOfSeq
    <3> QED
      BY <1>1, <1>2, <2>1, <3>1 DEF Answers
  <2>2. CASE j > Len(d)
    <3>1. j - Len(d) \in 1..Len(t) /\ Len(d) + (j - Len(d)) = j
      BY <1>1, <2>2
    <3>2. t[j - Len(d)] \in Calls
      BY <3>1, ElementOfSeq
    <3> QED
      BY <1>3, <3>1, <3>2
  <2> QED
    BY <1>1, <2>1, <2>2
<1> QED
  BY <1>1, <1>2, <1>3, <1>4

LEMMA QueuesTyped ==
  ASSUME TypeOK
  PROVE  done \in Seq(Answers) /\ todo \in Seq(Calls)
BY DEF TypeOK, Answers

\* Calls made are added at the end.
LEMMA IssueWork ==
  ASSUME TypeOK, NEW cs \in Seq(Calls), CO!Issue(cs)
  PROVE  /\ open /\ open' /\ done' = done
         /\ todo' \in Seq(Calls)
         /\ Len(Work') = Len(Work) + Len(cs)
         /\ \A j \in 1..Len(Work) : Work'[j] = Work[j]
         /\ \A j \in 1..Len(cs) : Work'[Len(Work) + j] = cs[j]
<1>1. open /\ open' /\ done' = done /\ todo' = todo \o cs
  BY DEF CO!Issue
<1>2. done \in Seq(Answers) /\ todo \in Seq(Calls)
  BY QueuesTyped
<1>3. /\ todo' \in Seq(Calls)
      /\ Len(todo') = Len(todo) + Len(cs)
      /\ \A j \in 1..Len(todo) : todo'[j] = todo[j]
      /\ \A j \in 1..Len(cs) : todo'[Len(todo) + j] = cs[j]
  BY <1>1, <1>2
<1> QED
  BY <1>1, <1>2, <1>3 DEF Work, WorkOf

\* A call that is run stays where it is.
LEMMA AnswerWork ==
  ASSUME TypeOK, NEW d \in Data, CO!Answer(d)
  PROVE  /\ open /\ open'
         /\ todo' \in Seq(Calls) /\ done' \in Seq(Answers)
         /\ Work' = Work
         /\ todo # <<>> /\ Len(done) < Len(Work)
         /\ Work[Len(done) + 1] = Head(todo)
         /\ Len(done') = Len(done) + 1
         /\ \A j \in 1..Len(done) : done'[j] = done[j]
         /\ done'[Len(done) + 1] = [call |-> Head(todo), data |-> d]
<1>1. /\ open /\ open' /\ todo # <<>>
      /\ todo' = Tail(todo)
      /\ done' = Append(done, [call |-> Head(todo), data |-> d])
  BY DEF CO!Answer
<1>2. done \in Seq(Answers) /\ todo \in Seq(Calls)
  BY QueuesTyped
<1>3. /\ Head(todo) = todo[1] /\ Head(todo) \in Calls
      /\ todo' \in Seq(Calls)
      /\ Len(todo') = Len(todo) - 1 /\ Len(todo) \in Nat \ {0}
      /\ \A j \in 1..Len(todo') : todo'[j] = todo[j + 1]
  BY <1>1, <1>2
<1>4. [call |-> Head(todo), data |-> d] \in Answers
  BY <1>3 DEF Answers
<1>5. /\ done' \in Seq(Answers)
      /\ Len(done') = Len(done) + 1 /\ Len(done) \in Nat
      /\ \A j \in 1..Len(done) : done'[j] = done[j]
      /\ done'[Len(done) + 1] = [call |-> Head(todo), data |-> d]
  BY <1>1, <1>2, <1>4
<1>6. Work' = Work
  <2>1. Len(done') + Len(todo') = Len(done) + Len(todo)
    BY <1>3, <1>5
  <2>2. ASSUME NEW j \in 1..(Len(done) + Len(todo))
        PROVE  (IF j <= Len(done') THEN done'[j].call ELSE todo'[j - Len(done')])
                 = (IF j <= Len(done) THEN done[j].call ELSE todo[j - Len(done)])
    <3>1. CASE j <= Len(done)
      BY <1>5, <3>1
    <3>2. CASE j = Len(done) + 1
      BY <1>3, <1>5, <3>2
    <3>3. CASE j > Len(done) + 1
      <4>1. j - Len(done') \in 1..Len(todo') /\ (j - Len(done')) + 1 = j - Len(done)
        BY <1>3, <1>5, <3>3
      <4> QED
        BY <1>3, <1>5, <3>3, <4>1
    <3> QED
      BY <1>5, <3>1, <3>2, <3>3
  <2> QED
    BY <2>1, <2>2 DEF Work, WorkOf
<1>7. Len(done) < Len(Work) /\ Work[Len(done) + 1] = Head(todo)
  BY <1>2, <1>3, WorkTyped DEF Work
<1> QED
  BY <1>1, <1>3, <1>5, <1>6, <1>7

\* A call that gets no answer is taken out.
LEMMA FailWork ==
  ASSUME TypeOK, CO!Fail
  PROVE  /\ open /\ open' /\ done' = done
         /\ todo' \in Seq(Calls)
         /\ Len(done) < Len(Work)
         /\ Work[Len(done) + 1] = Head(todo)
         /\ Len(Work') = Len(Work) - 1
         /\ \A j \in 1..Len(done) : Work'[j] = Work[j]
         /\ \A j \in (Len(done) + 1)..Len(Work') : Work'[j] = Work[j + 1]
<1>1. /\ open /\ open' /\ todo # <<>> /\ todo' = Tail(todo) /\ done' = done
  BY DEF CO!Fail
<1>2. done \in Seq(Answers) /\ todo \in Seq(Calls)
  BY QueuesTyped
<1>3. /\ Head(todo) = todo[1]
      /\ todo' \in Seq(Calls)
      /\ Len(todo') = Len(todo) - 1 /\ Len(todo) \in Nat \ {0}
      /\ \A j \in 1..Len(todo') : todo'[j] = todo[j + 1]
  BY <1>1, <1>2
<1> QED
  BY <1>1, <1>2, <1>3 DEF Work, WorkOf

\* An answer that is handed over was the first; calls made then come last.
LEMMA HandWork ==
  ASSUME TypeOK, NEW cs \in Seq(Calls), CO!Hand(cs)
  PROVE  /\ open /\ open' /\ done # <<>>
         /\ todo' \in Seq(Calls) /\ done' \in Seq(Answers)
         /\ Head(done) = done[1] /\ Head(done) \in Answers
         /\ Len(Work) > 0 /\ Work[1] = Head(done).call
         /\ Len(Work') = Len(Work) - 1 + Len(cs)
         /\ \A j \in 1..(Len(Work) - 1) : Work'[j] = Work[j + 1]
         /\ \A j \in 1..Len(cs) : Work'[Len(Work) - 1 + j] = cs[j]
         /\ Len(done') = Len(done) - 1
         /\ \A j \in 1..Len(done') : done'[j] = done[j + 1]
<1>1. open /\ open' /\ done # <<>> /\ done' = Tail(done) /\ todo' = todo \o cs
  BY DEF CO!Hand
<1>2. done \in Seq(Answers) /\ todo \in Seq(Calls)
  BY QueuesTyped
<1>3. /\ Head(done) = done[1] /\ Head(done) \in Answers
      /\ done' \in Seq(Answers)
      /\ Len(done') = Len(done) - 1 /\ Len(done) \in Nat \ {0}
      /\ \A j \in 1..Len(done') : done'[j] = done[j + 1]
  BY <1>1, <1>2
<1>4. /\ todo' \in Seq(Calls)
      /\ Len(todo') = Len(todo) + Len(cs)
      /\ \A j \in 1..Len(todo) : todo'[j] = todo[j]
      /\ \A j \in 1..Len(cs) : todo'[Len(todo) + j] = cs[j]
  BY <1>1, <1>2
<1>5. Len(Work) = Len(done) + Len(todo) /\ Len(Work') = Len(done') + Len(todo')
  BY <1>2, <1>3, <1>4, WorkTyped DEF Work
<1>6. Work[1] = Head(done).call
  <2>1. 1 \in 1..Len(done)
    BY <1>3
  <2>2. Work[1] = done[1].call
    BY <1>2, <2>1, WorkTyped DEF Work
  <2> QED
    BY <1>3, <2>2
<1>7. ASSUME NEW j \in 1..(Len(Work) - 1) PROVE Work'[j] = Work[j + 1]
  <2>1. CASE j <= Len(done')
    <3>1. j \in 1..Len(done') /\ j + 1 \in 1..Len(done)
      BY <1>3, <2>1
    <3>2. Work'[j] = done'[j].call /\ Work[j + 1] = done[j + 1].call
      BY <1>2, <1>3, <1>4, <3>1, WorkTyped DEF Work
    <3> QED
      BY <1>3, <3>1, <3>2
  <2>2. CASE j > Len(done')
    <3>1. /\ j - Len(done') \in 1..Len(todo) /\ j - Len(done') \in 1..Len(todo')
          /\ Len(done') + (j - Len(done')) = j
          /\ Len(done) + (j - Len(done')) = j + 1
      BY <1>2, <1>3, <1>4, <1>5, <2>2
    <3>2. Work'[Len(done') + (j - Len(done'))] = todo'[j - Len(done')]
      BY <1>3, <1>4, <3>1, WorkTyped DEF Work
    <3>3. Work[Len(done) + (j - Len(done'))] = todo[j - Len(done')]
      BY <1>2, <3>1, WorkTyped DEF Work
    <3> QED
      BY <1>4, <3>1, <3>2, <3>3
  <2> QED
    BY <1>3, <2>1, <2>2
<1>8. ASSUME NEW j \in 1..Len(cs) PROVE Work'[Len(Work) - 1 + j] = cs[j]
  <2>1. /\ Len(todo) + j \in 1..Len(todo')
        /\ Len(done') + (Len(todo) + j) = Len(Work) - 1 + j
    BY <1>2, <1>3, <1>4, <1>5
  <2>2. Work'[Len(done') + (Len(todo) + j)] = todo'[Len(todo) + j]
    BY <1>3, <1>4, <2>1, WorkTyped DEF Work
  <2> QED
    BY <1>4, <2>1, <2>2
<1> QED
  BY <1>1, <1>2, <1>3, <1>4, <1>5, <1>6, <1>7, <1>8

\* For Work a lost answer is one handed over to no callback.
LEMMA LoseIsHand ==
  ASSUME TypeOK, CO!Lose
  PROVE  CO!Hand(<<>>) /\ <<>> \in Seq(Calls)
<1>1. todo \o <<>> = todo
  BY QueuesTyped, ConcatEmptySeq
<1> QED
  BY <1>1 DEF CO!Lose, CO!Hand

-----------------------------------------------------------------------------
(* Types.                                                                  *)

LEMMA MethodOfKind == \A v : MethodOf(v) \in Kinds
BY DEF MethodOf, Kinds

\* A link of a chain, if there is a node left.
LEMMA LinkTyped ==
  ASSUME NEW m \in Methods, NEW rest \in Seq(Resources),
         NEW cs, cs = IF rest = <<>> THEN <<>> ELSE <<Call(m, rest)>>
  PROVE  /\ cs \in Seq(Calls)
         /\ rest = <<>> => Len(cs) = 0
         /\ rest # <<>> => Len(cs) = 1 /\ cs[1] = Call(m, rest)
<1>1. Call(m, rest) \in Calls
  BY DEF Call, Calls
<1> QED
  BY <1>1

LEMMA GetConfTyped ==
  /\ GetConf \in Seq(Calls) /\ Len(GetConf) = 2
  /\ GetConf[1] = Call("GetConf", <<>>)
  /\ GetConf[2] = Call("GetResourceNameAll", <<>>)
  /\ <<Call("Refresh", <<>>)>> \in Seq(Calls)
<1>1. \A m \in Methods : Call(m, <<>>) \in Calls
  BY DEF Call, Calls
<1>2. {"GetConf", "GetResourceNameAll", "Refresh"} \subseteq Methods
  BY DEF Methods
<1> QED
  BY <1>1, <1>2 DEF GetConf

LEMMA SaysTyped ==
  /\ \A k \in Kinds \cup {"none"} : [Says EXCEPT !.kind = k] \in Data
  /\ \A l \in Lists \cup {<<>>} : [Says EXCEPT !.list = l] \in Data
  /\ \A b \in BOOLEAN : [Says EXCEPT !.ok = b] \in Data
  /\ Says \in Data
BY DEF Says, Data

\* The links after calls are made: theirs and those there were.
LEMMA LinksIssued ==
  ASSUME TypeInv, NEW cs \in Seq(Calls), CO!Issue(cs),
         convertMethod' = convertMethod \/ convertMethod' \in Kinds,
         \A j \in 1..Len(cs) :
           /\ cs[j].method \in Kinds \cup {"Upload"} => cs[j].rest # <<>>
           /\ cs[j].method \in Kinds => convertMethod' \in Kinds
  PROVE  LinkInv' /\ todo' \in Seq(Calls) /\ done' = done /\ open' = TRUE
<1>1. TypeOK /\ LinkInv
  BY DEF TypeInv
<1>2. /\ Len(Work') = Len(Work) + Len(cs)
      /\ \A j \in 1..Len(Work) : Work'[j] = Work[j]
      /\ \A j \in 1..Len(cs) : Work'[Len(Work) + j] = cs[j]
      /\ todo' \in Seq(Calls) /\ done' = done
  BY <1>1, IssueWork
<1>3. Len(Work) \in Nat /\ Len(cs) \in Nat
  BY <1>1, QueuesTyped, WorkTyped DEF Work
<1>4. ASSUME NEW j \in 1..Len(Work')
      PROVE  /\ Work'[j].method \in Kinds \cup {"Upload"} => Work'[j].rest # <<>>
             /\ Work'[j].method \in Kinds => convertMethod' \in Kinds
  <2>1. CASE j <= Len(Work)
    BY <1>1, <1>2, <1>3, <2>1 DEF LinkInv
  <2>2. CASE j > Len(Work)
    <3>1. j - Len(Work) \in 1..Len(cs) /\ Len(Work) + (j - Len(Work)) = j
      BY <1>2, <1>3, <2>2
    <3>2. Work'[j] = cs[j - Len(Work)]
      BY <1>2, <3>1
    <3> QED
      BY <3>1, <3>2
  <2> QED
    BY <1>2, <1>3, <2>1, <2>2
<1>5. open' = TRUE
  BY <1>1 DEF CO!Issue, TypeOK
<1> QED
  BY <1>2, <1>4, <1>5 DEF LinkInv

\* The same after an answer is handed over.
LEMMA LinksHanded ==
  ASSUME TypeInv, NEW cs \in Seq(Calls), CO!Hand(cs),
         convertMethod' = convertMethod \/ convertMethod' \in Kinds,
         \A j \in 1..Len(cs) :
           /\ cs[j].method \in Kinds \cup {"Upload"} => cs[j].rest # <<>>
           /\ cs[j].method \in Kinds => convertMethod' \in Kinds
  PROVE  LinkInv' /\ todo' \in Seq(Calls) /\ done' \in Seq(Answers) /\ open' = TRUE
<1>1. TypeOK /\ LinkInv
  BY DEF TypeInv
<1>2. /\ Len(Work') = Len(Work) - 1 + Len(cs) /\ Len(Work) > 0
      /\ \A j \in 1..(Len(Work) - 1) : Work'[j] = Work[j + 1]
      /\ \A j \in 1..Len(cs) : Work'[Len(Work) - 1 + j] = cs[j]
      /\ todo' \in Seq(Calls) /\ done' \in Seq(Answers)
  BY <1>1, HandWork
<1>3. Len(Work) \in Nat /\ Len(cs) \in Nat
  BY <1>1, QueuesTyped, WorkTyped DEF Work
<1>4. ASSUME NEW j \in 1..Len(Work')
      PROVE  /\ Work'[j].method \in Kinds \cup {"Upload"} => Work'[j].rest # <<>>
             /\ Work'[j].method \in Kinds => convertMethod' \in Kinds
  <2>1. CASE j <= Len(Work) - 1
    <3>1. j \in 1..(Len(Work) - 1) /\ j + 1 \in 1..Len(Work)
      BY <1>3, <2>1
    <3> QED
      BY <1>1, <1>2, <3>1 DEF LinkInv
  <2>2. CASE j > Len(Work) - 1
    <3>1. /\ j - (Len(Work) - 1) \in 1..Len(cs)
          /\ Len(Work) - 1 + (j - (Len(Work) - 1)) = j
      BY <1>2, <1>3, <2>2
    <3>2. Work'[j] = cs[j - (Len(Work) - 1)]
      BY <1>2, <3>1
    <3> QED
      BY <3>1, <3>2
  <2> QED
    BY <1>2, <1>3, <2>1, <2>2
<1>5. open' = TRUE
  BY <1>1 DEF CO!Hand, TypeOK
<1> QED
  BY <1>2, <1>4, <1>5 DEF LinkInv

\* A call that is run takes no link.
LEMMA LinksAnswered ==
  ASSUME TypeInv, NEW d \in Data, CO!Answer(d), convertMethod' = convertMethod
  PROVE  LinkInv' /\ todo' \in Seq(Calls) /\ done' \in Seq(Answers) /\ open' = TRUE
<1>1. Work' = Work /\ todo' \in Seq(Calls) /\ done' \in Seq(Answers)
  BY AnswerWork DEF TypeInv
<1> QED
  BY <1>1 DEF TypeInv, LinkInv, CO!Answer, TypeOK

LEMMA LinksFailed ==
  ASSUME TypeInv, CO!Fail, convertMethod' = convertMethod
  PROVE  LinkInv' /\ todo' \in Seq(Calls) /\ done' = done /\ open' = TRUE
<1>1. /\ done' = done /\ todo' \in Seq(Calls)
      /\ Len(done) < Len(Work) /\ Len(Work') = Len(Work) - 1
      /\ \A j \in 1..Len(done) : Work'[j] = Work[j]
      /\ \A j \in (Len(done) + 1)..Len(Work') : Work'[j] = Work[j + 1]
  BY FailWork DEF TypeInv
<1>2. Len(Work) \in Nat /\ Len(done) \in Nat
  BY QueuesTyped, WorkTyped DEF Work, TypeInv
<1>3. ASSUME NEW j \in 1..Len(Work')
      PROVE  \E k \in 1..Len(Work) : Work'[j] = Work[k]
  <2>1. CASE j <= Len(done)
    <3>1. j \in 1..Len(done) /\ j \in 1..Len(Work)
      BY <1>1, <1>2, <2>1
    <3> QED
      BY <1>1, <3>1
  <2>2. CASE j > Len(done)
    <3>1. j \in (Len(done) + 1)..Len(Work') /\ j + 1 \in 1..Len(Work)
      BY <1>1, <1>2, <2>2
    <3> QED
      BY <1>1, <3>1
  <2> QED
    BY <1>2, <2>1, <2>2
<1>4. LinkInv'
  BY <1>3 DEF TypeInv, LinkInv
<1> QED
  BY <1>1, <1>4 DEF TypeInv, CO!Fail, TypeOK

\* The answer that is handed over is the first of Work.
LEMMA FirstCall ==
  ASSUME TypeInv, done # <<>>
  PROVE  /\ Head(done) \in Answers
         /\ Head(done).call.method \in Kinds \cup {"Upload"}
              => Head(done).call.rest # <<>>
         /\ Head(done).call.method \in Kinds => convertMethod \in Kinds
<1>1. done \in Seq(Answers) /\ todo \in Seq(Calls)
  BY QueuesTyped DEF TypeInv
<1>2. Head(done) \in Answers /\ Head(done) = done[1] /\ 1 \in 1..Len(done)
  BY <1>1
<1>3. 1 \in 1..Len(Work) /\ Work[1] = done[1].call
  BY <1>1, <1>2, WorkTyped DEF Work
<1> QED
  BY <1>2, <1>3 DEF TypeInv, LinkInv

\* What ThenConvert calls.
LEMMA NextConversion ==
  ASSUME TypeInv, ThenConvert, NEW rest, rest = Head(done).call.rest
  PROVE  /\ done # <<>> /\ Head(done) \in Answers
         /\ Head(done).call.method \in Kinds /\ convertMethod \in Kinds
         /\ rest \in Seq(Resources) /\ rest # <<>>
         /\ Head(rest) \in Resources
         /\ \E cs \in Seq(Calls) :
              /\ CO!Hand(cs)
              /\ Tail(rest) = <<>> => Len(cs) = 0
              /\ Tail(rest) # <<>> => /\ Len(cs) = 1
                                     /\ cs[1].method = convertMethod
                                     /\ cs[1].rest = Tail(rest)
<1> DEFINE cs == ConvertOne(LinkMethod, Tail(rest))
<1>1. /\ done # <<>> /\ Head(done) \in Answers
      /\ Head(done).call.method \in Kinds /\ convertMethod \in Kinds
      /\ rest \in Seq(Resources) /\ rest # <<>>
  BY FirstCall DEF ThenConvert, Answered, Answers, Calls
<1>2. Tail(rest) \in Seq(Resources) /\ Head(rest) \in Resources
  BY <1>1
<1>3. /\ cs \in Seq(Calls)
      /\ Tail(rest) = <<>> => Len(cs) = 0
      /\ Tail(rest) # <<>> => /\ Len(cs) = 1
                             /\ cs[1].method = convertMethod
                             /\ cs[1].rest = Tail(rest)
  BY <1>1, <1>2, LinkTyped DEF ConvertOne, LinkMethod, Call, Methods
<1>4. CO!Hand(cs)
  BY DEF ThenConvert
<1> HIDE DEF cs
<1> QED
  BY <1>1, <1>2, <1>3, <1>4

\* What ThenUpload calls.
LEMMA NextUpload ==
  ASSUME TypeInv, ThenUpload
  PROVE  \E cs \in Seq(Calls) :
           /\ CO!Hand(cs)
           /\ \A j \in 1..Len(cs) : cs[j].method = "Upload" /\ cs[j].rest # <<>>
<1> DEFINE rest == Head(done).call.rest
           more == UploadOne(Tail(rest))
           cs   == IF Head(done).data.ok THEN more ELSE <<>>
<1>1. rest \in Seq(Resources) /\ rest # <<>>
  BY FirstCall DEF ThenUpload, Answered, Answers, Calls
<1>2. CO!Hand(cs)
  BY DEF ThenUpload
<1>3. Tail(rest) \in Seq(Resources)
  BY <1>1
<1> HIDE DEF rest
<1>4. /\ more \in Seq(Calls)
      /\ Tail(rest) = <<>> => Len(more) = 0
      /\ Tail(rest) # <<>> => /\ Len(more) = 1
                             /\ more[1].method = "Upload" /\ more[1].rest # <<>>
  BY <1>3, LinkTyped DEF UploadOne, Call, Methods
<1>5. cs = more \/ cs = <<>>
  OBVIOUS
<1> HIDE DEF more, cs
<1>a. ASSUME cs \in Seq(Calls),
             \A j \in 1..Len(cs) : cs[j].method = "Upload" /\ cs[j].rest # <<>>
      PROVE  \E c \in Seq(Calls) :
               /\ CO!Hand(c)
               /\ \A j \in 1..Len(c) : c[j].method = "Upload" /\ c[j].rest # <<>>
  BY <1>2, <1>a
<1>6. CASE cs = more
  <2>1. \A j \in 1..Len(more) : more[j].method = "Upload" /\ more[j].rest # <<>>
    BY <1>4
  <2> QED
    BY <1>4, <1>6, <1>a, <2>1
<1>7. CASE cs = <<>>
  BY <1>7, <1>a
<1> QED
  BY <1>5, <1>6, <1>7

LEMMA TypeNext == TypeInv /\ [Next]_vars => TypeInv'
<1> SUFFICES ASSUME TypeInv, [Next]_vars PROVE TypeInv'
  OBVIOUS
<1>a. TypeOK /\ LinkInv
  BY DEF TypeInv
<1>b. /\ done \in Seq(Answers) /\ todo \in Seq(Calls)
      /\ nodes \in Seq(Resources) /\ checked \subseteq ToSet(nodes)
  BY <1>a, QueuesTyped, ListsTyped DEF TypeOK
<1>c. CheckedKeys \in Seq(Resources) /\ ToSet(nodes) \subseteq Resources
  BY <1>b, KeysOfChecks DEF ToSet
<1>d. /\ Kinds \subseteq Methods /\ "Upload" \in Methods
      /\ \A m, r : Call(m, r).method = m /\ Call(m, r).rest = r
  BY DEF Methods, Call
<1>f. <<>> \in Seq(Calls) /\ <<>> \in Seq(Answers) /\ \A j \in 1..Len(<<>>) : FALSE
  OBVIOUS
<1>g. UNCHANGED missedVars => cut' \in BOOLEAN /\ unlisted' \in BOOLEAN
  BY <1>a DEF missedVars, TypeOK
<1>h. ASSUME NEW m, Missed(m) PROVE cut' \in BOOLEAN /\ unlisted' \in BOOLEAN
  BY <1>a, <1>h DEF Missed, TypeOK
<1>1. CASE Check
  BY <1>1, <1>a
  DEF TypeInv, TypeOK, LinkInv, Work, Check, bridgeVars, appVars, missedVars, pastVars
<1>2. CASE Select
  BY <1>2, <1>a
  DEF TypeInv, TypeOK, LinkInv, Work, Select, bridgeVars, appVars, missedVars, pastVars
<1>3. CASE EditProto
  BY <1>3, <1>a
  DEF TypeInv, TypeOK, LinkInv, Work, EditProto, bridgeVars, pageVars, missedVars
<1>4. CASE UNCHANGED vars
  BY <1>4, <1>a DEF TypeInv, TypeOK, LinkInv, Work, vars
<1>5. CASE ClickConvert
  <2> DEFINE cs == ConvertOne(MethodOf(selectValue), CheckedKeys)
  <2>1. convertMethod' = MethodOf(selectValue) /\ convertMethod' \in Kinds
    BY <1>5, MethodOfKind DEF ClickConvert
  <2>2. /\ cs \in Seq(Calls)
        /\ CheckedKeys = <<>> => Len(cs) = 0
        /\ CheckedKeys # <<>> => Len(cs) = 1 /\ cs[1] = Call(convertMethod', CheckedKeys)
    BY <1>c, <1>d, <2>1, LinkTyped DEF ConvertOne
  <2>3. CO!Issue(cs)
    BY <1>5 DEF ClickConvert
  <2>4. LinkInv' /\ todo' \in Seq(Calls) /\ done' = done /\ open' = TRUE
    <3>1. \A j \in 1..Len(cs) :
            /\ cs[j].method \in Kinds \cup {"Upload"} => cs[j].rest # <<>>
            /\ cs[j].method \in Kinds => convertMethod' \in Kinds
      BY <2>1, <2>2, <1>d
    <3> HIDE DEF cs
    <3> QED
      BY <2>1, <2>2, <2>3, <3>1, LinksIssued
  <2>5. progress' \in Nat /\ status' \in [Resources -> {"none", "fail", "success"}]
    BY <1>5 DEF ClickConvert, ProgressReset, NoStatus
  <2>6. asked' \in [nodes : SUBSET Resources, kind : Kinds \cup {"none"}]
    BY <1>5, <1>b, <1>c, <2>1 DEF ClickConvert
  <2>7. overlap' \in BOOLEAN
    BY <1>5 DEF ClickConvert
  <2>8. cut' \in BOOLEAN /\ unlisted' \in BOOLEAN
    BY <1>5, <1>a DEF ClickConvert, TypeOK
  <2> QED
    BY <1>5, <1>a, <2>1, <2>4, <2>5, <2>6, <2>7, <2>8
    DEF TypeInv, TypeOK, ClickConvert, appVars
<1>6. CASE ClickUpload
  <2> DEFINE cs == UploadOne(CheckedKeys)
  <2>1. /\ cs \in Seq(Calls)
        /\ CheckedKeys = <<>> => Len(cs) = 0
        /\ CheckedKeys # <<>> => Len(cs) = 1 /\ cs[1] = Call("Upload", CheckedKeys)
    BY <1>c, <1>d, LinkTyped DEF UploadOne
  <2>2. \A j \in 1..Len(cs) :
            /\ cs[j].method \in Kinds \cup {"Upload"} => cs[j].rest # <<>>
            /\ cs[j].method \in Kinds => convertMethod' \in Kinds
    BY <2>1, <1>d DEF Kinds
  <2>3. CO!Issue(cs) /\ convertMethod' = convertMethod
    BY <1>6 DEF ClickUpload, pageVars
  <2> HIDE DEF cs
  <2>4. LinkInv' /\ todo' \in Seq(Calls) /\ done' = done /\ open' = TRUE
    BY <2>1, <2>2, <2>3, LinksIssued
  <2> QED
    BY <1>6, <1>a, <2>4 DEF TypeInv, TypeOK, ClickUpload, pageVars, appVars, missedVars
<1>7. CASE ClickRefresh
  <2> DEFINE cs == <<Call("Refresh", <<>>)>>
  <2>1. cs \in Seq(Calls) /\ Len(cs) = 1 /\ cs[1].method = "Refresh"
    BY GetConfTyped, <1>d
  <2>2. CO!Issue(cs) /\ convertMethod' = convertMethod
    BY <1>7 DEF ClickRefresh
  <2>3. LinkInv' /\ todo' \in Seq(Calls) /\ done' = done /\ open' = TRUE
    <3>1. \A j \in 1..Len(cs) : cs[j].method \notin Kinds \cup {"Upload"}
      BY <2>1 DEF Kinds
    <3> HIDE DEF cs
    <3> QED
      BY <2>1, <2>2, <3>1, LinksIssued
  <2>4. nodes' = <<>> /\ checked' = {} /\ progress' \in Nat
    BY <1>7 DEF ClickRefresh, Unchecked
  <2>5. status' \in [Resources -> {"none", "fail", "success"}]
    BY <1>7 DEF ClickRefresh, NoStatus
  <2>6. asked' \in [nodes : SUBSET Resources, kind : Kinds \cup {"none"}]
    BY <1>7 DEF ClickRefresh
  <2>7. overlap' \in BOOLEAN
    BY <1>7 DEF ClickRefresh
  <2>8. cut' \in BOOLEAN /\ unlisted' \in BOOLEAN
    BY <1>7 DEF ClickRefresh
  <2> QED
    BY <1>7, <1>a, <2>2, <2>3, <2>4, <2>5, <2>6, <2>7, <2>8
    DEF TypeInv, TypeOK, ClickRefresh, appVars
<1>8. CASE CloseWindow
  <2>1. todo' = <<>> /\ done' = <<>> /\ open' = FALSE
    BY <1>8 DEF CloseWindow, CO!Close
  <2>2. LinkInv'
    BY <2>1 DEF LinkInv, Work, WorkOf
  <2> QED
    BY <1>8, <1>a, <1>f, <2>1, <2>2
    DEF TypeInv, TypeOK, CloseWindow, pageVars, appVars, missedVars, pastVars, Answers
<1>9. CASE Run
  <2>1. convertMethod' = convertMethod
    BY <1>9 DEF Run, RunGetConf, RunGetResourceNameAll, RunRefresh, RunConvert,
                RunUpload, pageVars
  <2>2. list' \in Lists \cup {<<>>} /\ convert' \in Kinds \cup {"none"}
    BY <1>9, <1>a DEF Run, RunGetConf, RunGetResourceNameAll, RunRefresh, RunConvert,
                      RunUpload, appVars, TypeOK
  <2>3. \E d \in Data : Served(d)
    <3>1. convert \in Kinds \cup {"none"} /\ list \in Lists \cup {<<>>}
      BY <1>a DEF TypeOK
    <3> QED
      BY <1>9, <3>1, SaysTyped
      DEF Run, RunGetConf, RunGetResourceNameAll, RunRefresh, RunConvert, RunUpload
  <2>4. cut' \in BOOLEAN /\ unlisted' \in BOOLEAN
    BY <2>3, <1>g, <1>h DEF Served
  <2>5. LinkInv' /\ todo' \in Seq(Calls) /\ done' \in Seq(Answers) /\ open' = TRUE
    <3>1. CASE \E d \in Data : CO!Answer(d)
      BY <2>1, <3>1, LinksAnswered
    <3>2. CASE CO!Fail
      BY <1>b, <2>1, <3>2, LinksFailed
    <3> QED
      BY <2>3, <3>1, <3>2 DEF Served
  <2> QED
    BY <1>9, <1>a, <2>1, <2>2, <2>4, <2>5
    DEF TypeInv, TypeOK, Run, RunGetConf, RunGetResourceNameAll, RunRefresh, RunConvert,
        RunUpload, pageVars, appVars, pastVars, Answers
<1>10. CASE ThenGetConf
  <2>1. CO!Hand(<<>>) /\ convertMethod' \in Kinds /\ selectValue' \in Kinds
    BY <1>10, MethodOfKind DEF ThenGetConf
  <2>2. LinkInv' /\ todo' \in Seq(Calls) /\ done' \in Seq(Answers) /\ open' = TRUE
    BY <2>1, <1>f, LinksHanded
  <2> QED
    BY <1>10, <1>a, <2>1, <2>2 DEF TypeInv, TypeOK, ThenGetConf, appVars, missedVars, pastVars, Answers
<1>11. CASE ThenGetResourceNameAll
  <2>1. CO!Hand(<<>>) /\ convertMethod' = convertMethod /\ done # <<>>
    BY <1>11 DEF ThenGetResourceNameAll, Answered
  <2>2. LinkInv' /\ todo' \in Seq(Calls) /\ done' \in Seq(Answers) /\ open' = TRUE
    BY <2>1, <1>f, LinksHanded
  <2>3. nodes' \in Lists \cup {<<>>} /\ checked' = {}
    BY <1>11, <2>1, FirstCall DEF ThenGetResourceNameAll, Unchecked, Answers, Data
  <2> QED
    BY <1>11, <1>a, <2>2, <2>3
    DEF TypeInv, TypeOK, ThenGetResourceNameAll, appVars, missedVars, pastVars, Answers
<1>12. CASE ThenRefresh
  <2>1. CO!Hand(GetConf) /\ convertMethod' = convertMethod /\ checked' = {}
    BY <1>12 DEF ThenRefresh, AfterRefresh, Unchecked
  <2>2. \A j \in 1..Len(GetConf) : GetConf[j].method \notin Kinds \cup {"Upload"}
    BY GetConfTyped, <1>d DEF Kinds
  <2>3. LinkInv' /\ todo' \in Seq(Calls) /\ done' \in Seq(Answers) /\ open' = TRUE
    BY <2>1, <2>2, GetConfTyped, LinksHanded
  <2>4. cut' \in BOOLEAN /\ unlisted' \in BOOLEAN
    BY <1>12, <1>a DEF ThenRefresh, TypeOK
  <2> QED
    BY <1>12, <1>a, <2>1, <2>3, <2>4
    DEF TypeInv, TypeOK, ThenRefresh, appVars, pastVars, Answers
<1>13. CASE ThenConvert
  <2> DEFINE rest == Head(done).call.rest
  <2>1. PICK cs \in Seq(Calls) :
           /\ CO!Hand(cs)
           /\ Tail(rest) = <<>> => Len(cs) = 0
           /\ Tail(rest) # <<>> => /\ Len(cs) = 1
                                  /\ cs[1].method = convertMethod
                                  /\ cs[1].rest = Tail(rest)
    BY <1>13, NextConversion
  <2>2. convertMethod' = convertMethod /\ convertMethod \in Kinds /\ Head(rest) \in Resources
    BY <1>13, NextConversion DEF ThenConvert
  <2>3. LinkInv' /\ todo' \in Seq(Calls) /\ done' \in Seq(Answers) /\ open' = TRUE
    <3>1. \A j \in 1..Len(cs) :
            /\ cs[j].method \in Kinds \cup {"Upload"} => cs[j].rest # <<>>
            /\ cs[j].method \in Kinds => convertMethod' \in Kinds
      <4> HIDE DEF rest
      <4> QED
        BY <2>1, <2>2
    <3> QED
      BY <2>1, <2>2, <3>1, LinksHanded
  <2>4. progress' \in Nat \cup {Infinity}
    <3>1. Advanced \in Nat \cup {Infinity}
      <4>1. nodes # <<>> => 100 \div Len(nodes) \in Nat
        BY <1>b
      <4> QED
        BY <4>1, <1>a DEF Advanced, TypeOK
    <3> QED
      BY <1>13, <3>1 DEF ThenConvert
  <2>5. status' \in [Resources -> {"none", "fail", "success"}]
    BY <1>13, <1>a, <2>2 DEF ThenConvert, TypeOK
  <2> QED
    BY <1>13, <1>a, <2>2, <2>3, <2>4, <2>5
    DEF TypeInv, TypeOK, ThenConvert, appVars, missedVars, pastVars, Answers
<1>14. CASE ThenUpload
  <2>1. PICK cs \in Seq(Calls) :
           /\ CO!Hand(cs)
           /\ \A j \in 1..Len(cs) : cs[j].method = "Upload" /\ cs[j].rest # <<>>
    BY <1>14, NextUpload
  <2>2. convertMethod' = convertMethod
    BY <1>14 DEF ThenUpload, pageVars
  <2>3. LinkInv' /\ todo' \in Seq(Calls) /\ done' \in Seq(Answers) /\ open' = TRUE
    BY <2>1, <2>2, LinksHanded DEF Kinds
  <2> QED
    BY <1>14, <1>a, <2>3 DEF TypeInv, TypeOK, ThenUpload, pageVars, appVars, missedVars, pastVars, Answers
<1>15. CASE LoseAnswer
  <2>1. CO!Hand(<<>>) /\ <<>> \in Seq(Calls) /\ convertMethod' = convertMethod
    BY <1>15, <1>a, LoseIsHand DEF LoseAnswer, pageVars
  <2>2. LinkInv' /\ todo' \in Seq(Calls) /\ done' \in Seq(Answers) /\ open' = TRUE
    BY <1>f, <2>1, LinksHanded
  <2>3. cut' \in BOOLEAN /\ unlisted' \in BOOLEAN
    BY <1>15, <1>h DEF LoseAnswer
  <2> QED
    BY <1>15, <1>a, <2>2, <2>3
    DEF TypeInv, TypeOK, LoseAnswer, pageVars, appVars, pastVars, Answers
<1> QED
  BY <1>1, <1>2, <1>3, <1>4, <1>5, <1>6, <1>7, <1>8, <1>9, <1>10, <1>11, <1>12, <1>13, <1>14,
     <1>15
  DEF Next, Then, Closed

LEMMA TypeAlways == Spec => []TypeInv
<1>1. Init => TypeInv
  <2> SUFFICES ASSUME Init PROVE TypeOK /\ LinkInv
    BY DEF TypeInv
  <2>1. todo \in Seq(Calls) /\ done \in Seq(Answers) /\ done = <<>>
    BY GetConfTyped DEF Init
  <2>2. \A j \in 1..Len(Work) : Work[j] \in {GetConf[1], GetConf[2]}
    BY <2>1, GetConfTyped DEF Init, Work, WorkOf
  <2>3. LinkInv
    BY <2>2, GetConfTyped DEF LinkInv, Kinds, Call
  <2>4. status \in [Resources -> {"none", "fail", "success"}]
    BY DEF Init, NoStatus
  <2>5. overlap \in BOOLEAN /\ cut \in BOOLEAN /\ unlisted \in BOOLEAN
    BY Zenon DEF Init
  <2> QED
    BY <2>1, <2>3, <2>4, <2>5 DEF Init, TypeOK, Answers
<1> QED
  BY <1>1, TypeNext, PTL DEF Spec

\* Every variable of Client keeps its type, for any lists of resources.
THEOREM ClientTyped == Spec => []TypeOK
<1>1. TypeInv => TypeOK
  BY DEF TypeInv
<1> QED
  BY <1>1, TypeAlways, PTL

-----------------------------------------------------------------------------
(* The page's list.                                                        *)

\* Calls made, and answers handed over, leave the questions there were.
LEMMA QuestionsStay ==
  ASSUME TypeOK, NEW cs \in Seq(Calls), CO!Issue(cs) \/ CO!Hand(cs)
  PROVE  /\ Len(todo') = Len(todo) + Len(cs) /\ Len(todo) \in Nat /\ Len(cs) \in Nat
         /\ \A j \in 1..Len(todo) : todo'[j] = todo[j]
         /\ \A j \in 1..Len(cs) : todo'[Len(todo) + j] = cs[j]
<1>1. todo' = todo \o cs /\ todo \in Seq(Calls)
  BY QueuesTyped DEF CO!Issue, CO!Hand
<1> QED
  BY <1>1

LEMMA IssueTold ==
  ASSUME TypeOK, NEW cs \in Seq(Calls), CO!Issue(cs), list' = list,
         NEW i \in Nat, Told(i, done, todo, list)
  PROVE  Told(i, done', todo', list')
<1>1. \A j \in 1..Len(todo) : j \in 1..Len(todo') /\ todo'[j] = todo[j]
  BY QuestionsStay
<1>2. done' = done
  BY DEF CO!Issue
<1> QED
  BY <1>1, <1>2 DEF Told, Fresh

LEMMA HandTold ==
  ASSUME TypeOK, NEW cs \in Seq(Calls), CO!Hand(cs), list' = list,
         NEW i \in Nat,
         \/ Told(i + 1, done, todo, list)
         \/ i = 0 /\ Told(0, done, todo, list) /\ ~Fresh(Head(done), list)
  PROVE  Told(i, done', todo', list')
<1>1. \A j \in 1..Len(todo) : j \in 1..Len(todo') /\ todo'[j] = todo[j]
  BY QuestionsStay
<1>2. /\ Head(done) = done[1] /\ Len(done') = Len(done) - 1 /\ Len(done) \in Nat
      /\ \A j \in 1..Len(done') : done'[j] = done[j + 1]
  BY HandWork, QueuesTyped
<1>3. ASSUME NEW j \in 1..Len(done), j > i + 1 \/ (i = 0 /\ j > 0 /\ ~Fresh(done[1], list)),
             Fresh(done[j], list)
      PROVE  Told(i, done', todo', list')
  <2>1. j # 1
    BY <1>3
  <2>2. j - 1 \in 1..Len(done') /\ (j - 1) + 1 = j /\ j - 1 > i
    BY <1>2, <1>3, <2>1
  <2>3. done'[j - 1] = done[j]
    BY <1>2, <2>2
  <2>4. Fresh(done'[j - 1], list')
    BY <1>3, <2>3 DEF Fresh
  <2> QED
    BY <2>2, <2>4 DEF Told
<1> QED
  BY <1>1, <1>2, <1>3 DEF Told

\* A call that is run, if it is not about the list.
LEMMA RunTold ==
  ASSUME TypeOK, todo # <<>>, todo' = Tail(todo),
         Head(todo).method \notin {"Refresh", "GetResourceNameAll"},
         Len(done') >= Len(done), Len(done') \in Nat,
         \A j \in 1..Len(done) : done'[j] = done[j],
         list' = list, NEW i \in Nat, Told(i, done, todo, list)
  PROVE  Told(i, done', todo', list')
<1>1. /\ Head(todo) = todo[1] /\ Len(todo) \in Nat
      /\ Len(todo') = Len(todo) - 1
      /\ \A j \in 1..Len(todo') : todo'[j] = todo[j + 1]
  BY QueuesTyped
<1>2. Len(done) \in Nat
  BY QueuesTyped
<1>3. ASSUME NEW j \in 1..Len(todo), todo[j].method \in {"Refresh", "GetResourceNameAll"}
      PROVE  Told(i, done', todo', list')
  <2>1. j # 1
    BY <1>1, <1>3
  <2>2. j - 1 \in 1..Len(todo') /\ (j - 1) + 1 = j
    BY <1>1, <2>1
  <2>3. todo'[j - 1] = todo[j]
    BY <1>1, <2>2
  <2> QED
    BY <1>3, <2>2, <2>3 DEF Told
<1>4. ASSUME NEW j \in 1..Len(done), j > i, Fresh(done[j], list)
      PROVE  Told(i, done', todo', list')
  BY <1>2, <1>4 DEF Told, Fresh
<1> QED
  BY <1>3, <1>4 DEF Told

\* The page asks for the list.
LEMMA ListAsked ==
  ASSUME TypeInv, ClickRefresh \/ ThenRefresh
  PROVE  ListTold'
<1>a. TypeOK
  BY DEF TypeInv
<1>1. ASSUME NEW j \in 1..Len(todo'), todo'[j].method \in {"Refresh", "GetResourceNameAll"}
      PROVE  ListTold'
  BY <1>1 DEF ListTold, Told
<1>2. CASE ClickRefresh
  <2> DEFINE cs == <<Call("Refresh", <<>>)>>
  <2>1. cs \in Seq(Calls) /\ Len(cs) = 1 /\ cs[1].method = "Refresh" /\ 1 \in 1..1
    BY GetConfTyped DEF Call
  <2>2. CO!Issue(cs)
    BY <1>2 DEF ClickRefresh
  <2> HIDE DEF cs
  <2>3. /\ Len(todo') = Len(todo) + 1 /\ Len(todo) \in Nat
        /\ \A j \in 1..1 : todo'[Len(todo) + j] = cs[j]
    BY <1>a, <2>1, <2>2, QuestionsStay
  <2>4. Len(todo) + 1 \in 1..Len(todo') /\ todo'[Len(todo) + 1].method = "Refresh"
    BY <2>1, <2>3
  <2> QED
    BY <1>1, <2>4
<1>3. CASE ThenRefresh
  <2>1. CO!Hand(GetConf) /\ 2 \in 1..2
    BY <1>3 DEF ThenRefresh, AfterRefresh
  <2>2. /\ Len(todo') = Len(todo) + 2 /\ Len(todo) \in Nat
        /\ \A j \in 1..2 : todo'[Len(todo) + j] = GetConf[j]
    BY <1>a, <2>1, GetConfTyped, QuestionsStay
  <2>3. /\ Len(todo) + 2 \in 1..Len(todo')
        /\ todo'[Len(todo) + 2].method = "GetResourceNameAll"
    BY <2>1, <2>2, GetConfTyped DEF Call
  <2> QED
    BY <1>1, <2>3
<1> QED
  BY <1>2, <1>3

\* The other steps, when no answer about the list has been lost.
LEMMA ListStep ==
  ASSUME TypeInv, ListTold, [Next]_vars, open, open', ~unlisted',
         ~ClickRefresh, ~ThenRefresh
  PROVE  ListTold'
<1>a. TypeOK /\ done \in Seq(Answers) /\ todo \in Seq(Calls) /\ Len(done) \in Nat
  BY QueuesTyped DEF TypeInv
<1>b. <<>> \in Seq(Calls) /\ 0 \in Nat
  OBVIOUS
<1>1. CASE UNCHANGED <<todo, done, open, nodes, list>>
  BY <1>1 DEF ListTold, Told, Fresh
<1>2. ASSUME NEW cs \in Seq(Calls), CO!Issue(cs), UNCHANGED <<nodes, list>>
      PROVE  ListTold'
  <2>1. open /\ done' = done
    BY <1>2 DEF CO!Issue
  <2>2. nodes' # list' => Told(0, done', todo', list')
    BY <1>2, <1>a, <1>b, <2>1, IssueTold DEF ListTold
  <2>3. ASSUME NEW i \in 1..Len(done'), done'[i].call.method = "GetResourceNameAll",
               ~Fresh(done'[i], list')
        PROVE  Told(i, done', todo', list')
    <3>1. i \in 1..Len(done) /\ i \in Nat /\ Told(i, done, todo, list)
      BY <1>2, <1>a, <2>1, <2>3 DEF ListTold, Fresh
    <3> QED
      BY <1>2, <1>a, <3>1, IssueTold
  <2> QED
    BY <2>2, <2>3 DEF ListTold
<1>3. CASE ClickConvert \/ ClickUpload
  <2>1. /\ ConvertOne(MethodOf(selectValue), CheckedKeys) \in Seq(Calls)
        /\ UploadOne(CheckedKeys) \in Seq(Calls)
    <3>1. nodes \in Seq(Resources) /\ checked \subseteq ToSet(nodes)
      BY <1>a, ListsTyped DEF TypeOK
    <3>2. CheckedKeys \in Seq(Resources)
      BY <3>1, KeysOfChecks
    <3>3. MethodOf(selectValue) \in Methods /\ "Upload" \in Methods
      BY MethodOfKind DEF Methods
    <3> QED
      BY <3>2, <3>3, LinkTyped DEF ConvertOne, UploadOne
  <2> QED
    BY <1>2, <1>3, <2>1 DEF ClickConvert, ClickUpload, pageVars, appVars
<1>6. CASE CloseWindow
  BY <1>6 DEF CloseWindow, CO!Close
<1>7. ASSUME todo # <<>>, todo' = Tail(todo), open,
             Head(todo).method \notin {"Refresh", "GetResourceNameAll"},
             Len(done') >= Len(done), Len(done') \in Nat,
             \A j \in 1..Len(done) : done'[j] = done[j],
             \A j \in 1..Len(done') :
               j > Len(done) => done'[j].call.method # "GetResourceNameAll",
             UNCHANGED <<nodes, list>>
      PROVE  ListTold'
  <2>1. nodes' # list' => Told(0, done', todo', list')
    BY <1>7, <1>a, <1>b, RunTold DEF ListTold
  <2>2. ASSUME NEW i \in 1..Len(done'), done'[i].call.method = "GetResourceNameAll",
               ~Fresh(done'[i], list')
        PROVE  Told(i, done', todo', list')
    <3>1. i \in 1..Len(done) /\ i \in Nat
      BY <1>7, <1>a, <2>2
    <3>2. done'[i] = done[i] /\ ~Fresh(done[i], list)
      BY <1>7, <2>2, <3>1 DEF Fresh
    <3>3. Told(i, done, todo, list)
      BY <1>7, <2>2, <3>1, <3>2 DEF ListTold
    <3> QED
      BY <1>7, <1>a, <3>1, <3>3, RunTold
  <2> QED
    BY <2>1, <2>2 DEF ListTold
<1>8. ASSUME NEW d \in Data, CO!Answer(d), nodes' = nodes, list' = list,
             Head(todo).method \notin {"Refresh", "GetResourceNameAll"}
      PROVE  ListTold'
  <2>1. /\ open /\ todo # <<>> /\ todo' = Tail(todo)
        /\ Len(done') = Len(done) + 1
        /\ \A j \in 1..Len(done) : done'[j] = done[j]
        /\ done'[Len(done) + 1] = [call |-> Head(todo), data |-> d]
    BY <1>8, <1>a, AnswerWork DEF CO!Answer
  <2>2. done'[Len(done) + 1].call.method # "GetResourceNameAll"
    BY <1>8, <2>1
  <2> QED
    BY <1>7, <1>8, <1>a, <2>1, <2>2
<1>9. CASE RunGetConf \/ RunConvert \/ RunUpload
  <2>1. /\ Head(todo).method \notin {"Refresh", "GetResourceNameAll"}
        /\ nodes' = nodes /\ list' = list
    BY <1>9 DEF RunGetConf, RunConvert, RunUpload, Kinds, pageVars, appVars
  <2>2. CASE CO!Fail
    BY <1>7, <1>a, <2>1, <2>2 DEF CO!Fail
  <2>3. CASE ~CO!Fail
    <3>1. \E d \in Data : CO!Answer(d)
      <4>1. convert \in Kinds \cup {"none"}
        BY <1>a DEF TypeOK
      <4> QED
        BY <1>9, <2>3, <4>1, SaysTyped DEF RunGetConf, RunConvert, RunUpload, Served
    <3> QED
      BY <1>8, <2>1, <3>1
  <2> QED
    BY <2>2, <2>3
<1>10. ASSUME NEW d \in Data, CO!Answer(d), nodes' = nodes,
              Fresh([call |-> Head(todo), data |-> d], list')
       PROVE  ListTold'
  <2>1. /\ Len(done') = Len(done) + 1
        /\ done'[Len(done) + 1] = [call |-> Head(todo), data |-> d]
    BY <1>10, <1>a, AnswerWork
  <2>2. Fresh(done'[Len(done) + 1], list') /\ Len(done) + 1 \in 1..Len(done')
    BY <1>10, <1>a, <2>1 DEF Fresh
  <2>3. \A i \in 0..Len(done) : Told(i, done', todo', list')
    BY <1>a, <2>2 DEF Told
  <2>4. \A i \in 1..Len(done') : i \in 0..Len(done) \/ i = Len(done) + 1
    BY <1>a, <2>1
  <2> QED
    BY <1>a, <2>2, <2>3, <2>4 DEF ListTold
<1>11. CASE RunGetResourceNameAll
  <2>1. list \in Lists \cup {<<>>} /\ [Says EXCEPT !.list = list].list = list
    BY <1>a DEF TypeOK, Says
  <2>2. CO!Answer([Says EXCEPT !.list = list])
    BY <1>11 DEF RunGetResourceNameAll, Served, Missed
  <2> QED
    BY <1>10, <1>11, <2>1, <2>2, SaysTyped
    DEF RunGetResourceNameAll, Fresh, pageVars, appVars
<1>12. CASE RunRefresh
  <2>1. CO!Answer(Says)
    BY <1>12 DEF RunRefresh, Served, Missed
  <2> QED
    BY <1>10, <1>12, <2>1, SaysTyped DEF RunRefresh, Fresh, pageVars
<1>13. ASSUME NEW cs \in Seq(Calls), CO!Hand(cs), list' = list,
              Told(1, done, todo, list) \/ nodes' = list \/ (nodes' = nodes /\ ~Fresh(Head(done), list))
       PROVE  ListTold'
  <2>1. /\ open /\ Len(done') = Len(done) - 1
        /\ \A j \in 1..Len(done') : done'[j] = done[j + 1]
    BY <1>13, <1>a, HandWork
  <2>2. nodes' # list' => Told(0, done', todo', list')
    <3>1. CASE Told(1, done, todo, list)
      <4>1. Told(0 + 1, done, todo, list)
        BY <3>1
      <4> QED
        BY <1>13, <1>a, <1>b, <4>1, HandTold
    <3>2. CASE nodes' = nodes /\ nodes # list /\ ~Fresh(Head(done), list)
      <4>1. Told(0, done, todo, list)
        BY <2>1, <3>2 DEF ListTold
      <4> QED
        BY <1>13, <1>a, <1>b, <3>2, <4>1, HandTold
    <3> QED
      BY <1>13, <3>1, <3>2
  <2>3. ASSUME NEW i \in 1..Len(done'), done'[i].call.method = "GetResourceNameAll",
               ~Fresh(done'[i], list')
        PROVE  Told(i, done', todo', list')
    <3>1. i \in Nat /\ i + 1 \in 1..Len(done) /\ done'[i] = done[i + 1]
      BY <1>a, <2>1
    <3>2. Told(i + 1, done, todo, list)
      BY <1>13, <2>1, <2>3, <3>1 DEF ListTold, Fresh
    <3> QED
      BY <1>13, <1>a, <3>1, <3>2, HandTold
  <2> QED
    BY <2>2, <2>3 DEF ListTold
<1>14. ASSUME NEW cs \in Seq(Calls), CO!Hand(cs), list' = list, nodes' = nodes,
              Head(done).call.method \notin {"Refresh", "GetResourceNameAll"}
       PROVE  ListTold'
  BY <1>13, <1>14 DEF Fresh
<1>15. CASE ThenGetConf
  BY <1>14, <1>15, <1>b DEF ThenGetConf, Answered, appVars
<1>16. CASE ThenGetResourceNameAll
  <2>1. /\ CO!Hand(<<>>) /\ list' = list /\ open
        /\ nodes' = Head(done).data.list
        /\ Head(done).call.method = "GetResourceNameAll"
    BY <1>16 DEF ThenGetResourceNameAll, Answered, appVars, CO!Hand
  <2>2. Head(done) = done[1] /\ Len(done) > 0
    BY <1>a, <1>b, <2>1, HandWork
  <2>3. Told(1, done, todo, list) \/ nodes' = list
    <3>1. 1 \in 1..Len(done)
      BY <1>a, <2>2
    <3> QED
      BY <2>1, <2>2, <3>1 DEF ListTold, Fresh
  <2> QED
    BY <1>13, <1>b, <2>1, <2>3
<1>17. CASE LoseAnswer
  <2>1. CO!Hand(<<>>) /\ nodes' = nodes /\ list' = list
    BY <1>17, <1>a, LoseIsHand DEF LoseAnswer, pageVars, appVars
  <2>2. Head(done).call.method \notin {"Refresh", "GetResourceNameAll"}
    BY <1>17 DEF LoseAnswer, Missed
  <2> QED
    BY <1>14, <1>b, <2>1, <2>2
<1>18. CASE ThenConvert \/ ThenUpload
  <2>1. \E cs \in Seq(Calls) : CO!Hand(cs)
    BY <1>18, NextConversion, NextUpload
  <2>2. Head(done).call.method \notin {"Refresh", "GetResourceNameAll"}
    BY <1>18 DEF ThenConvert, ThenUpload, Answered, Kinds
  <2> QED
    BY <1>14, <1>18, <2>1, <2>2 DEF ThenConvert, ThenUpload, pageVars, appVars
<1>19. CASE Check \/ Select \/ EditProto \/ UNCHANGED vars
  BY <1>1, <1>19 DEF Check, Select, EditProto, bridgeVars, pageVars, appVars, vars
<1> QED
  BY <1>3, <1>6, <1>9, <1>11, <1>12, <1>15, <1>16, <1>17, <1>18, <1>19
  DEF Next, Run, Then, Closed

LEMMA ListNext == TypeInv /\ ListInv /\ [Next]_vars => ListInv'
<1> SUFFICES ASSUME TypeInv, ListInv, [Next]_vars, open', ~unlisted' PROVE ListTold'
  BY DEF ListInv
<1>1. CASE ClickRefresh \/ ThenRefresh
  BY <1>1, ListAsked
<1>2. CASE ~ClickRefresh /\ ~ThenRefresh
  <2>1. open
    BY <1>2
    DEF Next, Check, Select, ClickConvert, ClickUpload, EditProto, CloseWindow, Run,
        RunGetConf, RunGetResourceNameAll, RunRefresh, RunConvert, RunUpload, Served, Then,
        ThenGetConf, ThenGetResourceNameAll, ThenConvert, ThenUpload, LoseAnswer, Closed,
        CO!Issue, CO!Close, CO!Answer, CO!Fail, CO!Hand, CO!Lose, vars
  <2>2. CASE UNCHANGED unlisted
    BY <1>2, <2>1, <2>2, ListStep DEF ListInv
  <2>3. ASSUME NEW m, Missed(m) PROVE ~unlisted
    BY <2>3 DEF Missed
  <2>4. CASE ~UNCHANGED unlisted
    <3>1. \E m : Missed(m)
      BY <1>2, <2>4
      DEF Next, Check, Select, ClickConvert, ClickUpload, EditProto, CloseWindow, Run,
          RunGetConf, RunGetResourceNameAll, RunRefresh, RunConvert, RunUpload, Served, Then,
          ThenGetConf, ThenGetResourceNameAll, ThenConvert, ThenUpload, LoseAnswer, Closed,
          missedVars, vars
    <3> QED
      BY <1>2, <2>1, <2>3, <3>1, ListStep DEF ListInv
  <2> QED
    BY <2>2, <2>4
<1> QED
  BY <1>1, <1>2

-----------------------------------------------------------------------------
(* What is under way.                                                      *)

\* Uploads may come, go and move the rest: the stage stays.
LEMMA UploadsBeside ==
  ASSUME Stage,
         UNCHANGED <<convertMethod, convert, asked, progress, status, nodes>>,
         NEW m \in [1..Len(Work) -> Int],
         \A j \in 1..Len(Work) : Work[j].method # "Upload" =>
           /\ m[j] \in 1..Len(Work')
           /\ Work'[m[j]] = Work[j]
           /\ m[j] <= Len(done') => j <= Len(done) /\ done'[m[j]] = done[j],
         \A i, j \in 1..Len(Work) :
           Work[i].method # "Upload" /\ Work[j].method # "Upload" /\ i < j => m[i] < m[j],
         \A k \in 1..Len(Work') : Work'[k].method # "Upload" =>
           \E j \in 1..Len(Work) : Work[j].method # "Upload" /\ m[j] = k
  PROVE  Stage'
<1>1. CASE Idle
  <2>1. Free(Work')
    BY <1>1 DEF Idle, Free
  <2> QED
    BY <1>1, <2>1 DEF Stage, Idle, Agree, Asked, Marked
<1>2. ASSUME NEW i \in 1..Len(Work), Only(Work, i)
      PROVE  Only(Work', m[i]) /\ Work'[m[i]] = Work[i]
  <2>1. Work[i].method # "Upload"
    BY <1>2 DEF Only
  <2>2. m[i] \in 1..Len(Work') /\ Work'[m[i]] = Work[i]
    BY <2>1
  <2>3. ASSUME NEW k \in 1..Len(Work'), k # m[i] PROVE Work'[k].method = "Upload"
    BY <1>2, <2>3 DEF Only
  <2> QED
    BY <2>1, <2>2, <2>3 DEF Only
<1>3. ASSUME NEW i \in 1..Len(Work), Chain(i) \/ Refreshing(i) \/ Listing(i)
      PROVE  Stage'
  <2>1. Only(Work', m[i]) /\ Work'[m[i]] = Work[i] /\ m[i] \in 1..Len(Work')
    BY <1>2, <1>3 DEF Chain, Refreshing, Listing, Only
  <2>2. m[i] <= Len(done') => i <= Len(done)
    BY <1>3 DEF Chain, Refreshing, Listing, Only
  <2>3. CASE Chain(i)
    <3>1. PICK k \in 1..Len(Work') : k = m[i]
      BY <2>1
    <3>2. Only(Work', k) /\ Work'[k] = Work[i] /\ (k <= Len(done') => i <= Len(done))
      BY <2>1, <2>2, <3>1
    <3>3. Marked(Work[k].rest)'
      BY <2>3, <3>2 DEF Chain, Marked
    <3>4. /\ Work'[k].method \in Kinds /\ Asked'
          /\ Work'[k].method = asked'.kind /\ Work'[k].method = convertMethod'
          /\ k <= Len(done') => convert' = convertMethod'
      BY <2>3, <3>2 DEF Chain, Asked
    <3>5. nodes' # <<>> /\ progress' \in 0..99 /\ RoomFor(progress', Work'[k].rest, nodes')
      BY <2>3, <3>2 DEF Chain
    <3> QED
      BY <3>2, <3>3, <3>4, <3>5 DEF Stage, Chain
  <2>4. CASE Refreshing(i)
    BY <2>1, <2>4 DEF Stage, Refreshing, Asked
  <2>5. CASE Listing(i)
    BY <2>1, <2>5 DEF Stage, Listing, Asked, Agree
  <2> QED
    BY <1>3, <2>3, <2>4, <2>5
<1>4. ASSUME NEW i \in 1..Len(Work), NEW k \in 1..Len(Work), Loading(i, k)
      PROVE  Stage'
  <2>1. /\ Work[i].method # "Upload" /\ Work[k].method # "Upload" /\ i < k
        /\ \A j \in 1..Len(Work) : Work[j].method # "Upload" => j = i \/ j = k
    BY <1>4 DEF Loading, Pair
  <2>2. /\ m[i] \in 1..Len(Work') /\ Work'[m[i]] = Work[i]
        /\ m[k] \in 1..Len(Work') /\ Work'[m[k]] = Work[k]
        /\ m[i] < m[k]
        /\ m[i] <= Len(done') => i <= Len(done) /\ done'[m[i]] = done[i]
    BY <2>1
  <2>3. \A j \in 1..Len(Work') : Work'[j].method # "Upload" => j = m[i] \/ j = m[k]
    BY <2>1
  <2>4. Pair(Work', m[i], m[k])
    BY <2>1, <2>2, <2>3 DEF Pair
  <2> QED
    BY <1>4, <2>2, <2>4 DEF Stage, Loading, Asked
<1> QED
  BY <1>1, <1>3, <1>4 DEF Stage

\* Every call of Work is pending.
LEMMA WorkIsPending ==
  ASSUME TypeOK
  PROVE  \A j \in 1..Len(Work) : Work[j] \in Pending /\ Work[j] \in Calls
<1>1. done \in Seq(Answers) /\ todo \in Seq(Calls) /\ Len(done) \in Nat /\ Len(todo) \in Nat
  BY QueuesTyped
<1>2. ASSUME NEW j \in 1..Len(Work) PROVE Work[j] \in Pending /\ Work[j] \in Calls
  <2>1. j \in 1..(Len(done) + Len(todo)) /\ Work[j] \in Calls
    BY <1>1, WorkTyped DEF Work
  <2>2. CASE j <= Len(done)
    <3>1. j \in 1..Len(done) /\ Work[j] = done[j].call
      BY <1>1, <2>1, <2>2, WorkTyped DEF Work
    <3>2. done[j] \in ToSet(done)
      BY <3>1 DEF ToSet
    <3> QED
      BY <2>1, <3>1, <3>2 DEF Pending
  <2>3. CASE j > Len(done)
    <3>1. j - Len(done) \in 1..Len(todo) /\ Len(done) + (j - Len(done)) = j
      BY <1>1, <2>1, <2>3
    <3>2. Work[Len(done) + (j - Len(done))] = todo[j - Len(done)]
      BY <1>1, <3>1, WorkTyped DEF Work
    <3>3. todo[j - Len(done)] \in ToSet(todo)
      BY <3>1 DEF ToSet
    <3> QED
      BY <2>1, <3>1, <3>2, <3>3 DEF Pending
  <2> QED
    BY <1>1, <2>1, <2>2, <2>3
<1> QED
  BY <1>2

\* The calls that are pending are those of Work.
LEMMA PendingIsWork ==
  ASSUME TypeOK
  PROVE  \A c \in Pending : \E j \in 1..Len(Work) : Work[j] = c
<1>1. done \in Seq(Answers) /\ todo \in Seq(Calls) /\ Len(done) \in Nat /\ Len(todo) \in Nat
  BY QueuesTyped
<1>2. ASSUME NEW c \in Pending PROVE \E j \in 1..Len(Work) : Work[j] = c
  <2>1. CASE c \in ToSet(todo)
    <3>1. PICK j \in 1..Len(todo) : todo[j] = c
      BY <1>1, <2>1 DEF ToSet
    <3>2. Len(done) + j \in 1..Len(Work) /\ Work[Len(done) + j] = todo[j]
      BY <1>1, WorkTyped DEF Work
    <3> QED
      BY <3>1, <3>2
  <2>2. CASE \E a \in ToSet(done) : a.call = c
    <3>1. PICK j \in 1..Len(done) : done[j].call = c
      BY <1>1, <2>2 DEF ToSet
    <3>2. j \in 1..Len(Work) /\ Work[j] = done[j].call
      BY <1>1, WorkTyped DEF Work
    <3> QED
      BY <3>1, <3>2
  <2> QED
    BY <2>1, <2>2 DEF Pending
<1> QED
  BY <1>2

\* When no conversion, Refresh or question for the list is pending, uploads are
\* all there is.
LEMMA NothingElse ==
  ASSUME TypeOK, Converts \cup Reloads = {}
  PROVE  Free(Work)
<1>1. ASSUME NEW j \in 1..Len(Work) PROVE Work[j].method = "Upload"
  BY WorkIsPending DEF Converts, Reloads, Calls, Methods
<1> QED
  BY <1>1 DEF Free

\* The percentages of a whole chain.
LEMMA Percents ==
  ASSUME NEW n \in Nat \ {0}, NEW k \in Nat, k <= n
  PROVE  100 \div n \in Nat /\ k * (100 \div n) <= 100
<1> DEFINE q == 100 \div n
<1>1. q \in Nat /\ n * q <= 100
  OBVIOUS
<1> HIDE DEF q
<1>2. k * q <= n * q
  BY <1>1
<1>3. k * q \in Nat /\ n * q \in Nat
  BY <1>1
<1> QED
  BY <1>1, <1>2, <1>3 DEF q

LEMMA SizesTyped ==
  ASSUME TypeOK
  PROVE  Len(Work) \in Nat /\ Len(done) \in Nat /\ Len(done) <= Len(Work)
BY QueuesTyped, WorkTyped DEF Work

LEMMA StageConvert ==
  ASSUME TypeInv, ClickConvert, ~overlap'
  PROVE  Stage'
<1> DEFINE cs == ConvertOne(MethodOf(selectValue), CheckedKeys)
           k == Len(Work) + 1
<1>a. TypeOK
  BY DEF TypeInv
<1>1. /\ nodes \in Seq(Resources) /\ nodes # <<>> /\ checked # {}
      /\ CheckedKeys \in Seq(Resources) /\ CheckedKeys # <<>>
      /\ Len(CheckedKeys) <= Len(nodes)
      /\ checked \subseteq ToSet(CheckedKeys)
  <2>1. nodes \in Seq(Resources) /\ checked \subseteq ToSet(nodes) /\ checked # {}
    BY <1>a, ListsTyped DEF TypeOK, ClickConvert
  <2>2. nodes # <<>>
    BY <2>1 DEF ToSet
  <2> QED
    BY <2>1, <2>2, KeysOfChecks
<1>2. /\ cs \in Seq(Calls) /\ Len(cs) = 1
      /\ cs[1].method = MethodOf(selectValue) /\ cs[1].rest = CheckedKeys
      /\ MethodOf(selectValue) \in Kinds
  BY <1>1, MethodOfKind, LinkTyped DEF ConvertOne, Call, Methods
<1>3. CO!Issue(cs) /\ Free(Work)
  BY <1>a, NothingElse DEF ClickConvert
<1> HIDE DEF cs
<1>4. /\ done' = done
      /\ Len(Work') = Len(Work) + 1
      /\ \A j \in 1..Len(Work) : Work'[j] = Work[j]
      /\ \A j \in 1..1 : Work'[Len(Work) + j] = cs[j]
  BY <1>2, <1>3, <1>a, IssueWork
<1>5. /\ Work'[k] = cs[1] /\ k \in 1..Len(Work') /\ ~(k <= Len(done'))
  BY <1>4, <1>a, SizesTyped
<1>6. Only(Work', k)
  <2>1. cs[1].method # "Upload"
    BY <1>2 DEF Kinds
  <2>2. \A j \in 1..Len(Work') : j = k \/ j \in 1..Len(Work)
    BY <1>4, <1>a, SizesTyped
  <2>3. k \notin 1..Len(Work)
    BY <1>a, SizesTyped
  <2> QED
    BY <1>3, <1>4, <1>5, <2>1, <2>2, <2>3 DEF Only, Free
<1>7. /\ progress' = 0 /\ nodes' = nodes /\ convertMethod' = MethodOf(selectValue)
      /\ asked' = [nodes |-> checked, kind |-> MethodOf(selectValue)]
  BY DEF ClickConvert, ProgressReset
<1>8. RoomFor(progress', CheckedKeys, nodes')
  <2>1. Len(nodes) \in Nat \ {0} /\ Len(CheckedKeys) \in Nat
    BY <1>1
  <2>2. /\ Len(CheckedKeys) * (100 \div Len(nodes)) <= 100
        /\ 100 \div Len(nodes) \in Nat
    BY <1>1, <2>1, Percents
  <2>3. 0 + Len(CheckedKeys) * (100 \div Len(nodes)) = Len(CheckedKeys) * (100 \div Len(nodes))
    BY <2>1, <2>2
  <2> QED
    BY <1>7, <2>2, <2>3 DEF RoomFor
<1>9. Asked' /\ \A r \in asked'.nodes : r \in ToSet(CheckedKeys)
  BY <1>1, <1>7 DEF Asked
<1>10. PICK n \in 1..Len(Work') : n = k
  BY <1>5
<1> HIDE DEF k
<1>11. /\ Only(Work', n) /\ Work'[n].method = MethodOf(selectValue)
       /\ Work'[n].rest = CheckedKeys
       /\ ~(n <= Len(done'))
  BY <1>2, <1>5, <1>6, <1>10
<1>12. Marked(Work[n].rest)'
  BY <1>9, <1>11 DEF Marked
<1> QED
  BY <1>1, <1>2, <1>7, <1>8, <1>9, <1>11, <1>12 DEF Stage, Chain

LEMMA StageRefresh ==
  ASSUME TypeInv, ClickRefresh, ~overlap'
  PROVE  Stage'
<1> DEFINE cs == <<Call("Refresh", <<>>)>>
           k == Len(Work) + 1
<1>a. TypeOK
  BY DEF TypeInv
<1>1. cs \in Seq(Calls) /\ Len(cs) = 1 /\ cs[1].method = "Refresh"
  BY GetConfTyped DEF Call
<1>2. CO!Issue(cs) /\ Free(Work)
  BY <1>a, NothingElse DEF ClickRefresh
<1> HIDE DEF cs
<1>3. /\ Len(Work') = Len(Work) + 1
      /\ \A j \in 1..Len(Work) : Work'[j] = Work[j]
      /\ \A j \in 1..1 : Work'[Len(Work) + j] = cs[j]
  BY <1>1, <1>2, <1>a, IssueWork
<1>4. Work'[k] = cs[1] /\ k \in 1..Len(Work')
  BY <1>3, <1>a, SizesTyped
<1>5. \A j \in 1..Len(Work') : j = k \/ j \in 1..Len(Work)
  BY <1>3, <1>a, SizesTyped
<1>6. k \notin 1..Len(Work)
  BY <1>a, SizesTyped
<1>7. Only(Work', k)
  BY <1>1, <1>2, <1>3, <1>4, <1>5, <1>6 DEF Only, Free
<1> HIDE DEF k
<1>8. ~Asked' /\ progress' = 0
  BY DEF ClickRefresh, Asked
<1> QED
  BY <1>1, <1>4, <1>7, <1>8 DEF Stage, Refreshing

LEMMA StageUpload ==
  ASSUME TypeInv, Stage, ClickUpload
  PROVE  Stage'
<1> DEFINE cs == UploadOne(CheckedKeys)
           m == [j \in 1..Len(Work) |-> j]
<1>a. TypeOK
  BY DEF TypeInv
<1>1. cs \in Seq(Calls) /\ \A j \in 1..Len(cs) : cs[j].method = "Upload"
  <2>1. nodes \in Seq(Resources) /\ checked \subseteq ToSet(nodes)
    BY <1>a, ListsTyped DEF TypeOK
  <2>2. CheckedKeys \in Seq(Resources)
    BY <2>1, KeysOfChecks
  <2> QED
    BY <2>2, LinkTyped DEF UploadOne, Call, Methods
<1>2. CO!Issue(cs)
  BY DEF ClickUpload
<1> HIDE DEF cs
<1>3. /\ done' = done /\ Len(cs) \in Nat
      /\ Len(Work') = Len(Work) + Len(cs)
      /\ \A j \in 1..Len(Work) : Work'[j] = Work[j]
      /\ \A j \in 1..Len(cs) : Work'[Len(Work) + j] = cs[j]
  BY <1>1, <1>2, <1>a, IssueWork
<1>4. ASSUME NEW j \in 1..Len(Work')
      PROVE  j \in 1..Len(Work) \/ Work'[j].method = "Upload"
  <2>1. CASE j > Len(Work)
    <3>1. j - Len(Work) \in 1..Len(cs) /\ Len(Work) + (j - Len(Work)) = j
      BY <1>3, <1>a, <2>1, SizesTyped
    <3> QED
      BY <1>1, <1>3, <3>1
  <2> QED
    BY <1>a, <2>1, SizesTyped
<1>5. m \in [1..Len(Work) -> Int]
  OBVIOUS
<1>6. \A j \in 1..Len(Work) : Work[j].method # "Upload" =>
        /\ m[j] \in 1..Len(Work')
        /\ Work'[m[j]] = Work[j]
        /\ m[j] <= Len(done') => j <= Len(done) /\ done'[m[j]] = done[j]
  BY <1>3, <1>a, SizesTyped
<1>7. \A i, j \in 1..Len(Work) :
        Work[i].method # "Upload" /\ Work[j].method # "Upload" /\ i < j => m[i] < m[j]
  OBVIOUS
<1>8. \A k \in 1..Len(Work') : Work'[k].method # "Upload" =>
        \E j \in 1..Len(Work) : Work[j].method # "Upload" /\ m[j] = k
  BY <1>3, <1>4
<1> HIDE DEF m
<1> QED
  BY <1>5, <1>6, <1>7, <1>8, UploadsBeside DEF ClickUpload, pageVars, appVars

LEMMA StageRunUpload ==
  ASSUME TypeInv, Stage, RunUpload
  PROVE  Stage'
<1>a. TypeOK /\ Len(Work) \in Nat /\ Len(done) \in Nat /\ Len(done) <= Len(Work)
  BY SizesTyped DEF TypeInv
<1>b. /\ UNCHANGED <<convertMethod, convert, asked, progress, status, nodes>>
      /\ Head(todo).method = "Upload"
  BY DEF RunUpload, pageVars, appVars, pastVars
<1>1. CASE \E d \in Data : CO!Answer(d)
  <2> DEFINE m == [j \in 1..Len(Work) |-> j]
  <2>1. /\ Work' = Work /\ Len(done') = Len(done) + 1 /\ Len(done) < Len(Work)
        /\ Work[Len(done) + 1].method = "Upload"
        /\ \A j \in 1..Len(done) : done'[j] = done[j]
    BY <1>1, <1>a, <1>b, AnswerWork
  <2>2. m \in [1..Len(Work) -> Int]
    OBVIOUS
  <2>3. \A j \in 1..Len(Work) : Work[j].method # "Upload" =>
          /\ m[j] \in 1..Len(Work')
          /\ Work'[m[j]] = Work[j]
          /\ m[j] <= Len(done') => j <= Len(done) /\ done'[m[j]] = done[j]
    <3>1. ASSUME NEW j \in 1..Len(Work), Work[j].method # "Upload", j <= Len(done')
          PROVE  j \in 1..Len(done)
      BY <1>a, <2>1, <3>1
    <3> QED
      BY <1>a, <2>1, <3>1
  <2>4. \A i, j \in 1..Len(Work) :
          Work[i].method # "Upload" /\ Work[j].method # "Upload" /\ i < j => m[i] < m[j]
    OBVIOUS
  <2>5. \A k \in 1..Len(Work') : Work'[k].method # "Upload" =>
          \E j \in 1..Len(Work) : Work[j].method # "Upload" /\ m[j] = k
    BY <2>1
  <2> HIDE DEF m
  <2> QED
    BY <1>b, <2>2, <2>3, <2>4, <2>5, UploadsBeside
<1>2. CASE CO!Fail
  <2> DEFINE m == [j \in 1..Len(Work) |-> IF j <= Len(done) THEN j ELSE j - 1]
  <2>1. /\ done' = done /\ Len(Work') = Len(Work) - 1 /\ Len(done) < Len(Work)
        /\ Work[Len(done) + 1].method = "Upload"
        /\ \A j \in 1..Len(done) : Work'[j] = Work[j]
        /\ \A j \in (Len(done) + 1)..Len(Work') : Work'[j] = Work[j + 1]
    BY <1>2, <1>a, <1>b, FailWork
  <2>2. m \in [1..Len(Work) -> Int]
    BY <1>a
  <2>3. ASSUME NEW j \in 1..Len(Work), Work[j].method # "Upload"
        PROVE  /\ m[j] \in 1..Len(Work')
               /\ Work'[m[j]] = Work[j]
               /\ m[j] <= Len(done') => j <= Len(done) /\ done'[m[j]] = done[j]
    <3>1. CASE j <= Len(done)
      BY <1>a, <2>1, <3>1
    <3>2. CASE j > Len(done)
      <4>1. j # Len(done) + 1
        BY <2>1, <2>3
      <4>2. /\ m[j] = j - 1 /\ j - 1 \in (Len(done) + 1)..Len(Work') /\ (j - 1) + 1 = j
        BY <1>a, <2>1, <3>2, <4>1
      <4>3. Work'[j - 1] = Work[(j - 1) + 1]
        BY <2>1, <4>2
      <4> QED
        BY <1>a, <2>1, <4>2, <4>3
    <3> QED
      BY <1>a, <3>1, <3>2
  <2>4. ASSUME NEW i \in 1..Len(Work), NEW j \in 1..Len(Work),
               Work[i].method # "Upload", Work[j].method # "Upload", i < j
        PROVE  m[i] < m[j]
    <3>1. i # Len(done) + 1 /\ j # Len(done) + 1
      BY <2>1, <2>4
    <3> QED
      BY <1>a, <2>4, <3>1
  <2>5. ASSUME NEW k \in 1..Len(Work'), Work'[k].method # "Upload"
        PROVE  \E j \in 1..Len(Work) : Work[j].method # "Upload" /\ m[j] = k
    <3>1. CASE k <= Len(done)
      BY <1>a, <2>1, <2>5, <3>1
    <3>2. CASE k > Len(done)
      <4>1. k \in (Len(done) + 1)..Len(Work') /\ k + 1 \in 1..Len(Work) /\ m[k + 1] = k
        BY <1>a, <2>1, <3>2
      <4> QED
        BY <2>1, <2>5, <4>1
    <3> QED
      BY <1>a, <3>1, <3>2
  <2> HIDE DEF m
  <2> QED
    BY <1>b, <2>2, <2>3, <2>4, <2>5, UploadsBeside
<1> QED
  BY <1>1, <1>2, SaysTyped DEF RunUpload, Served

\* The call that is run, when it is not an upload, has its place in the stage.
LEMMA StageRun ==
  ASSUME TypeInv, Stage, ~cut',
         RunGetConf \/ RunGetResourceNameAll \/ RunRefresh \/ RunConvert
  PROVE  Stage'
<1> DEFINE n == Len(done) + 1
<1>a. TypeOK /\ Len(Work) \in Nat /\ Len(done) \in Nat /\ Len(done) <= Len(Work)
  BY SizesTyped DEF TypeInv
<1>b. UNCHANGED <<convertMethod, asked, progress, status, nodes>>
  BY DEF RunGetConf, RunGetResourceNameAll, RunRefresh, RunConvert, pageVars, appVars, pastVars
<1>1. PICK d \in Data :
        /\ CO!Answer(d)
        /\ RunGetConf => d.kind = convert
  <2>1. convert \in Kinds \cup {"none"} /\ list \in Lists \cup {<<>>}
    BY <1>a DEF TypeOK
  <2>2. [Says EXCEPT !.kind = convert].kind = convert
    BY DEF Says
  <2>3. RunGetConf => ~RunRefresh /\ ~RunConvert /\ ~RunGetResourceNameAll
    BY DEF RunGetConf, RunRefresh, RunConvert, RunGetResourceNameAll, Kinds
  <2>4. \A d : Served(d) /\ Head(todo).method # "Upload" => CO!Answer(d)
    BY DEF Served, Missed
  <2>5. Head(todo).method # "Upload"
    BY DEF RunGetConf, RunGetResourceNameAll, RunRefresh, RunConvert, Kinds
  <2> QED
    BY <2>1, <2>2, <2>3, <2>4, <2>5, SaysTyped
    DEF RunGetConf, RunGetResourceNameAll, RunRefresh, RunConvert
<1>2. /\ Work' = Work /\ Len(done') = n /\ n \in 1..Len(Work)
      /\ Work[n] = Head(todo)
      /\ \A j \in 1..Len(done) : done'[j] = done[j]
      /\ done'[n].data = d
  <2>1. /\ Work' = Work /\ Len(done) < Len(Work)
        /\ Work[n] = Head(todo)
        /\ Len(done') = n
        /\ \A j \in 1..Len(done) : done'[j] = done[j]
        /\ done'[n] = [call |-> Head(todo), data |-> d]
    BY <1>1, <1>a, AnswerWork
  <2>2. n \in 1..Len(Work)
    BY <1>a, <2>1
  <2> QED
    BY <2>1, <2>2
<1>3. Work[n].method # "Upload"
  <2>1. Head(todo).method \in {"GetConf", "GetResourceNameAll", "Refresh", "Bin", "Json"}
    BY DEF RunGetConf, RunGetResourceNameAll, RunRefresh, RunConvert, Kinds
  <2> QED
    BY <1>2, <2>1
<1>4. ~Idle
  BY <1>2, <1>3 DEF Idle, Free
<1>5. n <= Len(done') /\ \A j \in 1..Len(Work) : j <= Len(done') => j \in 1..Len(done) \/ j = n
  BY <1>a, <1>2
<1> HIDE DEF n
<1>6. CASE RunGetConf
  <2>1. Work[n].method = "GetConf" /\ convert' = convert /\ d.kind = convert
    BY <1>1, <1>2, <1>6 DEF RunGetConf, appVars
  <2>2. PICK i, k \in 1..Len(Work) : Loading(i, k)
    BY <1>2, <1>3, <1>4, <2>1
    DEF Stage, Chain, Refreshing, Listing, Only, Kinds
  <2>3. i = n
    BY <1>2, <2>1, <2>2 DEF Loading, Pair
  <2>4. done'[i].data.kind = convert'
    BY <1>2, <2>1, <2>3
  <2> QED
    BY <1>b, <1>2, <2>2, <2>4 DEF Stage, Loading, Asked
<1>7. CASE RunGetResourceNameAll
  <2>1. Work[n].method = "GetResourceNameAll" /\ convert' = convert
    BY <1>2, <1>7 DEF RunGetResourceNameAll, appVars
  <2>2. CASE \E i \in 1..Len(Work) : Chain(i) \/ Refreshing(i) \/ Listing(i)
    <3>1. PICK i \in 1..Len(Work) : Listing(i)
      BY <1>2, <1>3, <2>1, <2>2 DEF Chain, Refreshing, Listing, Only, Kinds
    <3> QED
      BY <1>b, <1>2, <2>1, <3>1 DEF Stage, Listing, Asked, Agree
  <2>3. CASE \E i, k \in 1..Len(Work) : Loading(i, k)
    <3>1. PICK i, k \in 1..Len(Work) : Loading(i, k)
      BY <2>3
    <3>2. i # n
      BY <2>1, <3>1 DEF Loading
    <3>3. i <= Len(done') => i \in 1..Len(done) /\ i <= Len(done)
      BY <1>a, <1>5, <3>2
    <3>4. i <= Len(done') => done'[i].data.kind = convert'
      BY <1>2, <2>1, <3>1, <3>3 DEF Loading
    <3> QED
      BY <1>b, <1>2, <3>1, <3>4 DEF Stage, Loading, Asked
  <2> QED
    BY <1>4, <2>2, <2>3 DEF Stage
<1>8. CASE RunRefresh
  <2>1. Work[n].method = "Refresh"
    BY <1>2, <1>8 DEF RunRefresh
  <2>2. PICK i \in 1..Len(Work) : Refreshing(i)
    BY <1>2, <1>3, <1>4, <2>1
    DEF Stage, Chain, Refreshing, Listing, Loading, Only, Pair, Kinds
  <2> QED
    BY <1>b, <1>2, <2>2 DEF Stage, Refreshing, Asked
<1>9. CASE RunConvert
  <2>1. Work[n].method \in Kinds /\ convert' = Work[n].method
    BY <1>2, <1>9 DEF RunConvert
  <2>2. PICK i \in 1..Len(Work) : Chain(i)
    BY <1>2, <1>3, <1>4, <2>1
    DEF Stage, Chain, Refreshing, Listing, Loading, Only, Pair, Kinds
  <2>3. i = n
    BY <1>2, <1>3, <2>2 DEF Chain, Only
  <2>4. convert' = convertMethod'
    BY <1>b, <2>1, <2>2, <2>3 DEF Chain
  <2>5. Marked(Work[i].rest)'
    BY <1>b, <1>2, <2>2 DEF Chain, Marked
  <2> QED
    BY <1>b, <1>2, <2>2, <2>4, <2>5 DEF Stage, Chain, Asked
<1> QED
  BY <1>6, <1>7, <1>8, <1>9

\* An upload's answer is gone, handed over or lost, and uploads may follow it.
LEMMA UploadHanded ==
  ASSUME TypeInv, Stage, NEW cs \in Seq(Calls), CO!Hand(cs),
         \A j \in 1..Len(cs) : cs[j].method = "Upload",
         Head(done).call.method = "Upload",
         UNCHANGED <<convertMethod, convert, asked, progress, status, nodes>>
  PROVE  Stage'
<1> DEFINE m == [j \in 1..Len(Work) |-> j - 1]
<1>a. TypeOK /\ Len(Work) \in Nat /\ Len(done) \in Nat /\ Len(done) <= Len(Work)
  BY SizesTyped DEF TypeInv
<1>2. /\ Len(Work) > 0 /\ Work[1].method = "Upload" /\ Len(cs) \in Nat
      /\ Len(Work') = Len(Work) - 1 + Len(cs)
      /\ \A j \in 1..(Len(Work) - 1) : Work'[j] = Work[j + 1]
      /\ \A j \in 1..Len(cs) : Work'[Len(Work) - 1 + j] = cs[j]
      /\ Len(done') = Len(done) - 1
      /\ \A j \in 1..Len(done') : done'[j] = done[j + 1]
  <2>1. /\ Len(Work) > 0 /\ Work[1] = Head(done).call
        /\ Len(Work') = Len(Work) - 1 + Len(cs)
        /\ \A j \in 1..(Len(Work) - 1) : Work'[j] = Work[j + 1]
        /\ \A j \in 1..Len(cs) : Work'[Len(Work) - 1 + j] = cs[j]
        /\ Len(done') = Len(done) - 1
        /\ \A j \in 1..Len(done') : done'[j] = done[j + 1]
    BY <1>a, HandWork
  <2>2. Len(cs) \in Nat
    OBVIOUS
  <2> QED
    BY <2>1, <2>2
<1>3. m \in [1..Len(Work) -> Int]
  BY <1>a
<1>4. ASSUME NEW j \in 1..Len(Work), Work[j].method # "Upload"
      PROVE  /\ m[j] \in 1..Len(Work')
             /\ Work'[m[j]] = Work[j]
             /\ m[j] <= Len(done') => j <= Len(done) /\ done'[m[j]] = done[j]
  <2>1. j # 1
    BY <1>2, <1>4
  <2>2. m[j] = j - 1 /\ j - 1 \in 1..(Len(Work) - 1) /\ (j - 1) + 1 = j
    BY <1>a, <2>1
  <2>3. Work'[j - 1] = Work[(j - 1) + 1]
    BY <1>2, <2>2
  <2>4. ASSUME j - 1 <= Len(done')
        PROVE  j <= Len(done) /\ done'[j - 1] = done[(j - 1) + 1]
    BY <1>a, <1>2, <2>2, <2>4
  <2> QED
    BY <1>a, <1>2, <2>2, <2>3, <2>4
<1>5. \A i, j \in 1..Len(Work) :
        Work[i].method # "Upload" /\ Work[j].method # "Upload" /\ i < j => m[i] < m[j]
  BY <1>a
<1>6. ASSUME NEW k \in 1..Len(Work'), Work'[k].method # "Upload"
      PROVE  \E j \in 1..Len(Work) : Work[j].method # "Upload" /\ m[j] = k
  <2>1. CASE k > Len(Work) - 1
    <3>1. k - (Len(Work) - 1) \in 1..Len(cs) /\ Len(Work) - 1 + (k - (Len(Work) - 1)) = k
      BY <1>a, <1>2, <2>1
    <3>2. Work'[k] = cs[k - (Len(Work) - 1)]
      BY <1>2, <3>1
    <3>3. cs[k - (Len(Work) - 1)].method = "Upload"
      BY <3>1
    <3> QED
      BY <1>6, <3>2, <3>3
  <2>2. CASE k <= Len(Work) - 1
    <3>1. k \in 1..(Len(Work) - 1) /\ k + 1 \in 1..Len(Work) /\ m[k + 1] = k
      BY <1>a, <1>2, <2>2
    <3> QED
      BY <1>2, <1>6, <3>1
  <2> QED
    BY <1>a, <1>2, <2>1, <2>2
<1> HIDE DEF m
<1> QED
  BY <1>3, <1>4, <1>5, <1>6, UploadsBeside

LEMMA StageThenUpload ==
  ASSUME TypeInv, Stage,
         ThenUpload \/ (LoseAnswer /\ Head(done).call.method = "Upload")
  PROVE  Stage'
<1>1. UNCHANGED <<convertMethod, convert, asked, progress, status, nodes>>
  BY DEF ThenUpload, LoseAnswer, pageVars, appVars, pastVars
<1>2. Head(done).call.method = "Upload"
  BY DEF ThenUpload, Answered
<1>3. CASE ThenUpload
  <2>1. PICK cs \in Seq(Calls) :
          /\ CO!Hand(cs)
          /\ \A j \in 1..Len(cs) : cs[j].method = "Upload"
    BY <1>3, NextUpload
  <2> QED
    BY <1>1, <1>2, <2>1, UploadHanded
<1>4. CASE LoseAnswer
  <2>1. CO!Hand(<<>>) /\ <<>> \in Seq(Calls) /\ \A j \in 1..Len(<<>>) : FALSE
    BY <1>4, LoseIsHand DEF LoseAnswer, TypeInv
  <2> QED
    BY <1>1, <1>2, <2>1, UploadHanded
<1> QED
  BY <1>3, <1>4

\* The answers about the settings: of the two calls of getConf the first, then
\* the second.
LEMMA StageThenLoaded ==
  ASSUME TypeInv, Stage, ThenGetConf \/ ThenGetResourceNameAll
  PROVE  Stage'
<1>a. TypeOK /\ Len(Work) \in Nat /\ Len(done) \in Nat /\ Len(done) <= Len(Work)
  BY SizesTyped DEF TypeInv
<1>b. /\ CO!Hand(<<>>)
      /\ UNCHANGED <<convert, asked, progress, status>>
  BY DEF ThenGetConf, ThenGetResourceNameAll, appVars, pastVars
<1>1. /\ Len(Work) > 0 /\ Len(done) > 0
      /\ Head(done) = done[1] /\ Work[1] = Head(done).call
      /\ Len(Work') = Len(Work) - 1
      /\ \A j \in 1..(Len(Work) - 1) : Work'[j] = Work[j + 1]
  <2>1. <<>> \in Seq(Calls) /\ Len(<<>>) = 0
    OBVIOUS
  <2>2. /\ done # <<>> /\ Len(done') = Len(done) - 1 /\ done' \in Seq(Answers)
        /\ Head(done) = done[1] /\ Work[1] = Head(done).call
        /\ Len(Work) > 0 /\ Len(Work') = Len(Work) - 1 + Len(<<>>)
        /\ \A j \in 1..(Len(Work) - 1) : Work'[j] = Work[j + 1]
    BY <1>a, <1>b, <2>1, HandWork
  <2>3. Len(done') \in Nat
    BY <2>2
  <2> QED
    BY <1>a, <2>1, <2>2, <2>3
<1>2. Work[1].method \in {"GetConf", "GetResourceNameAll"}
  BY <1>1 DEF ThenGetConf, ThenGetResourceNameAll, Answered
<1>3. ~Idle
  BY <1>a, <1>1, <1>2 DEF Idle, Free
<1>4. ASSUME NEW i \in 1..Len(Work), Chain(i) \/ Refreshing(i) \/ Listing(i)
      PROVE  Stage'
  <2>1. i = 1 /\ Listing(1)
    BY <1>a, <1>1, <1>2, <1>4 DEF Chain, Refreshing, Listing, Only, Kinds
  <2>2. ~ThenGetConf
    BY <1>1, <2>1 DEF ThenGetConf, Answered, Listing
  <2>3. Free(Work')
    <3>1. ASSUME NEW j \in 1..Len(Work') PROVE Work'[j].method = "Upload"
      <4>1. j \in 1..(Len(Work) - 1) /\ j + 1 \in 1..Len(Work) /\ j + 1 # 1
        BY <1>a, <1>1
      <4> QED
        BY <1>1, <2>1, <4>1 DEF Listing, Only
    <3> QED
      BY <3>1 DEF Free
  <2> QED
    BY <1>b, <2>1, <2>2, <2>3
    DEF ThenGetResourceNameAll, Stage, Idle, Listing, Agree, Asked
<1>5. ASSUME NEW i \in 1..Len(Work), NEW k \in 1..Len(Work), Loading(i, k)
      PROVE  Stage'
  <2>1. i = 1 /\ k # 1
    BY <1>a, <1>1, <1>2, <1>5 DEF Loading, Pair
  <2>2. convertMethod' = MethodOf(convert) /\ convert' = convert
    <3>1. ThenGetConf
      BY <1>1, <1>5, <2>1 DEF ThenGetResourceNameAll, Answered, Loading
    <3>2. done[1].data.kind = convert
      BY <1>1, <1>5, <2>1 DEF Loading
    <3> QED
      BY <1>1, <1>b, <3>1, <3>2 DEF ThenGetConf
  <2>3. PICK p \in 1..Len(Work') : p + 1 = k
    <3>1. k - 1 \in 1..Len(Work') /\ (k - 1) + 1 = k
      BY <1>a, <1>1, <2>1
    <3> QED
      BY <3>1
  <2>4. \A j \in 1..Len(Work') : j + 1 \in 1..Len(Work) /\ j + 1 # 1 /\ Work'[j] = Work[j + 1]
    BY <1>a, <1>1
  <2>5. Work'[p] = Work[k]
    BY <2>3, <2>4
  <2>6. Only(Work', p)
    <3>1. ASSUME NEW j \in 1..Len(Work') PROVE Work'[j].method = "Upload" <=> j # p
      <4>1. j # p <=> j + 1 # k
        BY <2>3
      <4> QED
        BY <1>5, <2>1, <2>4, <4>1 DEF Loading, Pair
    <3> QED
      BY <3>1 DEF Only
  <2> QED
    BY <1>b, <1>5, <2>2, <2>5, <2>6 DEF Stage, Listing, Loading, Agree, Asked
<1> QED
  BY <1>3, <1>4, <1>5 DEF Stage

LEMMA StageThenRefresh ==
  ASSUME TypeInv, Stage, ThenRefresh
  PROVE  Stage'
<1>a. TypeOK /\ Len(Work) \in Nat /\ Len(done) \in Nat /\ Len(done) <= Len(Work)
  BY SizesTyped DEF TypeInv
<1>b. CO!Hand(GetConf) /\ UNCHANGED <<asked, progress>> /\ Answered({"Refresh"})
  BY DEF ThenRefresh, AfterRefresh, pastVars
<1>1. /\ Len(Work) > 0 /\ Work[1].method = "Refresh"
      /\ Len(Work') = Len(Work) + 1
      /\ \A j \in 1..(Len(Work) - 1) : Work'[j] = Work[j + 1]
      /\ \A j \in 1..2 : Work'[Len(Work) - 1 + j] = GetConf[j]
      /\ Len(done') = Len(done) - 1
  <2>1. /\ Len(Work) > 0 /\ Work[1] = Head(done).call
        /\ Len(Work') = Len(Work) - 1 + Len(GetConf)
        /\ \A j \in 1..(Len(Work) - 1) : Work'[j] = Work[j + 1]
        /\ \A j \in 1..Len(GetConf) : Work'[Len(Work) - 1 + j] = GetConf[j]
        /\ Len(done') = Len(done) - 1
    BY <1>a, <1>b, GetConfTyped, HandWork
  <2>2. Head(done).call.method = "Refresh" /\ Len(GetConf) = 2
    BY <1>b, GetConfTyped DEF Answered
  <2>3. Len(Work') = Len(Work) + 1
    BY <1>a, <2>1, <2>2
  <2> QED
    BY <2>1, <2>2, <2>3
<1>2. /\ Work'[Len(Work)].method = "GetConf"
      /\ Work'[Len(Work) + 1].method = "GetResourceNameAll"
  <2>1. 1 \in 1..2 /\ 2 \in 1..2 /\ Len(Work) - 1 + 1 = Len(Work)
        /\ Len(Work) - 1 + 2 = Len(Work) + 1
    BY <1>a
  <2> QED
    BY <1>1, <2>1, GetConfTyped DEF Call
<1>3. Refreshing(1)
  <2>1. 1 \in 1..Len(Work)
    BY <1>a, <1>1
  <2>2. ~Idle
    BY <1>1, <2>1 DEF Idle, Free
  <2>3. \A i, k \in 1..Len(Work) : ~Loading(i, k)
    BY <1>1, <2>1 DEF Loading, Pair
  <2>4. \A i \in 1..Len(Work) : Chain(i) \/ Refreshing(i) \/ Listing(i) => i = 1 /\ Refreshing(1)
    BY <1>1, <2>1 DEF Chain, Refreshing, Listing, Only, Kinds
  <2> QED
    BY <2>2, <2>3, <2>4 DEF Stage
<1>4. PICK i \in 1..Len(Work'), k \in 1..Len(Work') : i = Len(Work) /\ k = Len(Work) + 1
  BY <1>a, <1>1
<1>5. ASSUME NEW j \in 1..Len(Work') PROVE Work'[j].method = "Upload" <=> j # i /\ j # k
  <2>1. CASE j = i \/ j = k
    BY <1>2, <1>4, <2>1
  <2>2. CASE j # i /\ j # k
    <3>1. j \in 1..(Len(Work) - 1) /\ j + 1 \in 1..Len(Work) /\ j + 1 # 1
      BY <1>a, <1>1, <1>4, <2>2
    <3> QED
      BY <1>1, <1>3, <2>2, <3>1 DEF Refreshing, Only
  <2> QED
    BY <2>1, <2>2
<1>6. Pair(Work', i, k)
  BY <1>4, <1>5, <1>a DEF Pair
<1>7. ~(i <= Len(done'))
  BY <1>4, <1>1, <1>a
<1> QED
  BY <1>b, <1>2, <1>3, <1>4, <1>6, <1>7 DEF Stage, Loading, Refreshing, Asked

LEMMA StageThenConvert ==
  ASSUME TypeInv, Stage, ThenConvert
  PROVE  Stage'
<1> DEFINE rest == Head(done).call.rest
<1>a. TypeOK /\ Len(Work) \in Nat /\ Len(done) \in Nat /\ Len(done) <= Len(Work)
  BY SizesTyped DEF TypeInv
<1>b. UNCHANGED <<asked, convert, convertMethod, nodes>>
  BY DEF ThenConvert, appVars, pastVars
<1>1. /\ rest \in Seq(Resources) /\ rest # <<>> /\ Head(rest) \in Resources
      /\ Head(done).call.method \in Kinds
      /\ Head(done).data.ok \in BOOLEAN
  BY NextConversion DEF Answers, Data
<1>2. PICK cs \in Seq(Calls) :
        /\ CO!Hand(cs)
        /\ Tail(rest) = <<>> => Len(cs) = 0
        /\ Tail(rest) # <<>> => /\ Len(cs) = 1
                               /\ cs[1].method = convertMethod
                               /\ cs[1].rest = Tail(rest)
  BY NextConversion
<1>3. /\ Len(Work) > 0 /\ Work[1] = Head(done).call
      /\ Len(Work') = Len(Work) - 1 + Len(cs)
      /\ \A j \in 1..(Len(Work) - 1) : Work'[j] = Work[j + 1]
      /\ \A j \in 1..Len(cs) : Work'[Len(Work) - 1 + j] = cs[j]
      /\ Len(done') = Len(done) - 1 /\ Len(done) > 0
  <2>1. /\ Len(Work) > 0 /\ Work[1] = Head(done).call
        /\ Len(Work') = Len(Work) - 1 + Len(cs)
        /\ \A j \in 1..(Len(Work) - 1) : Work'[j] = Work[j + 1]
        /\ \A j \in 1..Len(cs) : Work'[Len(Work) - 1 + j] = cs[j]
        /\ Len(done') = Len(done) - 1 /\ done' \in Seq(Answers)
    BY <1>2, <1>a, HandWork
  <2>2. Len(done) > 0
    <3>1. Len(done') \in Nat
      BY <2>1
    <3> QED
      BY <1>a, <2>1, <3>1
  <2> QED
    BY <2>1, <2>2
<1>4. Chain(1) /\ 1 \in 1..Len(Work)
  <2>1. 1 \in 1..Len(Work) /\ Work[1].method \in Kinds
    BY <1>a, <1>1, <1>3
  <2>2. ~Idle
    BY <2>1 DEF Idle, Free, Kinds
  <2>3. \A i, k \in 1..Len(Work) : ~Loading(i, k)
    BY <2>1 DEF Loading, Pair, Kinds
  <2>4. \A i \in 1..Len(Work) : Chain(i) \/ Refreshing(i) \/ Listing(i) => i = 1 /\ Chain(1)
    BY <2>1 DEF Chain, Refreshing, Listing, Only, Kinds
  <2> QED
    BY <2>1, <2>2, <2>3, <2>4 DEF Stage
<1>5. convert = convertMethod /\ convertMethod \in Kinds
  BY <1>a, <1>3, <1>4 DEF Chain
<1>6. /\ Asked /\ Work[1].rest = rest /\ convertMethod = asked.kind
      /\ nodes # <<>> /\ progress \in 0..99 /\ RoomFor(progress, rest, nodes)
      /\ \A r \in asked.nodes : status[r] # "none" \/ r \in ToSet(rest)
  BY <1>3, <1>4 DEF Chain, Marked
<1>7. /\ Len(rest) \in Nat \ {0}
      /\ Len(Tail(rest)) = Len(rest) - 1
      /\ Tail(rest) = <<>> <=> Len(rest) = 1
      /\ \A r \in ToSet(rest) : r = Head(rest) \/ r \in ToSet(Tail(rest))
  <2>1. /\ Len(rest) \in Nat \ {0} /\ Tail(rest) \in Seq(Resources)
        /\ Len(Tail(rest)) = Len(rest) - 1 /\ Head(rest) = rest[1]
        /\ \A j \in 1..Len(Tail(rest)) : Tail(rest)[j] = rest[j + 1]
    <3> HIDE DEF rest
    <3> QED
      BY <1>1
  <2>2. ASSUME NEW j \in 1..Len(rest), j # 1 PROVE rest[j] \in ToSet(Tail(rest))
    <3> HIDE DEF rest
    <3>1. j - 1 \in 1..Len(Tail(rest)) /\ (j - 1) + 1 = j
      BY <2>1, <2>2
    <3>2. Tail(rest)[j - 1] = rest[j] /\ j - 1 \in DOMAIN Tail(rest)
      BY <2>1, <3>1
    <3> QED
      BY <3>2 DEF ToSet
  <2>3. \A r \in ToSet(rest) : r = Head(rest) \/ r \in ToSet(Tail(rest))
    <3> HIDE DEF rest
    <3> QED
      BY <1>1, <2>1, <2>2 DEF ToSet
  <2>4. Tail(rest) = <<>> <=> Len(rest) = 1
    <3> HIDE DEF rest
    <3>1. \A t \in Seq(Resources) : t = <<>> <=> Len(t) = 0
      BY EmptySeq
    <3> DEFINE next == Tail(rest)
    <3>2. next \in Seq(Resources) /\ Len(next) = Len(rest) - 1 /\ Len(rest) \in Nat
      BY <2>1
    <3> HIDE DEF next
    <3>3. next = <<>> <=> Len(rest) = 1
      BY <3>1, <3>2
    <3> QED
      BY <3>3 DEF next
  <2> HIDE DEF rest
  <2> QED
    BY <2>1, <2>3, <2>4
<1>8. \A r \in asked'.nodes : status'[r] # "none" \/ r \in ToSet(Tail(rest))
  <2>1. status' = [status EXCEPT ![Head(rest)] =
                     IF Head(done).data.ok THEN "success" ELSE "fail"]
    BY DEF ThenConvert
  <2>2. status \in [Resources -> {"none", "fail", "success"}] /\ asked.nodes \subseteq Resources
    BY <1>a DEF TypeOK
  <2> HIDE DEF rest
  <2>3. ASSUME NEW r \in asked.nodes
        PROVE  status'[r] # "none" \/ r \in ToSet(Tail(rest))
    <3>1. CASE r = Head(rest)
      BY <1>1, <2>1, <2>2, <3>1
    <3>2. CASE r # Head(rest)
      BY <1>6, <1>7, <2>1, <2>2, <3>2
    <3> QED
      BY <3>1, <3>2
  <2> QED
    BY <1>b, <2>3
<1>9. progress' = IF Len(rest) = 1 THEN 100 ELSE Advanced
  BY DEF ThenConvert, IsLast
<1>10. \A j \in 1..(Len(Work) - 1) : Work'[j].method = "Upload"
  <2>1. ASSUME NEW j \in 1..(Len(Work) - 1) PROVE Work'[j].method = "Upload"
    <3>1. j + 1 \in 1..Len(Work) /\ j + 1 # 1
      BY <1>a
    <3> QED
      BY <1>3, <1>4, <3>1 DEF Chain, Only
  <2> QED
    BY <2>1
<1> HIDE DEF rest
<1>11. CASE Len(rest) = 1
  <2>1. Len(Work') = Len(Work) - 1
    BY <1>a, <1>2, <1>3, <1>7, <1>11
  <2>2. Free(Work')
    BY <1>10, <2>1 DEF Free
  <2>3. Marked(<<>>)'
    <3>1. Tail(rest) = <<>>
      BY <1>7, <1>11
    <3> QED
      BY <1>8, <3>1 DEF Marked
  <2>4. Agree'
    BY <1>5, <1>b DEF Agree, MethodOf, Kinds
  <2>5. progress' = 100 /\ Asked'
    BY <1>6, <1>9, <1>11, <1>b DEF Asked
  <2> QED
    BY <2>2, <2>3, <2>4, <2>5 DEF Stage, Idle
<1>12. CASE Len(rest) # 1
  <2>1. Len(cs) = 1 /\ cs[1].method = convertMethod /\ cs[1].rest = Tail(rest)
    BY <1>2, <1>7, <1>12
  <2>2. PICK i \in 1..Len(Work') : i = Len(Work)
    BY <1>a, <1>3, <2>1
  <2>3. Work'[i] = cs[1]
    <3>1. 1 \in 1..Len(cs) /\ Len(Work) - 1 + 1 = i
      BY <1>a, <2>1, <2>2
    <3> QED
      BY <1>3, <3>1
  <2>4. Only(Work', i)
    <3>1. \A j \in 1..Len(Work') : j = i \/ j \in 1..(Len(Work) - 1)
      BY <1>a, <1>3, <2>1, <2>2
    <3>2. i \notin 1..(Len(Work) - 1)
      BY <1>a, <2>2
    <3> QED
      BY <1>5, <1>10, <2>1, <2>3, <3>1, <3>2 DEF Only, Kinds
  <2>5. ~(i <= Len(done'))
    BY <1>a, <1>3, <2>2
  <2>6. progress' \in 0..99 /\ RoomFor(progress', Tail(rest), nodes')
    <3> DEFINE step == 100 \div Len(nodes)
    <3>1. step \in Nat
      <4>1. nodes \in Seq(Resources)
        BY <1>a, ListsTyped DEF TypeOK
      <4>2. Len(nodes) \in Nat \ {0}
        BY <1>6, <4>1
      <4> QED
        BY <4>2
    <3>2. progress' = progress + step
      BY <1>6, <1>9, <1>12 DEF Advanced, Infinity
    <3>3. progress + Len(rest) * step <= 100
      BY <1>6 DEF RoomFor
    <3> HIDE DEF step
    <3>4. PICK n \in Nat : Len(rest) = n + 1 /\ Len(Tail(rest)) = n /\ n >= 1
      <4>1. /\ Len(rest) - 1 \in Nat /\ Len(rest) = (Len(rest) - 1) + 1
            /\ Len(Tail(rest)) = Len(rest) - 1 /\ Len(rest) - 1 >= 1
        BY <1>7, <1>12
      <4> QED
        BY <4>1
    <3>5. (n + 1) * step = n * step + step /\ n * step \in Nat /\ n * step >= step
      BY <3>1, <3>4
    <3>6. progress + (n * step + step) <= 100
      BY <3>3, <3>4, <3>5
    <3>7. progress' \in 0..99
      <4> DEFINE all == n * step
      <4>1. all \in Nat /\ all >= step /\ progress + (all + step) <= 100
        BY <3>5, <3>6
      <4> HIDE DEF all
      <4> QED
        BY <1>6, <3>1, <3>2, <4>1
    <3>8. progress' + n * step <= 100
      <4> DEFINE all == n * step
      <4>1. all \in Nat /\ progress + (all + step) <= 100
        BY <3>5, <3>6
      <4> HIDE DEF all
      <4>2. progress' + all <= 100
        BY <1>6, <3>1, <3>2, <4>1
      <4> QED
        BY <4>2 DEF all
    <3>9. RoomFor(progress', Tail(rest), nodes')
      BY <1>b, <3>4, <3>8 DEF RoomFor, step
    <3> QED
      BY <3>7, <3>9
  <2>7. Marked(Work[i].rest)'
    BY <1>8, <2>1, <2>3 DEF Marked
  <2> QED
    BY <1>b, <1>5, <1>6, <2>1, <2>3, <2>4, <2>5, <2>6, <2>7 DEF Stage, Chain, Asked
<1> QED
  BY <1>11, <1>12

\* A call whose answer is missed leaves Work; all others stay.
LEMMA MissedWork ==
  ASSUME TypeInv, NEW m,
         \/ CO!Fail /\ Head(todo).method = m
         \/ CO!Lose /\ Head(done).call.method = m
  PROVE  \E n \in 1..Len(Work) :
           /\ Work[n].method = m
           /\ \A j \in 1..Len(Work') : \E k \in 1..Len(Work) : k # n /\ Work'[j] = Work[k]
<1>a. TypeOK /\ Len(Work) \in Nat /\ Len(done) \in Nat /\ Len(done) <= Len(Work)
  BY SizesTyped DEF TypeInv
<1>1. ASSUME NEW n \in 1..Len(Work), Work[n].method = m, Len(Work') = Len(Work) - 1,
             \A j \in 1..(n - 1) : Work'[j] = Work[j],
             \A j \in n..Len(Work') : Work'[j] = Work[j + 1]
      PROVE  \A j \in 1..Len(Work') : \E k \in 1..Len(Work) : k # n /\ Work'[j] = Work[k]
  <2>1. ASSUME NEW j \in 1..Len(Work')
        PROVE  \E k \in 1..Len(Work) : k # n /\ Work'[j] = Work[k]
    <3>1. CASE j < n
      <4>1. j \in 1..(n - 1) /\ j \in 1..Len(Work) /\ j # n
        BY <1>a, <1>1, <3>1
      <4> QED
        BY <1>1, <4>1
    <3>2. CASE j >= n
      <4>1. j \in n..Len(Work') /\ j + 1 \in 1..Len(Work) /\ j + 1 # n
        BY <1>a, <1>1, <3>2
      <4> QED
        BY <1>1, <4>1
    <3> QED
      BY <1>a, <1>1, <3>1, <3>2
  <2> QED
    BY <2>1
<1>2. CASE CO!Fail /\ Head(todo).method = m
  <2>1. /\ Len(done) < Len(Work) /\ Work[Len(done) + 1] = Head(todo)
        /\ Len(Work') = Len(Work) - 1
        /\ \A j \in 1..Len(done) : Work'[j] = Work[j]
        /\ \A j \in (Len(done) + 1)..Len(Work') : Work'[j] = Work[j + 1]
    BY <1>2, <1>a, FailWork
  <2>2. PICK n \in 1..Len(Work) : n = Len(done) + 1 /\ n - 1 = Len(done)
    BY <1>a, <2>1
  <2>3. Work[n].method = m
    BY <1>2, <2>1, <2>2
  <2>4. /\ \A j \in 1..(n - 1) : Work'[j] = Work[j]
        /\ \A j \in n..Len(Work') : Work'[j] = Work[j + 1]
    BY <2>1, <2>2
  <2> QED
    BY <1>1, <2>1, <2>3, <2>4
<1>3. CASE CO!Lose /\ Head(done).call.method = m
  <2>1. CO!Hand(<<>>) /\ <<>> \in Seq(Calls) /\ Len(<<>>) = 0
    BY <1>3, <1>a, LoseIsHand
  <2>2. /\ Len(Work) > 0 /\ Work[1] = Head(done).call
        /\ Len(Work') = Len(Work) - 1 + 0
        /\ \A j \in 1..(Len(Work) - 1) : Work'[j] = Work[j + 1]
    BY <1>a, <2>1, HandWork
  <2>3. 1 \in 1..Len(Work) /\ Len(Work') = Len(Work) - 1 /\ Work[1].method = m
    BY <1>3, <1>a, <2>2
  <2>4. /\ \A j \in 1..(1 - 1) : Work'[j] = Work[j]
        /\ \A j \in 1..Len(Work') : Work'[j] = Work[j + 1]
    BY <2>2, <2>3
  <2> QED
    BY <1>1, <2>3, <2>4
<1> QED
  BY <1>2, <1>3

\* It was what a chain waits for: without it no link follows.
LEMMA StageCut ==
  ASSUME TypeInv, Stage, progress' = progress, NEW m, m # "Upload",
         \/ CO!Fail /\ Head(todo).method = m
         \/ CO!Lose /\ Head(done).call.method = m
  PROVE  Halted'
<1>1. PICK n \in 1..Len(Work) :
        /\ Work[n].method = m
        /\ \A j \in 1..Len(Work') : \E k \in 1..Len(Work) : k # n /\ Work'[j] = Work[k]
  BY MissedWork
<1>2. ~Idle
  BY <1>1 DEF Idle, Free
<1>3. /\ progress \in 0..99
      /\ \A k \in 1..Len(Work) : k # n => Work[k].method \notin Kinds
  <2>1. CASE \E i \in 1..Len(Work) : Chain(i) \/ Refreshing(i) \/ Listing(i)
    BY <1>1, <2>1 DEF Chain, Refreshing, Listing, Only, Kinds
  <2>2. CASE \E i, k \in 1..Len(Work) : Loading(i, k)
    BY <1>1, <2>2 DEF Loading, Pair, Kinds
  <2> QED
    BY <1>2, <2>1, <2>2 DEF Stage
<1> QED
  BY <1>1, <1>3 DEF Halted

LEMMA HaltedStays ==
  ASSUME Halted, progress' = progress,
         \A j \in 1..Len(Work') :
           \/ Work'[j].method \notin Kinds
           \/ \E k \in 1..Len(Work) : Work'[j] = Work[k]
  PROVE  Halted'
BY DEF Halted

LEMMA HaltedIssue ==
  ASSUME TypeInv, Halted, progress' = progress, NEW cs \in Seq(Calls),
         CO!Issue(cs) \/ CO!Hand(cs),
         \A j \in 1..Len(cs) : cs[j].method \notin Kinds
  PROVE  Halted'
<1>a. TypeOK /\ Len(Work) \in Nat /\ Len(cs) \in Nat
  BY SizesTyped DEF TypeInv
<1>1. ASSUME NEW n \in {Len(Work), Len(Work) - 1}, NEW d \in {0, 1}, n + d = Len(Work),
             Len(Work') = n + Len(cs), n >= 0,
             \A j \in 1..n : Work'[j] = Work[j + d],
             \A j \in 1..Len(cs) : Work'[n + j] = cs[j]
      PROVE  Halted'
  <2>1. ASSUME NEW j \in 1..Len(Work')
        PROVE  \/ Work'[j].method \notin Kinds
               \/ \E k \in 1..Len(Work) : Work'[j] = Work[k]
    <3>1. CASE j <= n
      <4>1. j \in 1..n /\ j + d \in 1..Len(Work)
        BY <1>a, <1>1, <3>1
      <4> QED
        BY <1>1, <4>1
    <3>2. CASE j > n
      <4>1. j - n \in 1..Len(cs) /\ n + (j - n) = j
        BY <1>a, <1>1, <3>2
      <4> QED
        BY <1>1, <4>1
    <3> QED
      BY <1>a, <1>1, <3>1, <3>2
  <2> QED
    BY <2>1, HaltedStays
<1>2. CASE CO!Issue(cs)
  <2>1. /\ Len(Work') = Len(Work) + Len(cs)
        /\ \A j \in 1..Len(Work) : Work'[j] = Work[j]
        /\ \A j \in 1..Len(cs) : Work'[Len(Work) + j] = cs[j]
    BY <1>2, <1>a, IssueWork
  <2>2. \A j \in 1..Len(Work) : Work'[j] = Work[j + 0]
    <3>1. \A j \in 1..Len(Work) : j + 0 = j
      BY <1>a
    <3> QED
      BY <2>1, <3>1
  <2>3. Len(Work) + 0 = Len(Work) /\ Len(Work) >= 0
    BY <1>a
  <2> QED
    BY <1>1, <2>1, <2>2, <2>3
<1>3. CASE CO!Hand(cs)
  <2>1. /\ Len(Work) > 0
        /\ Len(Work') = Len(Work) - 1 + Len(cs)
        /\ \A j \in 1..(Len(Work) - 1) : Work'[j] = Work[j + 1]
        /\ \A j \in 1..Len(cs) : Work'[Len(Work) - 1 + j] = cs[j]
    BY <1>3, <1>a, HandWork
  <2>2. Len(Work) - 1 + 1 = Len(Work) /\ Len(Work) - 1 >= 0
    BY <1>a, <2>1
  <2> QED
    BY <1>1, <1>a, <2>1, <2>2
<1> QED
  BY <1>2, <1>3

\* Once cut, nothing but a click starts a conversion.
LEMMA HaltedNext ==
  ASSUME TypeInv, Halted,
         \/ ClickUpload \/ Run \/ Then \/ LoseAnswer
         \/ Check \/ Select \/ EditProto
  PROVE  Halted'
<1>a. TypeOK /\ <<>> \in Seq(Calls) /\ \A j \in 1..Len(<<>>) : FALSE
  BY DEF TypeInv
<1>1. CASE Check \/ Select \/ EditProto
  BY <1>1 DEF Check, Select, EditProto, bridgeVars, pageVars, Halted, Work
<1>2. CASE ClickUpload
  <2> DEFINE cs == UploadOne(CheckedKeys)
  <2>1. cs \in Seq(Calls) /\ \A j \in 1..Len(cs) : cs[j].method = "Upload"
    <3>1. nodes \in Seq(Resources) /\ checked \subseteq ToSet(nodes)
      BY <1>a, ListsTyped DEF TypeOK
    <3>2. CheckedKeys \in Seq(Resources)
      BY <3>1, KeysOfChecks
    <3> QED
      BY <3>2, LinkTyped DEF UploadOne, Call, Methods
  <2>2. CO!Issue(cs) /\ progress' = progress
    BY <1>2 DEF ClickUpload, pageVars
  <2> HIDE DEF cs
  <2> QED
    BY <2>1, <2>2, HaltedIssue DEF Kinds
<1>3. CASE Run
  <2>1. progress' = progress
    BY <1>3 DEF Run, RunGetConf, RunGetResourceNameAll, RunRefresh, RunConvert, RunUpload,
                pageVars
  <2>2. (\E d \in Data : CO!Answer(d)) \/ CO!Fail
    <3>1. convert \in Kinds \cup {"none"} /\ list \in Lists \cup {<<>>}
      BY <1>a DEF TypeOK
    <3> QED
      BY <1>3, <3>1, SaysTyped
      DEF Run, RunGetConf, RunGetResourceNameAll, RunRefresh, RunConvert, RunUpload, Served
  <2>3. CASE \E d \in Data : CO!Answer(d)
    BY <1>a, <2>1, <2>3, AnswerWork, HaltedStays
  <2>4. CASE CO!Fail
    BY <2>1, <2>4, MissedWork, HaltedStays
  <2> QED
    BY <2>2, <2>3, <2>4
<1>4. CASE LoseAnswer
  <2>1. CO!Hand(<<>>) /\ progress' = progress
    BY <1>4, <1>a, LoseIsHand DEF LoseAnswer, pageVars
  <2> QED
    BY <1>a, <2>1, HaltedIssue
<1>5. CASE ThenGetConf \/ ThenGetResourceNameAll
  <2>1. CO!Hand(<<>>) /\ progress' = progress
    BY <1>5 DEF ThenGetConf, ThenGetResourceNameAll
  <2> QED
    BY <1>a, <2>1, HaltedIssue
<1>6. CASE ThenRefresh
  <2>1. CO!Hand(GetConf) /\ progress' = progress
    BY <1>6 DEF ThenRefresh, AfterRefresh
  <2>2. \A j \in 1..Len(GetConf) : GetConf[j].method \notin Kinds
    BY GetConfTyped DEF Kinds, Call
  <2> QED
    BY <2>1, <2>2, GetConfTyped, HaltedIssue
<1>7. CASE ThenUpload
  <2>1. progress' = progress
    BY <1>7 DEF ThenUpload, pageVars
  <2> QED
    BY <1>7, <2>1, NextUpload, HaltedIssue DEF Kinds
<1>8. CASE ThenConvert
  <2>1. done # <<>> /\ Head(done).call.method \in Kinds
    BY <1>8 DEF ThenConvert, Answered
  <2>2. 1 \in 1..Len(Work) /\ Work[1] = Head(done).call
    <3>1. done \in Seq(Answers) /\ todo \in Seq(Calls)
      BY <1>a, QueuesTyped
    <3>2. Head(done) = done[1] /\ 1 \in 1..Len(done)
      BY <2>1, <3>1
    <3> QED
      BY <3>1, <3>2, WorkTyped DEF Work
  <2> QED
    BY <2>1, <2>2 DEF Halted
<1> QED
  BY <1>1, <1>2, <1>3, <1>4, <1>5, <1>6, <1>7, <1>8 DEF Then

LEMMA StageNext == TypeInv /\ StageInv /\ [Next]_vars => StageInv'
<1> SUFFICES ASSUME TypeInv, StageInv, [Next]_vars PROVE StageInv'
  OBVIOUS
<1>1. CASE UNCHANGED <<todo, done, open, convertMethod, convert, asked, progress, status,
                       nodes, overlap, cut>>
  BY <1>1
  DEF StageInv, Stage, Halted, Idle, Chain, Refreshing, Loading, Listing, Agree, Asked,
      Marked, Work
<1>2. CASE CloseWindow
  BY <1>2 DEF CloseWindow, CO!Close, StageInv, pageVars, pastVars
<1>3. ASSUME open' = TRUE, ~overlap' /\ ~cut' => Stage', ~overlap' /\ cut' => Halted'
      PROVE  StageInv'
  <2>1. Stage' => progress' \in 0..100
    BY DEF Stage, Idle, Chain, Refreshing, Loading, Listing
  <2>2. Halted' => progress' \in 0..100
    BY DEF Halted
  <2> QED
    BY <1>3, <2>1, <2>2 DEF StageInv
<1>4. CASE ClickConvert \/ ClickRefresh
  <2>1. open' = TRUE /\ ~cut'
    BY <1>4 DEF ClickConvert, ClickRefresh, CO!Issue, TypeInv, TypeOK
  <2> QED
    BY <1>3, <1>4, <2>1, StageConvert, StageRefresh
<1>5. CASE ClickUpload \/ Run \/ Then \/ LoseAnswer
  <2>1. open = TRUE /\ open' = TRUE /\ overlap' = overlap
    BY <1>5
    DEF ClickUpload, Run, RunGetConf, RunGetResourceNameAll, RunRefresh, RunConvert, RunUpload,
        Served, Then, ThenGetConf, ThenGetResourceNameAll, ThenRefresh, ThenConvert,
        ThenUpload, LoseAnswer, CO!Issue, CO!Answer, CO!Fail, CO!Hand, CO!Lose, pastVars,
        TypeInv, TypeOK
  <2>2. (~overlap /\ ~cut => Stage) /\ (~overlap /\ cut => Halted)
    BY <2>1 DEF StageInv
  <2>3. \/ cut' = cut
        \/ /\ Run /\ CO!Fail /\ Missed(Head(todo).method)
        \/ /\ LoseAnswer /\ CO!Lose /\ Missed(Head(done).call.method)
    BY <1>5
    DEF ClickUpload, Run, RunGetConf, RunGetResourceNameAll, RunRefresh, RunConvert, RunUpload,
        Served, Then, ThenGetConf, ThenGetResourceNameAll, ThenRefresh, ThenConvert,
        ThenUpload, LoseAnswer, missedVars
  <2>4. ASSUME ~overlap, cut PROVE cut' /\ Halted'
    <3>1. cut'
      BY <2>3, <2>4 DEF Missed
    <3> QED
      BY <1>5, <2>2, <2>4, <3>1, HaltedNext
  <2>5. ASSUME ~overlap, ~cut, cut' PROVE Halted'
    <3>1. PICK m : /\ m # "Upload"
                   /\ \/ CO!Fail /\ Head(todo).method = m
                      \/ CO!Lose /\ Head(done).call.method = m
      BY <2>3, <2>5 DEF Missed
    <3>2. progress' = progress
      BY <2>3, <2>5
      DEF Run, RunGetConf, RunGetResourceNameAll, RunRefresh, RunConvert, RunUpload,
          LoseAnswer, pageVars
    <3> QED
      BY <2>2, <2>5, <3>1, <3>2, StageCut
  <2>6. ASSUME ~overlap, ~cut, ~cut' PROVE Stage'
    <3>1. LoseAnswer => Head(done).call.method = "Upload"
      BY <2>6 DEF LoseAnswer, Missed
    <3> QED
      BY <1>5, <2>2, <2>6, <3>1, StageUpload, StageRun, StageRunUpload, StageThenLoaded,
         StageThenRefresh, StageThenConvert, StageThenUpload DEF Run, Then
  <2> QED
    BY <1>3, <2>1, <2>4, <2>5, <2>6
<1>6. CASE Check \/ Select \/ EditProto \/ UNCHANGED vars
  BY <1>1, <1>6
  DEF Check, Select, EditProto, bridgeVars, pageVars, appVars, missedVars, pastVars, vars
<1> QED
  BY <1>2, <1>4, <1>5, <1>6 DEF Next, Closed

-----------------------------------------------------------------------------
(* The theorems.                                                           *)

\* What is under way is what the page's methods ask for one after another, or,
\* when an answer was lost, what is left of it; and the list is the
\* application's or will be (getConf, convertOne, refresh).
THEOREM PageFollowsCalls == Spec => [](StageInv /\ ListInv)
<1>1. Init => StageInv /\ ListInv
  <2> SUFFICES ASSUME Init PROVE StageInv /\ ListInv
    OBVIOUS
  <2>1. /\ done = <<>> /\ Len(done) = 0 /\ todo = GetConf /\ Len(todo) = 2
        /\ todo[1].method = "GetConf" /\ todo[2].method = "GetResourceNameAll"
    BY GetConfTyped DEF Init, Call
  <2>2. Len(Work) = 2 /\ Work[1] = todo[1] /\ Work[2] = todo[2]
    BY <2>1 DEF Work, WorkOf
  <2>3. Pair(Work, 1, 2)
    <3>1. \A j \in 1..2 : j = 1 \/ j = 2
      OBVIOUS
    <3> QED
      BY <2>1, <2>2, <3>1 DEF Pair
  <2>4. ~Asked /\ progress = 0 /\ open = TRUE /\ overlap = FALSE /\ cut = FALSE
    BY DEF Init, Asked
  <2>5. Loading(1, 2)
    BY <2>1, <2>2, <2>3, <2>4 DEF Loading
  <2>6. StageInv
    BY <2>2, <2>4, <2>5 DEF StageInv, Stage
  <2>7. ListInv
    BY <2>1 DEF ListInv, ListTold, Told
  <2> QED
    BY <2>6, <2>7
<1> QED
  BY <1>1, StageNext, ListNext, TypeAlways, PTL DEF Spec

\* A chain is converted to the kind selected when it was started (this.convertMethod
\* is set by clickConvert only).
THEOREM ChainsKeepTheirKind == Spec => []ChainKeepsKind
<1>1. TypeInv /\ StageInv => ChainKeepsKind
  <2> SUFFICES ASSUME TypeInv, StageInv, ~overlap, NEW c \in Converts
               PROVE  c.method = asked.kind
    BY DEF ChainKeepsKind
  <2>1. PICK j \in 1..Len(Work) : Work[j] = c
    BY PendingIsWork DEF TypeInv, Converts
  <2>2. c.method \in Kinds
    BY DEF Converts
  <2>3. open
    <3>1. Len(Work) # 0
      BY <2>1, SizesTyped DEF TypeInv
    <3> QED
      BY <3>1 DEF StageInv, Work, WorkOf
  <2>4. Stage
    <3>1. ~Halted
      BY <2>1, <2>2 DEF Halted
    <3> QED
      BY <2>3, <3>1 DEF StageInv
  <2>5. \E i \in 1..Len(Work) : Chain(i)
    BY <2>1, <2>2, <2>4
    DEF Stage, Idle, Refreshing, Listing, Loading, Free, Only, Pair, Kinds
  <2> QED
    BY <2>1, <2>2, <2>5 DEF Chain, Only, Kinds
<1> QED
  BY <1>1, TypeAlways, PageFollowsCalls, PTL

\* The bar shows a percentage, for any number of resources, the rounding of
\* each step included, and is full exactly when the chain has come to its end
\* and was not cut by a lost answer, and then every node has its mark (idx + 1
\* != nodes.length in convertOne).
THEOREM FullBarMeansDone == Spec => []FullMeansDone
<1>1. TypeInv /\ StageInv => FullMeansDone
  <2>1. ASSUME StageInv, ~overlap PROVE progress \in 0..100
    BY <2>1 DEF StageInv
  <2> DEFINE Full == /\ progress = 100 <=> Converts = {} /\ ~cut
                     /\ progress = 100 => \A r \in asked.nodes : status[r] # "none"
  <2> SUFFICES ASSUME TypeInv, StageInv, open, ~overlap, Asked PROVE Full
    BY <2>1, Zenon DEF FullMeansDone, Asked
  <2>2. CASE cut
    <3>1. Halted
      BY <2>2, Zenon DEF StageInv
    <3>2. progress # 100
      BY <3>1 DEF Halted
    <3> QED
      BY <2>2, <3>2, Zenon
  <2>3. ASSUME ~cut PROVE Idle \/ \E i \in 1..Len(Work) : Chain(i)
    BY <2>3 DEF StageInv, Stage, Refreshing, Listing, Loading
  <2>4. ASSUME Idle, ~cut PROVE Full
    <3>1. Converts = {}
      <4>1. ASSUME NEW c \in Converts PROVE FALSE
        <5>1. PICK j \in 1..Len(Work) : Work[j] = c
          BY PendingIsWork DEF TypeInv, Converts
        <5> QED
          BY <2>4, <5>1 DEF Idle, Free, Converts, Kinds
      <4> QED
        BY <4>1
    <3>2. progress = 100 /\ \A r \in asked.nodes : status[r] # "none"
      BY <2>4 DEF Idle, Marked, ToSet
    <3> QED
      BY <2>4, <3>1, <3>2, Zenon
  <2>5. ASSUME NEW i \in 1..Len(Work), Chain(i) PROVE progress # 100 /\ Converts # {}
    <3>1. Work[i] \in Converts
      BY <2>5, WorkIsPending DEF TypeInv, Converts, Chain
    <3> QED
      BY <2>5, <3>1 DEF Chain
  <2> QED
    BY <2>2, <2>3, <2>4, <2>5, Zenon
<1> QED
  BY <1>1, TypeAlways, PageFollowsCalls, PTL

\* When nothing is under way and no answer about them was lost the page has the
\* application's list and kind, whatever refreshes overlapped (getConf asks
\* after every Refresh).
THEOREM PageAgreesWhenIdle == Spec => []PageAgrees
<1>1. TypeInv /\ StageInv /\ ListInv => PageAgrees
  <2> SUFFICES ASSUME TypeInv, StageInv, ListInv, open, Pending = {}
               PROVE  (~unlisted => nodes = list) /\ (~overlap /\ ~cut => Agree)
    BY DEF PageAgrees, Agree
  <2>1. Len(Work) = 0 /\ Len(todo) = 0 /\ Len(done) = 0
    <3>1. \A j \in 1..Len(Work) : FALSE
      BY WorkIsPending DEF TypeInv
    <3>2. Len(Work) = 0
      BY <3>1, SizesTyped DEF TypeInv
    <3> QED
      BY <3>2, QueuesTyped, WorkTyped DEF TypeInv, Work
  <2>2. ~unlisted => nodes = list
    BY <2>1 DEF ListInv, ListTold, Told
  <2>3. ~overlap /\ ~cut => Agree
    BY <2>1 DEF StageInv, Stage, Idle
  <2> QED
    BY <2>2, <2>3
<1> QED
  BY <1>1, TypeAlways, PageFollowsCalls, PTL
=============================================================================
