------------------------------- MODULE Client -------------------------------
(***************************************************************************)
(* The page, Main.vue, and what it shows of the application.  The page     *)
(* lists the resources, converts and uploads the checked ones as chains    *)
(* (the next call is made when the last is answered), and refreshes.  It   *)
(* talks to the application through CallOrder, so between a call and its   *)
(* answer the user may do anything, a second chain or a refresh included,  *)
(* and an answer may never come.                                           *)
(*                                                                         *)
(* The application is reduced to what its answers depend on: the resource  *)
(* list it read last, the output kind it remembers, and on disk the        *)
(* resources the .proto files declare and the kind setup.json has.         *)
(***************************************************************************)
EXTENDS Integers, Sequences, FiniteSets, SequencesExt

CONSTANTS
  Lists,       \* sequences of resources the .proto files may declare
  MaxClicks,   \* bound: clicks on convert, upload and refresh
  MaxEdits     \* bound: edits of the .proto files

ASSUME ClientAssumption ==
  /\ \A l \in Lists : l \in Seq(ToSet(l))
  /\ MaxClicks \in Nat
  /\ MaxEdits \in Nat

Resources == UNION {ToSet(l) : l \in Lists}
Kinds     == {"Bin", "Json"}
Methods   == Kinds \cup {"Upload", "Refresh", "GetConf", "GetResourceNameAll"}

\* Stands for JavaScript's Infinity: no sum of the others is it.
Infinity == -1

VARIABLES
  todo, done, open,                         \* CallOrder
  \* the page
  nodes, checked, selectValue, convertMethod, progress, status,
  \* the application and the disk
  list, convert, protoList, setupConvert,
  \* history
  asked,     \* the nodes and the kind of the last click on convert
  overlap,   \* that click, or the last refresh, found another under way
  cut,       \* since then the page missed an answer other than an upload's
  unlisted,  \* since it last asked for the list it missed one that bears on it
  clicks, edits

bridgeVars == <<todo, done, open>>
pageVars   == <<nodes, checked, selectValue, convertMethod, progress, status>>
appVars    == <<list, convert, protoList, setupConvert>>
missedVars == <<cut, unlisted>>
pastVars   == <<asked, overlap, clicks, edits>>
vars == <<todo, done, open, nodes, checked, selectValue, convertMethod,
          progress, status, list, convert, protoList, setupConvert, asked,
          overlap, cut, unlisted, clicks, edits>>

\* A call carries the closure of its callback: the nodes of the chain that are
\* still to come, the one it is about first.
Call(m, rest) == [method |-> m, rest |-> rest]

Calls == [method : Methods, rest : Seq(Resources)]

\* What answers say: the output kind (GetConf), the resource list
\* (GetResourceNameAll), whether it went well (the others).
Data == [kind : Kinds \cup {"none"}, list : Lists \cup {<<>>}, ok : BOOLEAN]
Says == [kind |-> "none", list |-> <<>>, ok |-> TRUE]

CO == INSTANCE CallOrder WITH Batches <- {}, Data <- Data

Pending  == ToSet(todo) \cup {a.call : a \in ToSet(done)}
Converts == {c \in Pending : c.method \in Kinds}
Reloads  == {c \in Pending :
               c.method \in {"Refresh", "GetConf", "GetResourceNameAll"}}

TypeOK ==
  /\ todo \in Seq(Calls)
  /\ done \in Seq([call : Calls, data : Data])
  /\ open \in BOOLEAN
  /\ nodes \in Lists \cup {<<>>}
  /\ checked \in SUBSET ToSet(nodes)
  /\ selectValue \in Kinds \cup {"none"}
  /\ convertMethod \in Kinds \cup {"none"}
  /\ progress \in Nat \cup {Infinity}
  /\ status \in [Resources -> {"none", "fail", "success"}]
  /\ list \in Lists \cup {<<>>}
  /\ convert \in Kinds \cup {"none"}
  /\ protoList \in Lists
  /\ setupConvert \in Kinds \cup {"none"}
  /\ asked \in [nodes : SUBSET Resources, kind : Kinds \cup {"none"}]
  /\ overlap \in BOOLEAN
  /\ cut \in BOOLEAN
  /\ unlisted \in BOOLEAN

NoStatus == [r \in Resources |-> "none"]

\* The two calls of getConf.
GetConf == <<Call("GetConf", <<>>), Call("GetResourceNameAll", <<>>)>>

\* The page is mounted; the application has loaded setup.json and the .proto
\* files.
Init ==
  /\ todo = GetConf
  /\ done = <<>>
  /\ open = TRUE
  /\ nodes = <<>>
  /\ checked = {}
  /\ selectValue = "none"
  /\ convertMethod = "none"
  /\ progress = 0
  /\ status = NoStatus
  /\ protoList \in Lists
  /\ list = protoList
  /\ setupConvert \in Kinds \cup {"none"}
  /\ convert = setupConvert
  /\ asked = [nodes |-> {}, kind |-> "none"]
  /\ overlap = FALSE
  /\ cut = FALSE
  /\ unlisted = FALSE
  /\ clicks = 0
  /\ edits = 0

-----------------------------------------------------------------------------
(* The user.                                                               *)

\* New nodes come without checks, and getConf clears them.
ChecksKept == checked   \* mutant: the checks are not cleared
Unchecked == {}

\* The tree's check boxes and the "All" box.
Check ==
  /\ open
  /\ \E s \in SUBSET ToSet(nodes) : s # checked /\ checked' = s
  /\ UNCHANGED <<bridgeVars, nodes, selectValue, convertMethod, progress,
                 status, appVars, missedVars, pastVars>>

Select ==
  /\ open
  /\ \E k \in Kinds : k # selectValue /\ selectValue' = k
  /\ UNCHANGED <<bridgeVars, nodes, checked, convertMethod, progress, status,
                 appVars, missedVars, pastVars>>

\* The checked nodes in the order of the tree.
CheckedKeys ==
  LET places  == {i \in DOMAIN nodes : nodes[i] \in checked}
      Rank(i) == Cardinality({j \in places : j <= i})
  IN [k \in 1..Cardinality(places) |->
        nodes[CHOOSE i \in places : Rank(i) = k]]

\* The option chosen: anything but "Json" converts to a bin.
MethodOf(value) == IF value = "Json" THEN "Json" ELSE "Bin"

\* convertOne(nodes, idx), rest being nodes from idx on.
StopsEarly(method, rest) ==   \* mutant: the last node is left out
  IF Len(rest) < 2 THEN <<>> ELSE <<Call(method, rest)>>
ConvertOne(method, rest) == IF rest = <<>> THEN <<>> ELSE <<Call(method, rest)>>

ProgressReset == 0

ClickConvert ==
  /\ open
  /\ clicks < MaxClicks
  /\ checked # {}
  /\ progress' = ProgressReset
  /\ status' = NoStatus
  /\ convertMethod' = MethodOf(selectValue)
  /\ CO!Issue(ConvertOne(MethodOf(selectValue), CheckedKeys))
  /\ asked' = [nodes |-> checked, kind |-> MethodOf(selectValue)]
  /\ overlap' = (Converts \cup Reloads # {})
  /\ cut' = FALSE
  /\ clicks' = clicks + 1
  /\ UNCHANGED <<nodes, checked, selectValue, appVars, unlisted, edits>>

UploadOne(rest) == IF rest = <<>> THEN <<>> ELSE <<Call("Upload", rest)>>

ClickUpload ==
  /\ open
  /\ clicks < MaxClicks
  /\ checked # {}
  /\ CO!Issue(UploadOne(CheckedKeys))
  /\ clicks' = clicks + 1
  /\ UNCHANGED <<pageVars, appVars, missedVars, asked, overlap, edits>>

ClickRefresh ==
  /\ open
  /\ clicks < MaxClicks
  /\ progress' = 0
  /\ nodes' = <<>>
  /\ checked' = Unchecked
  /\ status' = NoStatus
  /\ CO!Issue(<<Call("Refresh", <<>>)>>)
  /\ asked' = [nodes |-> {}, kind |-> "none"]
  /\ overlap' = (Converts \cup Reloads # {})
  /\ cut' = FALSE
  /\ unlisted' = FALSE
  /\ clicks' = clicks + 1
  /\ UNCHANGED <<selectValue, convertMethod, appVars, edits>>

EditProto ==
  /\ open
  /\ edits < MaxEdits
  /\ \E l \in Lists : l # protoList /\ protoList' = l
  /\ edits' = edits + 1
  /\ UNCHANGED <<bridgeVars, pageVars, list, convert, setupConvert,
                 missedVars, asked, overlap, clicks>>

CloseWindow ==
  /\ CO!Close
  /\ UNCHANGED <<pageVars, appVars, missedVars, pastVars>>

-----------------------------------------------------------------------------
(* The application runs the oldest call.                                   *)

\* The answer to a call of m never reaches the page.
Missed(m) ==
  /\ cut' = (cut \/ m # "Upload")
  /\ unlisted' = (unlisted \/ m \in {"Refresh", "GetResourceNameAll"})

\* The answer d is posted, or the task throws or its answer cannot be posted.
Served(d) ==
  \/ CO!Answer(d) /\ UNCHANGED missedVars
  \/ CO!Fail /\ Missed(Head(todo).method)

RunGetConf ==
  /\ todo # <<>> /\ Head(todo).method = "GetConf"
  /\ Served([Says EXCEPT !.kind = convert])
  /\ UNCHANGED <<pageVars, appVars, pastVars>>

RunGetResourceNameAll ==
  /\ todo # <<>> /\ Head(todo).method = "GetResourceNameAll"
  /\ Served([Says EXCEPT !.list = list])
  /\ UNCHANGED <<pageVars, appVars, pastVars>>

\* The settings are read again, the remembered kind with them.
RunRefresh ==
  /\ todo # <<>> /\ Head(todo).method = "Refresh"
  /\ list' = protoList
  /\ convert' = setupConvert
  /\ Served(Says)
  /\ UNCHANGED <<pageVars, protoList, setupConvert, pastVars>>

\* The answer's promise is resolved in either case: "code" stays null.
RunConvert ==
  /\ todo # <<>> /\ Head(todo).method \in Kinds
  /\ convert' = Head(todo).method
  /\ \E ok \in BOOLEAN : Served([Says EXCEPT !.ok = ok])
  /\ UNCHANGED <<pageVars, list, protoList, setupConvert, pastVars>>

RunUpload ==
  /\ todo # <<>> /\ Head(todo).method = "Upload"
  /\ \E ok \in BOOLEAN : Served([Says EXCEPT !.ok = ok])
  /\ UNCHANGED <<pageVars, appVars, pastVars>>

-----------------------------------------------------------------------------
(* The page takes the oldest answer: the callbacks given to then().        *)

Answered(methods) == done # <<>> /\ Head(done).call.method \in methods

\* A kind setup.json does not have counts as "Bin".
ThenGetConf ==
  /\ Answered({"GetConf"})
  /\ selectValue' = MethodOf(Head(done).data.kind)
  /\ convertMethod' = MethodOf(Head(done).data.kind)
  /\ CO!Hand(<<>>)
  /\ UNCHANGED <<nodes, checked, progress, status, appVars, missedVars,
                 pastVars>>

ThenGetResourceNameAll ==
  /\ Answered({"GetResourceNameAll"})
  /\ nodes' = Head(done).data.list
  /\ checked' = Unchecked
  /\ CO!Hand(<<>>)
  /\ UNCHANGED <<selectValue, convertMethod, progress, status, appVars,
                 missedVars, pastVars>>

\* this.getConf()
NothingMore == <<>>   \* mutant: the page does not ask for the new list
AfterRefresh == GetConf

ThenRefresh ==
  /\ Answered({"Refresh"})
  /\ checked' = Unchecked
  /\ CO!Hand(AfterRefresh)
  /\ unlisted' = FALSE
  /\ UNCHANGED <<nodes, selectValue, convertMethod, progress, status, appVars,
                 cut, pastVars>>

\* progress += Math.floor(100 / this.nodes.length)
Advanced ==
  IF nodes = <<>> \/ progress = Infinity
  THEN Infinity ELSE progress + 100 \div Len(nodes)

\* idx + 1 == nodes.length
OneTooEarly(rest) == Len(rest) <= 2   \* mutant: off by one
IsLast(rest) == Len(rest) = 1

\* The next link takes convertMethod as it is now.
Selected == MethodOf(selectValue)   \* mutant: it takes the option selected now
LinkMethod == convertMethod

ThenConvert ==
  /\ Answered(Kinds)
  /\ LET rest == Head(done).call.rest
     IN /\ progress' = IF IsLast(rest) THEN 100 ELSE Advanced
        /\ status' = [status EXCEPT ![Head(rest)] =
                        IF Head(done).data.ok THEN "success" ELSE "fail"]
        /\ CO!Hand(ConvertOne(LinkMethod, Tail(rest)))
  /\ UNCHANGED <<nodes, checked, selectValue, convertMethod, appVars,
                 missedVars, pastVars>>

\* Upload answers a failure with -1, which rejects the promise; nothing
\* catches it and the chain ends.
ThenUpload ==
  /\ Answered({"Upload"})
  /\ CO!Hand(IF Head(done).data.ok
             THEN UploadOne(Tail(Head(done).call.rest)) ELSE <<>>)
  /\ UNCHANGED <<pageVars, appVars, missedVars, pastVars>>

\* The oldest answer is lost on its way to the page: no callback is called.
LoseAnswer ==
  /\ CO!Lose
  /\ Missed(Head(done).call.method)
  /\ UNCHANGED <<pageVars, appVars, pastVars>>

Run  == RunGetConf \/ RunGetResourceNameAll \/ RunRefresh \/ RunConvert
          \/ RunUpload
Then == ThenGetConf \/ ThenGetResourceNameAll \/ ThenRefresh \/ ThenConvert
          \/ ThenUpload

Closed == ~open /\ UNCHANGED vars

Next ==
  \/ Check \/ Select \/ ClickConvert \/ ClickUpload \/ ClickRefresh
  \/ EditProto \/ CloseWindow
  \/ Run
  \/ Then
  \/ LoseAnswer
  \/ Closed

Spec == Init /\ [][Next]_vars

\* The bridge serves every call and a message loop takes every answer, to hand
\* it over or to lose it (TaskBridge); the user owes nothing.
FairSpec == Spec /\ WF_vars(Run) /\ WF_vars(Then \/ LoseAnswer)

-----------------------------------------------------------------------------
(* Properties.                                                             *)

\* A chain is converted to the kind that was selected when it was started,
\* whatever the user selects meanwhile.
ChainKeepsKind == ~overlap => \A c \in Converts : c.method = asked.kind

\* The bar shows a percentage, which is full exactly when the chain has come
\* to its end and not been cut by a lost answer, and then every node that was
\* asked for has its mark.
FullMeansDone ==
  ~overlap =>
    /\ progress \in 0..100
    /\ open /\ asked.nodes # {} =>
         /\ progress = 100 <=> Converts = {} /\ ~cut
         /\ progress = 100 => \A r \in asked.nodes : status[r] # "none"

\* When nothing is under way and no answer that bears on it was lost, the page
\* lists the resources the application has, and page and application agree on
\* the kind of the last conversion.
PageAgrees ==
  open /\ Pending = {} =>
    /\ ~unlisted => nodes = list
    /\ ~overlap /\ ~cut => convertMethod = MethodOf(convert)

\* A chain of conversions ends, its failed links included, unless the answer to
\* one of them is lost: the next link is made by the answer to the last.
ConversionsEnd ==
  (asked.nodes # {} /\ ~overlap) ~>
    (progress = 100 \/ asked.nodes = {} \/ overlap \/ cut \/ ~open)
=============================================================================
