---------------------------- MODULE LayoutProofs ----------------------------
(***************************************************************************)
(* Proofs about Layout, for any .proto files and any messages that do not  *)
(* contain themselves.                                                     *)
(***************************************************************************)
EXTENDS Layout, SequenceTheorems, FiniteSetTheorems, TLAPS

Field == [name : ToSet(Names), type : Leaves \cup Messages, repeated : BOOLEAN,
          count : Seq(STRING), size : Seq(STRING)]

\* What protoc sees to.
Typed ==
  /\ fields \in [Messages -> Seq(Field)]
  /\ home \in Homes
  /\ imports \subseteq DOMAIN Files \ {Main}

Nested ==
  \A m \in Messages : \A i \in DOMAIN fields[m] :
    fields[m][i].type \in Messages => Level[fields[m][i].type] < Level[m]

Legal == Typed /\ Nested

-----------------------------------------------------------------------------
(* The invariant.                                                          *)

LEMMA LegalInit == Init => Legal
<1> SUFFICES ASSUME Init PROVE Legal
  OBVIOUS
<1>1. fields = [m \in Messages |-> <<>>] /\ home \in Homes /\ imports = {}
  BY DEF Init
<1>2. <<>> \in Seq(Field) /\ DOMAIN <<>> = {}
  BY EmptySeq
<1>3. fields \in [Messages -> Seq(Field)] /\ \A m \in Messages : DOMAIN fields[m] = {}
  BY <1>1, <1>2
<1> QED
  BY <1>1, <1>3 DEF Legal, Typed, Nested

LEMMA LegalStep == Legal /\ [Next]_vars => Legal'
<1> SUFFICES ASSUME Legal, [Next]_vars PROVE Legal'
  OBVIOUS
<1> USE DEF Legal
<1>1. ASSUME NEW m \in Messages, NEW name \in ToSet(Names), NEW shape \in Shapes,
             AddField(m, name, shape)
      PROVE  Legal'
  <2> DEFINE f == [name |-> name, type |-> shape.type, repeated |-> shape.repeated,
                   count |-> shape.count, size |-> shape.size]
  <2>1. /\ fields' = [fields EXCEPT ![m] = Append(fields[m], f)]
        /\ UNCHANGED <<home, imports>>
        /\ shape.type \in Messages => Level[shape.type] < Level[m]
    BY <1>1 DEF AddField
  <2>2. shape \in [type : Leaves \cup Messages, repeated : BOOLEAN,
                   count : Seq(STRING), size : Seq(STRING)]
    BY LayoutAssumption DEF LayoutAssumption
  <2>3. f \in Field /\ f.type = shape.type
    BY <2>2 DEF Field
  <2> HIDE DEF f
  <2>4. fields \in [Messages -> Seq(Field)] /\ fields[m] \in Seq(Field)
    BY DEF Typed
  <2>5. /\ Append(fields[m], f) \in Seq(Field)
        /\ DOMAIN Append(fields[m], f) = 1..(Len(fields[m]) + 1)
        /\ DOMAIN fields[m] = 1..Len(fields[m]) /\ Len(fields[m]) \in Nat
        /\ \A i \in 1..Len(fields[m]) : Append(fields[m], f)[i] = fields[m][i]
        /\ Append(fields[m], f)[Len(fields[m]) + 1] = f
    BY <2>3, <2>4, AppendProperties, LenProperties
  <2>6. Typed'
    BY <2>1, <2>4, <2>5 DEF Typed
  <2>7. ASSUME NEW k \in Messages, NEW i \in DOMAIN fields'[k],
               fields'[k][i].type \in Messages
        PROVE  Level[fields'[k][i].type] < Level[k]
    <3>1. CASE k # m
      BY <2>1, <2>4, <2>7, <3>1 DEF Nested
    <3>2. CASE k = m
      <4>1. fields'[k] = Append(fields[m], f)
        BY <2>1, <2>4, <3>2
      <4>2. i \in 1..Len(fields[m]) \/ i = Len(fields[m]) + 1
        BY <2>5, <4>1
      <4> QED
        BY <2>1, <2>3, <2>5, <2>7, <3>2, <4>1, <4>2 DEF Nested
    <3> QED
      BY <3>1, <3>2
  <2> QED
    BY <2>6, <2>7 DEF Nested
<1>2. ASSUME NEW file \in DOMAIN Files, Import(file) PROVE Legal'
  BY <1>2 DEF Import, Typed, Nested
<1>3. CASE UNCHANGED vars
  BY <1>3 DEF vars, Typed, Nested
<1> QED
  BY <1>1, <1>2, <1>3 DEF Next

\* Fields are what protoc accepts, and no message contains itself.
THEOREM MessagesAreLegal == Spec => []Legal
  BY LegalInit, LegalStep, PTL DEF Spec

-----------------------------------------------------------------------------
(* Enum values.                                                            *)

LEMMA EnumsOf ==
  ASSUME NEW file \in DOMAIN Files
  PROVE  /\ <<>> \in DOMAIN Files[file].scopes
         /\ \A s \in DOMAIN Files[file].scopes : \A e \in DOMAIN Files[file].scopes[s] :
              \A v \in DOMAIN Files[file].scopes[s][e] : Files[file].scopes[s][e][v] \in Nat
  BY LayoutAssumption DEF LayoutAssumption

LEMMA FoundIsNat ==
  ASSUME NEW file \in DOMAIN Files, NEW rest
  PROVE  FindEnumInFile(file, rest) \subseteq Nat
<1> DEFINE scopes == Files[file].scopes
<1>1. /\ <<>> \in DOMAIN scopes
      /\ \A s \in DOMAIN scopes : \A e \in DOMAIN scopes[s] :
           \A v \in DOMAIN scopes[s][e] : scopes[s][e][v] \in Nat
  BY EnumsOf
<1>2. CASE Len(rest) = 1
  BY <1>1, <1>2 DEF FindEnumInFile
<1>3. CASE Len(rest) > 1
  BY <1>1, <1>3 DEF FindEnumInFile
<1>4. CASE ~(Len(rest) = 1) /\ ~(Len(rest) > 1)
  BY <1>4 DEF FindEnumInFile
<1> QED
  BY <1>2, <1>3, <1>4

LEMMA OnlyOne ==
  ASSUME NEW values
  PROVE  TheOnly(values) # 0 => values = {TheOnly(values)}
  BY DEF TheOnly

LEMMA OnlyIsNat ==
  ASSUME NEW values \in SUBSET Nat
  PROVE  TheOnly(values) \in Nat
  BY DEF TheOnly

LEMMA ValueIsNat ==
  ASSUME Typed, NEW file \in DOMAIN Files, NEW name
  PROVE  GetEnumValue(file, name) \in Nat
<1>1. Dependencies(file) \subseteq DOMAIN Files
  BY DEF Typed, Dependencies
<1>2. InDependency(file, name) \subseteq Nat
  BY <1>1, FoundIsNat DEF InDependency
<1>3. InThisFile(file, name) \subseteq Nat
  BY FoundIsNat DEF InThisFile
<1> QED
  BY <1>2, <1>3, OnlyIsNat DEF GetEnumValue

LEMMA LeafSizeIsNat ==
  ASSUME Typed, NEW m \in Messages, NEW f, f.type \in Leaves
  PROVE  LeafSize(m, f) \in Nat
<1>1. home[m] \in DOMAIN Files
  BY LayoutAssumption DEF LayoutAssumption, Typed
<1>2. f.type \in Blocks => LeafSize(m, f) \in Nat
  BY <1>1, ValueIsNat DEF LeafSize
<1>3. f.type \notin Blocks => LeafSize(m, f) \in Nat
  BY DEF LeafSize, Leaves, Width
<1> QED
  BY <1>2, <1>3

-----------------------------------------------------------------------------
(* Flatten is what its definition says.                                    *)

\* The columns inside a field, if F is Flatten below it; the body of Flatten.
InnerOf(F, at, f) ==
  IF f.type \in Messages THEN F[<<at[1], f.type>>] ELSE Leaf(at[2], f)

FlattenStep(F, at) ==
  LET own == fields[at[2]]
  IN  [ok      |-> \A i \in DOMAIN own :
                     /\ own[i].repeated => GetEnumValue(at[1], own[i].count) # 0
                     /\ InnerOf(F, at, own[i]).ok,
       columns |-> FlattenSeq([i \in DOMAIN own |->
                     Spread(CopiesOf(at[1], own[i]), InnerOf(F, at, own[i]).columns)])]

\* Induction over the natural numbers, for sets.
LEMMA NatSet ==
  ASSUME NEW T \in SUBSET Nat, 0 \in T, \A n \in T : n + 1 \in T
  PROVE  \A n \in Nat : n \in T
<1> DEFINE Out == Nat \ T
<1>1. SUFFICES ASSUME Out # {} PROVE FALSE
  OBVIOUS
<1>2. PICK x \in Out : \A y \in Out : ~(<<y, x>> \in OpToRel(<, Nat))
  BY <1>1, NatLessThanWellFounded, WFMin
<1>3. \A y \in Out : ~(y < x)
  BY <1>2 DEF OpToRel
<1>4. x \in Nat /\ x # 0
  OBVIOUS
<1>5. x - 1 \in Nat /\ x - 1 < x /\ (x - 1) + 1 = x
  BY <1>4
<1> QED
  BY <1>3, <1>5

Rec == INSTANCE Recursion WITH Step <- FlattenStep

\* What follows for x from what is below it is so everywhere.
LEMMA LevelSet ==
  ASSUME NEW S, NEW Height \in [S -> Nat], NEW T,
         \A x \in S : (\A y \in S : Height[y] < Height[x] => y \in T) => x \in T
  PROVE  \A x \in S : x \in T
<1>1. Rec!Induction
  BY NatSet DEF Rec!Induction
<1> QED
  BY <1>1, Rec!LevelSet

Pairs == (DOMAIN Files) \X Messages
Depth == [at \in Pairs |-> Level[at[2]]]

LEMMA DepthIsNat == Depth \in [Pairs -> Nat] /\ \A at \in Pairs : Depth[at] = Level[at[2]]
<1>1. \A at \in Pairs : at[2] \in Messages
  BY DEF Pairs
<1> QED
  BY <1>1, LayoutAssumption DEF LayoutAssumption, Depth

LEMMA FlattenIs ==
  ASSUME Nested
  PROVE  \A at \in Pairs : Flatten[at] = FlattenStep(Flatten, at)
<1>1. ASSUME NEW F, NEW G, NEW at \in Pairs,
             \A b \in Pairs : Depth[b] < Depth[at] => F[b] = G[b]
      PROVE  FlattenStep(F, at) = FlattenStep(G, at)
  <2> DEFINE own == fields[at[2]]
  <2>1. at[1] \in DOMAIN Files /\ at[2] \in Messages
    BY DEF Pairs
  <2>2. ASSUME NEW i \in DOMAIN own
        PROVE  InnerOf(F, at, own[i]) = InnerOf(G, at, own[i])
    <3>1. CASE own[i].type \in Messages
      <4> DEFINE b == <<at[1], own[i].type>>
      <4>1. b \in Pairs /\ b[2] = own[i].type
        BY <2>1, <3>1 DEF Pairs
      <4>2. Depth[b] < Depth[at]
        BY <2>1, <3>1, <4>1, DepthIsNat DEF Nested
      <4>3. F[b] = G[b]
        BY <1>1, <4>1, <4>2
      <4> QED
        BY <3>1, <4>3 DEF InnerOf
    <3>2. CASE own[i].type \notin Messages
      BY <3>2 DEF InnerOf
    <3> QED
      BY <3>1, <3>2
  <2> QED
    BY <2>2 DEF FlattenStep
<1>2. Rec!Local(Pairs, Depth)
  BY <1>1 DEF Rec!Local
<1>3. \E F : F = [at \in Pairs |-> FlattenStep(F, at)]
  BY <1>2, DepthIsNat, NatSet, Rec!Defined DEF Rec!Induction
<1>4. Flatten = CHOOSE F : F = [at \in Pairs |-> FlattenStep(F, at)]
  BY DEF Flatten, FlattenStep, InnerOf, Pairs
<1>5. Flatten = [at \in Pairs |-> FlattenStep(Flatten, at)]
  BY <1>3, <1>4
<1> QED
  BY <1>5

-----------------------------------------------------------------------------
(* FlattenSeq.                                                             *)

IsSeq(s) == \E E : s \in Seq(E)

LEMMA ToSetOfConcat ==
  ASSUME NEW E, NEW s \in Seq(E), NEW t \in Seq(E)
  PROVE  ToSet(s \o t) = ToSet(s) \cup ToSet(t)
<1> DEFINE u == s \o t
           m == Len(s)
           n == Len(t)
<1>1. /\ m \in Nat /\ n \in Nat /\ DOMAIN s = 1..m /\ DOMAIN t = 1..n
      /\ DOMAIN u = 1..(m + n)
      /\ \A i \in 1..m : u[i] = s[i]
      /\ \A i \in 1..n : u[m + i] = t[i]
  BY ConcatProperties
<1> HIDE DEF u, m, n
<1>2. ASSUME NEW x \in ToSet(u) PROVE x \in ToSet(s) \cup ToSet(t)
  <2>1. PICK i \in 1..(m + n) : x = u[i]
    BY <1>1 DEF ToSet
  <2>2. CASE i <= m
    <3>1. i \in 1..m
      BY <1>1, <2>2
    <3> QED
      BY <1>1, <2>1, <3>1 DEF ToSet
  <2>3. CASE i > m
    <3>1. i - m \in 1..n /\ m + (i - m) = i
      BY <1>1, <2>3
    <3>2. u[m + (i - m)] = t[i - m]
      BY <1>1, <3>1
    <3> QED
      BY <1>1, <2>1, <3>1, <3>2 DEF ToSet
  <2> QED
    BY <1>1, <2>2, <2>3
<1>3. ASSUME NEW x \in ToSet(s) PROVE x \in ToSet(u)
  <2>1. PICK i \in 1..m : x = s[i]
    BY <1>1 DEF ToSet
  <2>2. i \in 1..(m + n)
    BY <1>1
  <2> QED
    BY <1>1, <2>1, <2>2 DEF ToSet
<1>4. ASSUME NEW x \in ToSet(t) PROVE x \in ToSet(u)
  <2>1. PICK i \in 1..n : x = t[i]
    BY <1>1 DEF ToSet
  <2>2. m + i \in 1..(m + n) /\ u[m + i] = t[i]
    BY <1>1
  <2> QED
    BY <1>1, <2>1, <2>2 DEF ToSet
<1> QED
  BY <1>2, <1>3, <1>4 DEF u

LEMMA FlattenSteps ==
  ASSUME NEW E, NEW seqs \in Seq(Seq(E))
  PROVE  \E g : /\ g[0] = <<>>
                /\ \A k \in 1..Len(seqs) : g[k] = g[k - 1] \o seqs[k]
                /\ g[Len(seqs)] = FlattenSeq(seqs)
                /\ \A k \in 0..Len(seqs) : g[k] \in Seq(E)
<1>1. FlattenSeq(seqs) = Rec!Flat(seqs)
  BY DEF FlattenSeq, Rec!Flat
<1> QED
  BY <1>1, NatSet, Rec!FlattenSteps DEF Rec!Induction

\* What FlattenSeq gives has the elements of the sequences.
LEMMA Flattened ==
  ASSUME NEW seqs, IsSeq(seqs), \A i \in DOMAIN seqs : IsSeq(seqs[i])
  PROVE  /\ IsSeq(FlattenSeq(seqs))
         /\ ToSet(FlattenSeq(seqs)) = UNION {ToSet(seqs[i]) : i \in DOMAIN seqs}
<1> DEFINE n == Len(seqs)
           E == UNION {ToSet(seqs[i]) : i \in DOMAIN seqs}
<1>1. n \in Nat /\ DOMAIN seqs = 1..n
  BY DEF IsSeq
<1>2. \A i \in 1..n : seqs[i] \in Seq(E)
  <2> SUFFICES ASSUME NEW i \in 1..n PROVE seqs[i] \in Seq(E)
    OBVIOUS
  <2>1. i \in DOMAIN seqs
    BY <1>1
  <2>2. PICK D : seqs[i] \in Seq(D)
    BY <2>1 DEF IsSeq
  <2>3. \A j \in DOMAIN seqs[i] : seqs[i][j] \in E
    BY <2>1 DEF ToSet
  <2> HIDE DEF E
  <2> QED
    BY <2>2, <2>3
<1>3. seqs \in Seq(Seq(E))
  <2> HIDE DEF E
  <2> QED
    BY <1>1, <1>2 DEF IsSeq
<1> HIDE DEF E
<1>4. PICK g : /\ g[0] = <<>>
               /\ \A k \in 1..Len(seqs) : g[k] = g[k - 1] \o seqs[k]
               /\ g[Len(seqs)] = FlattenSeq(seqs)
               /\ \A k \in 0..Len(seqs) : g[k] \in Seq(E)
  BY <1>3, FlattenSteps
<1> DEFINE U == {k \in Nat : k <= n => ToSet(g[k]) = UNION {ToSet(seqs[i]) : i \in 1..k}}
<1>5. 0 \in U
  BY <1>4 DEF ToSet
<1> HIDE DEF n
<1>6. ASSUME NEW k \in U PROVE k + 1 \in U
  <2>1. k \in Nat /\ (k <= n => ToSet(g[k]) = UNION {ToSet(seqs[i]) : i \in 1..k})
    OBVIOUS
  <2>2. SUFFICES ASSUME k + 1 <= n
                 PROVE  ToSet(g[k + 1]) = UNION {ToSet(seqs[i]) : i \in 1..(k + 1)}
    BY <2>1
  <2>3. k + 1 \in 1..n /\ (k + 1) - 1 = k /\ k \in 0..n /\ k <= n
    BY <1>1, <2>1, <2>2
  <2>4. g[k + 1] = g[k] \o seqs[k + 1] /\ g[k] \in Seq(E) /\ seqs[k + 1] \in Seq(E)
    BY <1>2, <1>4, <2>3 DEF n
  <2>5. ToSet(g[k + 1]) = ToSet(g[k]) \cup ToSet(seqs[k + 1])
    BY <2>4, ToSetOfConcat
  <2>6. 1..(k + 1) = (1..k) \cup {k + 1}
    BY <2>1
  <2>7. UNION {ToSet(seqs[i]) : i \in 1..(k + 1)}
          = (UNION {ToSet(seqs[i]) : i \in 1..k}) \cup ToSet(seqs[k + 1])
    BY <2>6
  <2> QED
    BY <2>1, <2>3, <2>5, <2>7
<1>7. n \in U
  <2> HIDE DEF U
  <2>1. U \in SUBSET Nat
    BY DEF U
  <2> QED
    BY <1>1, <1>5, <1>6, <2>1, NatSet
<1>8. FlattenSeq(seqs) = g[n] /\ g[n] \in Seq(E)
  BY <1>1, <1>4 DEF n
<1> QED
  BY <1>1, <1>7, <1>8 DEF IsSeq

-----------------------------------------------------------------------------
(* Element by element.                                                     *)

Maps(F, E, D) == \A x \in E : F[x] \in D

Through(F, s) == [i \in DOMAIN s |-> F[s[i]]]

LEMMA ThroughIs ==
  ASSUME NEW E, NEW D, NEW F, Maps(F, E, D), NEW s \in Seq(E)
  PROVE  /\ Through(F, s) \in Seq(D)
         /\ Len(Through(F, s)) = Len(s)
         /\ \A i \in 1..Len(s) : Through(F, s)[i] = F[s[i]]
<1> DEFINE n == Len(s)
           t == [i \in 1..n |-> F[s[i]]]
<1>1. n \in Nat /\ DOMAIN s = 1..n /\ \A i \in 1..n : s[i] \in E
  BY LenProperties, ElementOfSeq
<1>2. Through(F, s) = t
  BY <1>1 DEF Through
<1> HIDE DEF n
<1>3. \A i \in 1..n : t[i] = F[s[i]] /\ t[i] \in D
  BY <1>1 DEF Maps
<1>4. t \in Seq(D) /\ Len(t) = n
  BY <1>1, <1>3
<1> QED
  BY <1>2, <1>3, <1>4 DEF n

LEMMA ThroughConcat ==
  ASSUME NEW E, NEW D, NEW F, Maps(F, E, D), NEW s \in Seq(E), NEW t \in Seq(E)
  PROVE  Through(F, s \o t) = Through(F, s) \o Through(F, t)
<1> DEFINE u == Through(F, s)
           v == Through(F, t)
           w == Through(F, s \o t)
<1>1. /\ u \in Seq(D) /\ Len(u) = Len(s) /\ \A i \in 1..Len(s) : u[i] = F[s[i]]
      /\ v \in Seq(D) /\ Len(v) = Len(t) /\ \A i \in 1..Len(t) : v[i] = F[t[i]]
  BY ThroughIs
<1>2. /\ s \o t \in Seq(E) /\ Len(s \o t) = Len(s) + Len(t)
      /\ \A i \in 1..(Len(s) + Len(t)) :
           (s \o t)[i] = IF i <= Len(s) THEN s[i] ELSE t[i - Len(s)]
  BY ConcatProperties
<1>3. /\ w \in Seq(D) /\ Len(w) = Len(s) + Len(t)
      /\ \A i \in 1..(Len(s) + Len(t)) : w[i] = F[(s \o t)[i]]
  <2> DEFINE st == s \o t
  <2>1. st \in Seq(E)
    BY <1>2
  <2>2. Len(st) = Len(s) + Len(t)
    BY <1>2
  <2>3. w = Through(F, st)
    OBVIOUS
  <2> HIDE DEF st, w
  <2>4. /\ Through(F, st) \in Seq(D)
        /\ Len(Through(F, st)) = Len(st)
        /\ \A i \in 1..Len(st) : Through(F, st)[i] = F[st[i]]
    BY <2>1, ThroughIs
  <2> QED
    BY <2>2, <2>3, <2>4 DEF st
<1>4. Len(s) \in Nat /\ Len(t) \in Nat
  OBVIOUS
<1> DEFINE m == Len(s)
           n == Len(t)
<1> HIDE DEF u, v, w
<1>5. /\ u \o v \in Seq(D) /\ Len(u \o v) = m + n
      /\ \A i \in 1..(m + n) : (u \o v)[i] = IF i <= m THEN u[i] ELSE v[i - m]
  <2>1. u \in Seq(D)
    BY <1>1
  <2>2. v \in Seq(D)
    BY <1>1
  <2>3. Len(u) = m /\ Len(v) = n
    BY <1>1
  <2> HIDE DEF m, n
  <2> QED
    BY <2>1, <2>2, <2>3, ConcatProperties
<1>6. ASSUME NEW i \in 1..(m + n) PROVE w[i] = (u \o v)[i]
  <2>1. CASE i <= m
    <3>1. i \in 1..m
      BY <1>4, <2>1
    <3> QED
      BY <1>1, <1>2, <1>3, <1>5, <2>1, <3>1
  <2>2. CASE ~(i <= m)
    <3>1. i - m \in 1..n
      BY <1>4, <2>2
    <3> QED
      BY <1>1, <1>2, <1>3, <1>5, <2>2, <3>1
  <2> QED
    BY <2>1, <2>2
<1>7. w = u \o v
  BY <1>3, <1>5, <1>6, SeqEqual
<1> QED
  BY <1>7 DEF u, v, w

Lists(seqs, E) == seqs \in Seq(Seq(E))

Images(F, made, seqs) ==
  Len(made) = Len(seqs) /\ \A i \in 1..Len(seqs) : made[i] = Through(F, seqs[i])

\* FlattenSeq of what F makes of each sequence.
LEMMA FlattenThrough ==
  ASSUME NEW E, NEW D, NEW F, Maps(F, E, D), NEW seqs, Lists(seqs, E),
         NEW made, Lists(made, D), Images(F, made, seqs)
  PROVE  FlattenSeq(made) = Through(F, FlattenSeq(seqs))
<1> DEFINE n == Len(seqs)
<1>0. /\ seqs \in Seq(Seq(E)) /\ made \in Seq(Seq(D)) /\ Len(made) = Len(seqs)
      /\ \A i \in 1..Len(seqs) : made[i] = Through(F, seqs[i])
  BY DEF Lists, Images
<1>1. n \in Nat /\ Len(made) = n /\ \A i \in 1..n : seqs[i] \in Seq(E)
  BY <1>0, LenProperties, ElementOfSeq
<1>2. PICK g : /\ g[0] = <<>>
               /\ \A k \in 1..Len(seqs) : g[k] = g[k - 1] \o seqs[k]
               /\ g[Len(seqs)] = FlattenSeq(seqs)
               /\ \A k \in 0..Len(seqs) : g[k] \in Seq(E)
  BY <1>0, FlattenSteps
<1>3. PICK h : /\ h[0] = <<>>
               /\ \A k \in 1..Len(made) : h[k] = h[k - 1] \o made[k]
               /\ h[Len(made)] = FlattenSeq(made)
  BY <1>0, FlattenSteps
<1> DEFINE T == {k \in Nat : k <= n => h[k] = Through(F, g[k])}
<1>4. 0 \in T
  <2> DEFINE e == <<>>
  <2>1. e \in Seq(E)
    BY EmptySeq
  <2>2. Len(e) = 0
    OBVIOUS
  <2> HIDE DEF e
  <2>3. Through(F, e) \in Seq(D) /\ Len(Through(F, e)) = Len(e)
    BY <2>1, ThroughIs
  <2>4. Through(F, <<>>) = <<>>
    BY <2>2, <2>3, EmptySeq DEF e
  <2> QED
    BY <1>2, <1>3, <2>4
<1> HIDE DEF n
<1>5. ASSUME NEW k \in T PROVE k + 1 \in T
  <2>1. k \in Nat /\ (k <= n => h[k] = Through(F, g[k]))
    OBVIOUS
  <2>2. SUFFICES ASSUME k + 1 <= n PROVE h[k + 1] = Through(F, g[k + 1])
    BY <2>1
  <2>3. k + 1 \in 1..n /\ (k + 1) - 1 = k /\ k \in 0..n /\ k <= n
    BY <1>1, <2>1, <2>2
  <2>4. /\ g[k + 1] = g[k] \o seqs[k + 1] /\ g[k] \in Seq(E) /\ seqs[k + 1] \in Seq(E)
        /\ h[k + 1] = h[k] \o made[k + 1] /\ made[k + 1] = Through(F, seqs[k + 1])
    BY <1>0, <1>1, <1>2, <1>3, <2>3 DEF n
  <2> DEFINE a == g[k]
             b == seqs[k + 1]
  <2> HIDE DEF a, b
  <2>5. Through(F, a \o b) = Through(F, a) \o Through(F, b)
    <3>1. a \in Seq(E) /\ b \in Seq(E)
      BY <2>4 DEF a, b
    <3>2. a \in Seq(E)
      BY <3>1
    <3>3. b \in Seq(E)
      BY <3>1
    <3> QED
      BY <3>2, <3>3, ThroughConcat
  <2> QED
    BY <2>1, <2>3, <2>4, <2>5 DEF a, b
<1>6. n \in T
  <2>1. T \in SUBSET Nat
    OBVIOUS
  <2> HIDE DEF T
  <2> QED
    BY <1>1, <1>4, <1>5, <2>1, NatSet
<1> QED
  BY <1>1, <1>2, <1>3, <1>6 DEF n

-----------------------------------------------------------------------------
(* Sums.                                                                   *)

\* h[k] is the sum of w[1], ..., w[k].
Adds(h, w, n) == h[0] = 0 /\ \A k \in 1..n : h[k] = h[k - 1] + w[k]

LEMMA AddsNat ==
  ASSUME NEW n \in Nat, NEW w, \A k \in 1..n : w[k] \in Nat, NEW h, Adds(h, w, n)
  PROVE  \A k \in 0..n : h[k] \in Nat
<1> DEFINE T == {k \in Nat : k <= n => h[k] \in Nat}
<1>1. 0 \in T
  BY DEF Adds
<1>2. ASSUME NEW k \in T PROVE k + 1 \in T
  <2>1. k \in Nat /\ (k <= n => h[k] \in Nat)
    OBVIOUS
  <2>2. SUFFICES ASSUME k + 1 <= n PROVE h[k + 1] \in Nat
    BY <2>1
  <2>3. k + 1 \in 1..n /\ (k + 1) - 1 = k /\ k <= n
    BY <2>1, <2>2
  <2>4. h[k + 1] = h[k] + w[k + 1] /\ w[k + 1] \in Nat /\ h[k] \in Nat
    BY <2>1, <2>3 DEF Adds
  <2> QED
    BY <2>4
<1>3. \A k \in Nat : k \in T
  <2>1. T \in SUBSET Nat
    OBVIOUS
  <2> HIDE DEF T
  <2> QED
    BY <1>1, <1>2, <2>1, NatSet
<1> QED
  BY <1>3

LEMMA AddsSame ==
  ASSUME NEW n \in Nat, NEW v, NEW w, \A k \in 1..n : v[k] = w[k],
         NEW g, NEW h, Adds(g, v, n), Adds(h, w, n)
  PROVE  \A k \in 0..n : g[k] = h[k]
<1> DEFINE T == {k \in Nat : k <= n => g[k] = h[k]}
<1>1. 0 \in T
  BY DEF Adds
<1>2. ASSUME NEW k \in T PROVE k + 1 \in T
  <2>1. k \in Nat /\ (k <= n => g[k] = h[k])
    OBVIOUS
  <2>2. SUFFICES ASSUME k + 1 <= n PROVE g[k + 1] = h[k + 1]
    BY <2>1
  <2>3. k + 1 \in 1..n /\ (k + 1) - 1 = k /\ k <= n
    BY <2>1, <2>2
  <2>4. g[k + 1] = g[k] + v[k + 1] /\ h[k + 1] = h[k] + w[k + 1] /\ v[k + 1] = w[k + 1]
    BY <2>3 DEF Adds
  <2> QED
    BY <2>1, <2>3, <2>4
<1>3. \A k \in Nat : k \in T
  <2>1. T \in SUBSET Nat
    OBVIOUS
  <2> HIDE DEF T
  <2> QED
    BY <1>1, <1>2, <2>1, NatSet
<1> QED
  BY <1>3

\* A sum over sets of places: the order of its elements does not matter.
SumOver(sum, w, n) ==
  /\ sum[{}] = 0
  /\ \A s \in SUBSET (1..n) : sum[s] \in Nat
  /\ \A s \in SUBSET (1..n) : \A x \in (1..n) \ s : sum[s \cup {x}] = sum[s] + w[x]

LEMMA SumExists ==
  ASSUME NEW n \in Nat, NEW w, \A k \in 1..n : w[k] \in Nat
  PROVE  \E sum : SumOver(sum, w, n)
<1> DEFINE T == {k \in Nat : k <= n => \E sum : SumOver(sum, w, k)}
<1>1. 0 \in T
  <2> DEFINE sum == [s \in SUBSET (1..0) |-> 0]
  <2>1. SumOver(sum, w, 0)
    BY DEF SumOver
  <2> QED
    BY <2>1
<1>2. ASSUME NEW k \in T PROVE k + 1 \in T
  <2>1. k \in Nat /\ (k <= n => \E sum : SumOver(sum, w, k))
    OBVIOUS
  <2>2. SUFFICES ASSUME k + 1 <= n PROVE \E sum : SumOver(sum, w, k + 1)
    BY <2>1
  <2> DEFINE m == k + 1
  <2>3. /\ k <= n /\ m \in 1..n /\ m \notin 1..k /\ w[m] \in Nat
        /\ \A i : i \in 1..m <=> i \in 1..k \/ i = m
    BY <2>1, <2>2
  <2>4. PICK old : SumOver(old, w, k)
    BY <2>1, <2>3
  <2> DEFINE new == [s \in SUBSET (1..m) |->
                       IF m \in s THEN old[s \ {m}] + w[m] ELSE old[s]]
  <2>5. \A s \in SUBSET (1..m) : new[s] = IF m \in s THEN old[s \ {m}] + w[m] ELSE old[s]
    OBVIOUS
  <2> HIDE DEF m, new
  <2>6. new[{}] = 0
    BY <2>4, <2>5 DEF SumOver
  <2>7. ASSUME NEW s \in SUBSET (1..m) PROVE new[s] \in Nat
    <3>1. s \ {m} \in SUBSET (1..k) /\ (m \notin s => s \in SUBSET (1..k))
      BY <2>3
    <3>2. old[s \ {m}] \in Nat /\ (m \notin s => old[s] \in Nat)
      BY <2>4, <3>1 DEF SumOver
    <3> QED
      BY <2>3, <2>5, <3>2
  <2>8. ASSUME NEW s \in SUBSET (1..m), NEW x \in (1..m) \ s
        PROVE  new[s \cup {x}] = new[s] + w[x]
    <3> DEFINE t == s \cup {x}
               r == s \ {m}
    <3>1. t \in SUBSET (1..m) /\ r \in SUBSET (1..k)
      BY <2>3
    <3>2. CASE x = m
      <4>1. t \ {m} = s /\ m \in t /\ m \notin s
        BY <3>2
      <4> QED
        BY <2>5, <3>1, <3>2, <4>1
    <3>3. CASE x # m
      <4>1. x \in (1..k) \ r
        BY <2>3, <3>3
      <4>2. old[r \cup {x}] = old[r] + w[x] /\ old[r] \in Nat /\ w[x] \in Nat
        <5>1. x \in 1..n
          BY <2>1, <2>3, <4>1
        <5> QED
          BY <2>4, <3>1, <4>1, <5>1 DEF SumOver
      <4>3. CASE m \in s
        <5>1. t \ {m} = r \cup {x} /\ m \in t
          BY <3>3, <4>3
        <5>2. new[t] = old[r \cup {x}] + w[m] /\ new[s] = old[r] + w[m]
          BY <2>5, <3>1, <4>3, <5>1
        <5> HIDE DEF t, r
        <5> QED
          BY <2>3, <4>2, <5>2 DEF t
      <4>4. CASE m \notin s
        <5>1. t = r \cup {x} /\ r = s /\ m \notin t
          BY <3>3, <4>4
        <5>2. new[t] = old[t] /\ new[s] = old[s]
          BY <2>5, <3>1, <4>4, <5>1
        <5> QED
          BY <4>2, <5>1, <5>2
      <4> QED
        BY <4>3, <4>4
    <3> QED
      BY <3>2, <3>3
  <2>9. SumOver(new, w, m)
    BY <2>6, <2>7, <2>8 DEF SumOver
  <2> QED
    BY <2>9 DEF m
<1>3. n \in T
  <2>1. T \in SUBSET Nat
    OBVIOUS
  <2> HIDE DEF T
  <2> QED
    BY <1>1, <1>2, <2>1, NatSet
<1> QED
  BY <1>3

Once(p, n) == p \in [1..n -> 1..n] /\ \A i, j \in 1..n : p[i] = p[j] => i = j

Along(v, w, p, n) == \A k \in 1..n : v[k] = w[p[k]]

\* The sum along p, which goes through n places and comes to none twice.
LEMMA AddsAlong ==
  ASSUME NEW n \in Nat, NEW w, NEW sum, SumOver(sum, w, n),
         NEW p, Once(p, n), NEW v, Along(v, w, p, n), NEW h, Adds(h, v, n)
  PROVE  h[n] = sum[{p[k] : k \in 1..n}]
<1> DEFINE T == {k \in Nat : k <= n => h[k] = sum[{p[i] : i \in 1..k}]}
<1>1. 0 \in T
  <2>1. {p[i] : i \in 1..0} = {}
    OBVIOUS
  <2> QED
    BY <2>1 DEF Adds, SumOver
<1>2. ASSUME NEW k \in T PROVE k + 1 \in T
  <2> DEFINE s == {p[i] : i \in 1..k}
             t == {p[i] : i \in 1..(k + 1)}
             x == p[k + 1]
  <2>1. k \in Nat /\ (k <= n => h[k] = sum[s])
    OBVIOUS
  <2>2. SUFFICES ASSUME k + 1 <= n PROVE h[k + 1] = sum[t]
    BY <2>1
  <2>3. /\ k + 1 \in 1..n /\ (k + 1) - 1 = k /\ k <= n
        /\ \A i \in 1..k : i \in 1..n /\ i # k + 1
        /\ \A i : i \in 1..(k + 1) <=> i \in 1..k \/ i = k + 1
    BY <2>1, <2>2
  <2>4. s \in SUBSET (1..n) /\ x \in (1..n) \ s /\ t = s \cup {x}
    <3>1. \A i \in 1..k : p[i] \in 1..n /\ p[i] # x
      BY <2>3 DEF Once
    <3>2. x \in 1..n
      BY <2>3 DEF Once
    <3>3. t = s \cup {x}
      BY <2>3
    <3> HIDE DEF x, t
    <3> QED
      BY <3>1, <3>2, <3>3
  <2>5. h[k + 1] = h[k] + v[k + 1] /\ v[k + 1] = w[x]
    BY <2>3 DEF Adds, Along
  <2>6. sum[s \cup {x}] = sum[s] + w[x]
    BY <2>4 DEF SumOver
  <2> HIDE DEF s, t, x
  <2> QED
    BY <2>1, <2>3, <2>4, <2>5, <2>6
<1>3. n \in T
  <2>1. T \in SUBSET Nat
    OBVIOUS
  <2> HIDE DEF T
  <2> QED
    BY <1>1, <1>2, <2>1, NatSet
<1> QED
  BY <1>3

\* A sum does not depend on the order of its terms.
LEMMA AddsPermuted ==
  ASSUME NEW n \in Nat, NEW w, \A k \in 1..n : w[k] \in Nat,
         NEW p, Once(p, n), \A i \in 1..n : \E k \in 1..n : p[k] = i,
         NEW v, Along(v, w, p, n), NEW g, NEW h, Adds(g, w, n), Adds(h, v, n)
  PROVE  g[n] = h[n]
<1>1. PICK sum : SumOver(sum, w, n)
  BY SumExists
<1>2. PICK id : Once(id, n) /\ Along(w, w, id, n) /\ \A k \in 1..n : id[k] = k
  <2> DEFINE id == [k \in 1..n |-> k]
  <2>1. Once(id, n) /\ Along(w, w, id, n) /\ \A k \in 1..n : id[k] = k
    BY DEF Once, Along
  <2> QED
    BY <2>1
<1>3. {id[k] : k \in 1..n} = 1..n /\ {p[k] : k \in 1..n} = 1..n
  BY <1>2 DEF Once
<1>4. g[n] = sum[{id[k] : k \in 1..n}]
  <2>1. Once(id, n)
    BY <1>2
  <2>2. Along(w, w, id, n)
    BY <1>2
  <2>3. n \in Nat
    OBVIOUS
  <2>4. Adds(g, w, n)
    OBVIOUS
  <2> QED
    BY ONLY <1>1, <2>1, <2>2, <2>3, <2>4, AddsAlong
<1>5. h[n] = sum[{p[k] : k \in 1..n}]
  BY <1>1, AddsAlong
<1> QED
  BY <1>3, <1>4, <1>5

-----------------------------------------------------------------------------
(* The columns Flatten makes.                                              *)

IsTuple(h, n) == h = [k \in 1..n |-> h[k]]

LEMMA TupleIsSeq ==
  ASSUME NEW n \in Nat, NEW h, IsTuple(h, n)
  PROVE  IsSeq(h) /\ DOMAIN h = 1..n /\ Len(h) = n
<1> DEFINE E == {h[k] : k \in 1..n}
<1>1. \A k \in 1..n : h[k] \in E
  OBVIOUS
<1> HIDE DEF E
<1>2. h \in Seq(E) /\ Len(h) = n
  BY <1>1 DEF IsTuple
<1>3. DOMAIN h = 1..n
  BY <1>2
<1> QED
  BY <1>2, <1>3 DEF IsSeq

LEMMA SeqIsTuple ==
  ASSUME NEW s, IsSeq(s)
  PROVE  Len(s) \in Nat /\ DOMAIN s = 1..Len(s)
  BY DEF IsSeq

\* A sequence over another one's places.
Mapped(h, s) == h = [k \in DOMAIN s |-> h[k]]

LEMMA MappedIsSeq ==
  ASSUME NEW s, IsSeq(s), NEW h, Mapped(h, s)
  PROVE  IsSeq(h) /\ DOMAIN h = DOMAIN s /\ Len(h) = Len(s)
<1> DEFINE n == Len(s)
<1>1. n \in Nat /\ DOMAIN s = 1..n
  BY SeqIsTuple
<1> HIDE DEF n
<1>2. IsTuple(h, n)
  BY <1>1 DEF Mapped, IsTuple
<1>3. IsSeq(h) /\ DOMAIN h = 1..n /\ Len(h) = n
  BY <1>1, <1>2, TupleIsSeq
<1> QED
  BY <1>1, <1>3 DEF n

Under(prefix, c) == [c EXCEPT !.name = Concat(prefix, @)]

LEMMA SpreadIs ==
  ASSUME NEW copies, IsSeq(copies), NEW inner, IsSeq(inner)
  PROVE  /\ IsSeq(Spread(copies, inner))
         /\ \A x : x \in ToSet(Spread(copies, inner)) <=>
                     \E i \in DOMAIN copies, j \in DOMAIN inner : x = Under(copies[i], inner[j])
<1> DEFINE Cell(i, j) == Under(copies[i], inner[j])
           Row(i)     == [j \in DOMAIN inner |-> Cell(i, j)]
           rows       == [i \in DOMAIN copies |-> Row(i)]
<1>1. Spread(copies, inner) = FlattenSeq(rows)
  BY DEF Spread, Under
<1> HIDE DEF Cell
<1>2. ASSUME NEW i \in DOMAIN copies
      PROVE  IsSeq(Row(i)) /\ ToSet(Row(i)) = {Cell(i, j) : j \in DOMAIN inner}
  <2>1. Mapped(Row(i), inner)
    BY DEF Mapped
  <2>2. IsSeq(Row(i)) /\ DOMAIN Row(i) = DOMAIN inner
    BY <2>1, MappedIsSeq
  <2> QED
    BY <2>2 DEF ToSet
<1> HIDE DEF Row
<1>3. Mapped(rows, copies) /\ \A i \in DOMAIN copies : rows[i] = Row(i)
  BY DEF Mapped
<1> HIDE DEF rows
<1>4. IsSeq(rows) /\ DOMAIN rows = DOMAIN copies
  BY <1>3, MappedIsSeq
<1>5. /\ IsSeq(FlattenSeq(rows))
      /\ ToSet(FlattenSeq(rows)) = UNION {ToSet(rows[i]) : i \in DOMAIN rows}
  BY <1>2, <1>3, <1>4, Flattened
<1>6. \A x : x \in ToSet(FlattenSeq(rows)) <=>
                \E i \in DOMAIN copies, j \in DOMAIN inner : x = Cell(i, j)
  BY <1>2, <1>3, <1>4, <1>5
<1> QED
  BY <1>1, <1>5, <1>6 DEF Cell

LEMMA CopiesAre ==
  ASSUME Typed, NEW file \in DOMAIN Files, NEW f
  PROVE  IsSeq(CopiesOf(file, f))
<1>1. CASE f.repeated
  <2> DEFINE n == GetEnumValue(file, f.count)
             h == Numbered(f.name, n)
  <2>1. n \in Nat
    BY ValueIsNat
  <2>2. IsTuple(h, n)
    BY DEF IsTuple, Numbered
  <2>3. IsSeq(h)
    BY <2>1, <2>2, TupleIsSeq
  <2> QED
    BY <1>1, <2>3 DEF CopiesOf
<1>2. CASE ~f.repeated
  <2> DEFINE h == <<f.name>>
  <2>1. IsTuple(h, 1)
    BY DEF IsTuple
  <2>2. IsSeq(h)
    BY <2>1, TupleIsSeq
  <2> QED
    BY <1>2, <2>2 DEF CopiesOf
<1> QED
  BY <1>1, <1>2

\* A column, with the size the record gives it.
IsColumn(c) == c = [name |-> c.name, type |-> c.type, size |-> c.size]

AreColumns(columns) == IsSeq(columns) /\ \A i \in DOMAIN columns : IsColumn(columns[i])
AreSized(columns)   == \A i \in DOMAIN columns : columns[i].size \in Nat \ {0}

FlatOK(flat) == AreColumns(flat.columns) /\ (flat.ok => AreSized(flat.columns))

LEMMA LeafIs ==
  ASSUME Typed, NEW m \in Messages, NEW f, f.type \in Leaves
  PROVE  /\ FlatOK(Leaf(m, f))
         /\ DOMAIN Leaf(m, f).columns = {1}
         /\ Leaf(m, f).columns[1] = [name |-> "", type |-> f.type, size |-> LeafSize(m, f)]
<1> DEFINE h == Leaf(m, f).columns
           c == [name |-> "", type |-> f.type, size |-> LeafSize(m, f)]
<1>1. h = <<c>> /\ (Leaf(m, f).ok <=> LeafSize(m, f) # 0)
  BY DEF Leaf
<1>2. IsColumn(c) /\ c.size = LeafSize(m, f)
  BY DEF IsColumn
<1> HIDE DEF h, c
<1>3. IsTuple(h, 1) /\ h[1] = c
  BY <1>1 DEF IsTuple
<1>4. IsSeq(h) /\ DOMAIN h = 1..1
  BY <1>3, TupleIsSeq
<1>5. LeafSize(m, f) \in Nat
  BY LeafSizeIsNat
<1>6. DOMAIN h = {1}
  BY <1>4
<1>7. FlatOK(Leaf(m, f))
  <2>1. AreColumns(h)
    BY <1>2, <1>3, <1>4, <1>6 DEF AreColumns
  <2>2. Leaf(m, f).ok => AreSized(h)
    BY <1>1, <1>2, <1>3, <1>5, <1>6 DEF AreSized
  <2> QED
    BY <2>1, <2>2 DEF FlatOK, h
<1> QED
  BY <1>3, <1>6, <1>7 DEF h, c

\* The sequence of a field's columns in Flatten[at].
PartOf(at, f) == Spread(CopiesOf(at[1], f), InnerOf(Flatten, at, f).columns)

LEMMA FlattenParts ==
  ASSUME Nested, NEW at \in Pairs
  PROVE  LET own == fields[at[2]]
         IN  /\ Flatten[at].ok <=>
                  \A i \in DOMAIN own : /\ own[i].repeated => GetEnumValue(at[1], own[i].count) # 0
                                        /\ InnerOf(Flatten, at, own[i]).ok
             /\ Flatten[at].columns = FlattenSeq([i \in DOMAIN own |-> PartOf(at, own[i])])
<1>1. Flatten[at] = FlattenStep(Flatten, at)
  BY FlattenIs
<1> QED
  BY <1>1 DEF FlattenStep, PartOf

LEMMA FlatStep ==
  ASSUME Legal, NEW at \in Pairs,
         \A b \in Pairs : Depth[b] < Depth[at] => FlatOK(Flatten[b])
  PROVE  FlatOK(Flatten[at])
<1> DEFINE own   == fields[at[2]]
           In(i) == InnerOf(Flatten, at, own[i])
           parts == [i \in DOMAIN own |-> PartOf(at, own[i])]
<1>1. at[1] \in DOMAIN Files /\ at[2] \in Messages /\ own \in Seq(Field)
  BY DEF Pairs, Legal, Typed
<1>2. /\ Flatten[at].ok => \A i \in DOMAIN own : In(i).ok
      /\ Flatten[at].columns = FlattenSeq(parts)
  BY FlattenParts DEF Legal
<1>3. ASSUME NEW i \in DOMAIN own PROVE FlatOK(In(i))
  <2>1. own[i] \in Field
    BY <1>1
  <2>2. CASE own[i].type \in Messages
    <3> DEFINE b == <<at[1], own[i].type>>
    <3>1. b \in Pairs /\ b[2] = own[i].type
      BY <1>1, <2>2 DEF Pairs
    <3>2. Depth[b] < Depth[at]
      BY <1>1, <2>2, <3>1, DepthIsNat DEF Legal, Nested
    <3> QED
      BY <2>2, <3>1, <3>2 DEF InnerOf
  <2>3. CASE own[i].type \notin Messages
    <3>1. own[i].type \in Leaves
      BY <2>1, <2>3 DEF Field
    <3> QED
      BY <1>1, <2>3, <3>1, LeafIs DEF InnerOf, Legal
  <2> QED
    BY <2>2, <2>3
<1>4. ASSUME NEW i \in DOMAIN own
      PROVE  AreColumns(parts[i]) /\ (In(i).ok => AreSized(parts[i]))
  <2> DEFINE copies == CopiesOf(at[1], own[i])
             inner  == In(i).columns
  <2>1. parts[i] = Spread(copies, inner)
    BY DEF PartOf
  <2>2. IsSeq(copies) /\ AreColumns(inner) /\ (In(i).ok => AreSized(inner))
    BY <1>1, <1>3, CopiesAre DEF FlatOK, Legal
  <2> HIDE DEF copies, inner, parts
  <2>3. IsSeq(copies) /\ IsSeq(inner)
    BY <2>2 DEF AreColumns
  <2>4. IsSeq(Spread(copies, inner))
    BY <2>3, SpreadIs
  <2>5. ASSUME NEW k \in DOMAIN parts[i]
        PROVE  IsColumn(parts[i][k]) /\ (In(i).ok => parts[i][k].size \in Nat \ {0})
    <3>1. parts[i][k] \in ToSet(Spread(copies, inner))
      BY <2>1 DEF ToSet
    <3>2. PICK p \in DOMAIN copies, j \in DOMAIN inner : parts[i][k] = Under(copies[p], inner[j])
      BY <2>3, <3>1, SpreadIs
    <3> DEFINE c == inner[j]
               n == Concat(copies[p], c.name)
    <3>4. IsColumn(c) /\ (In(i).ok => c.size \in Nat \ {0})
      BY <2>2 DEF AreColumns, AreSized
    <3>5. parts[i][k] = [c EXCEPT !.name = n]
      BY <3>2 DEF Under
    <3> HIDE DEF c, n
    <3>6. parts[i][k] = [name |-> n, type |-> c.type, size |-> c.size]
      BY <3>4, <3>5 DEF IsColumn
    <3> QED
      BY <3>4, <3>6 DEF IsColumn
  <2> QED
    BY <2>1, <2>4, <2>5 DEF AreColumns, AreSized
<1>5. Mapped(parts, own)
  BY DEF Mapped
<1>6. IsSeq(own)
  BY <1>1 DEF IsSeq
<1> HIDE DEF parts, In
<1>7. IsSeq(parts) /\ DOMAIN parts = DOMAIN own
  BY <1>5, <1>6, MappedIsSeq
<1> DEFINE flat == FlattenSeq(parts)
<1>8. IsSeq(flat) /\ ToSet(flat) = UNION {ToSet(parts[i]) : i \in DOMAIN parts}
  BY <1>4, <1>7, Flattened DEF AreColumns
<1> HIDE DEF flat
<1>9. ASSUME NEW k \in DOMAIN flat
      PROVE  IsColumn(flat[k]) /\ (Flatten[at].ok => flat[k].size \in Nat \ {0})
  <2>1. flat[k] \in ToSet(flat)
    BY DEF ToSet
  <2>2. PICK i \in DOMAIN own : flat[k] \in ToSet(parts[i])
    BY <1>7, <1>8, <2>1
  <2>3. PICK j \in DOMAIN parts[i] : flat[k] = parts[i][j]
    BY <2>2 DEF ToSet
  <2> QED
    BY <1>2, <1>4, <2>2, <2>3 DEF AreColumns, AreSized
<1> QED
  BY <1>2, <1>8, <1>9 DEF FlatOK, AreColumns, AreSized, flat

LEMMA FlatColumns ==
  ASSUME Legal
  PROVE  \A at \in Pairs : FlatOK(Flatten[at])
<1> DEFINE T == {at \in Pairs : FlatOK(Flatten[at])}
<1>1. \A at \in Pairs : (\A b \in Pairs : Depth[b] < Depth[at] => b \in T) => at \in T
  BY FlatStep
<1> HIDE DEF T
<1>2. \A at \in Pairs : at \in T
  BY <1>1, DepthIsNat, LevelSet
<1> QED
  BY <1>2 DEF T

-----------------------------------------------------------------------------
(* The table: a column's offset is the sum of the sizes before it.         *)

Create == INSTANCE Recursion WITH Step <- CreateField

Columns(m) == Flatten[<<home[m], m>>].columns

NoTable == [size |-> 0, meta |-> <<>>]

LEMMA TableSteps ==
  ASSUME NEW m \in Messages, IsSeq(Columns(m))
  PROVE  \E g : /\ g[0] = NoTable
                /\ \A k \in 1..Len(Columns(m)) : g[k] = CreateField(g[k - 1], Columns(m)[k])
                /\ g[Len(Columns(m))] = TableMeta(m)
<1> DEFINE c == Columns(m)
<1>1. \A base, seq : FoldLeft(CreateField, base, seq) = Create!Fold(base, seq)
  BY DEF FoldLeft, MapThenFoldSet, Max, Create!Fold, Create!FoldOf, Create!Max
<1>2. TableMeta(m) = Create!Fold([size |-> 0, meta |-> <<>>], Flatten[<<home[m], m>>].columns)
  BY <1>1 DEF TableMeta
<1>3. TableMeta(m) = Create!Fold(NoTable, c)
  BY <1>2 DEF NoTable, Columns
<1>4. PICK E : c \in Seq(E)
  BY DEF IsSeq
<1>5. \E g : /\ g[0] = NoTable
             /\ \A k \in 1..Len(c) : g[k] = CreateField(g[k - 1], c[k])
             /\ g[Len(c)] = Create!Fold(NoTable, c)
  BY <1>4, NatSet, Create!FoldLeftIs DEF Create!Induction
<1> QED
  BY <1>3, <1>5

\* ends[k] is the sum of the first k sizes: column k has the bytes from ends[k - 1]
\* to before ends[k].
Ends(ends, c, n) ==
  /\ ends[0] = 0
  /\ \A k \in 0..n : ends[k] \in Nat
  /\ \A k \in 1..n : c[k].size \in Nat \ {0} /\ ends[k] = ends[k - 1] + c[k].size

Has(ends, k, b) == ends[k - 1] <= b /\ b < ends[k]

LEMMA EndsGrow ==
  ASSUME NEW ends, NEW c, NEW n \in Nat, Ends(ends, c, n)
  PROVE  \A k \in 0..n : \A j \in 0..k : ends[j] <= ends[k]
<1> DEFINE Up(k) == k <= n => \A j \in 0..k : ends[j] <= ends[k]
           T == {k \in Nat : Up(k)}
<1>1. 0 \in T
  BY DEF Ends
<1>2. ASSUME NEW k \in T PROVE k + 1 \in T
  <2>1. k \in Nat /\ Up(k)
    OBVIOUS
  <2>2. SUFFICES ASSUME k + 1 <= n, NEW j \in 0..(k + 1) PROVE ends[j] <= ends[k + 1]
    BY <2>1
  <2>3. k + 1 \in 1..n /\ (k + 1) - 1 = k /\ k \in 0..n /\ k <= n /\ k + 1 \in 0..n
    BY <2>1, <2>2
  <2>4. ends[k + 1] = ends[k] + c[k + 1].size /\ c[k + 1].size \in Nat
    BY <2>3 DEF Ends
  <2>5. CASE j = k + 1
    BY <2>3, <2>5 DEF Ends
  <2>6. CASE j # k + 1
    <3>1. j \in 0..k /\ j \in 0..n
      BY <2>1, <2>2, <2>3, <2>6
    <3>2. ends[j] <= ends[k] /\ ends[j] \in Nat /\ ends[k] \in Nat
      BY <2>1, <2>3, <3>1 DEF Ends
    <3> QED
      BY <2>4, <3>2
  <2> QED
    BY <2>5, <2>6
<1> HIDE DEF Up
<1>3. \A k \in Nat : k \in T
  <2>1. T \in SUBSET Nat
    OBVIOUS
  <2> HIDE DEF T
  <2> QED
    BY <1>1, <1>2, <2>1, NatSet
<1> QED
  BY <1>3 DEF Up

\* The columns' bytes are those of the record,
LEMMA EveryByteHas ==
  ASSUME NEW ends, NEW c, NEW n \in Nat, Ends(ends, c, n)
  PROVE  \A b \in Nat : b < ends[n] => \E k \in 1..n : Has(ends, k, b)
<1> DEFINE In(k) == k <= n => \A b \in Nat : b < ends[k] => \E j \in 1..k : Has(ends, j, b)
           T == {k \in Nat : In(k)}
<1>1. 0 \in T
  BY DEF Ends
<1>2. ASSUME NEW k \in T PROVE k + 1 \in T
  <2>1. k \in Nat /\ In(k)
    OBVIOUS
  <2>2. SUFFICES ASSUME k + 1 <= n, NEW b \in Nat, b < ends[k + 1]
                 PROVE  \E j \in 1..(k + 1) : Has(ends, j, b)
    BY <2>1
  <2>3. k + 1 \in 1..n /\ (k + 1) - 1 = k /\ k \in 0..n /\ k <= n
    BY <2>1, <2>2
  <2>4. CASE b < ends[k]
    <3>1. PICK j \in 1..k : Has(ends, j, b)
      BY <2>1, <2>3, <2>4
    <3>2. j \in 1..(k + 1)
      BY <2>1
    <3> QED
      BY <3>1, <3>2
  <2>5. CASE ~(b < ends[k])
    <3>1. ends[k] <= b
      BY <2>3, <2>5 DEF Ends
    <3>2. Has(ends, k + 1, b) /\ k + 1 \in 1..(k + 1)
      BY <2>1, <2>2, <2>3, <3>1 DEF Has
    <3> QED
      BY <3>2
  <2> QED
    BY <2>4, <2>5
<1> HIDE DEF In
<1>3. \A k \in Nat : k \in T
  <2>1. T \in SUBSET Nat
    OBVIOUS
  <2> HIDE DEF T
  <2> QED
    BY <1>1, <1>2, <2>1, NatSet
<1> QED
  BY <1>3 DEF In

\* and no byte belongs to two.
LEMMA OneHas ==
  ASSUME NEW ends, NEW c, NEW n \in Nat, Ends(ends, c, n), NEW b \in Nat,
         NEW i \in 1..n, NEW j \in 1..n, Has(ends, i, b), Has(ends, j, b)
  PROVE  i = j
<1>1. ASSUME NEW x \in 1..n, NEW y \in 1..n, Has(ends, x, b), Has(ends, y, b), x < y
      PROVE  FALSE
  <2> DEFINE p == y - 1
  <2>1. p \in 0..n /\ x \in 0..p /\ x \in 0..n
    BY <1>1
  <2>2. ends[x] <= ends[p] /\ ends[x] \in Nat /\ ends[p] \in Nat
    BY <2>1, EndsGrow DEF Ends
  <2>3. b < ends[x] /\ ends[p] <= b
    BY <1>1 DEF Has
  <2> HIDE DEF p
  <2> QED
    BY <2>2, <2>3
<1>2. ~(i < j) /\ ~(j < i)
  BY <1>1
<1> QED
  BY <1>2

LEMMA FirstByte ==
  ASSUME NEW ends, NEW c, NEW n \in Nat, Ends(ends, c, n), NEW i \in 1..n
  PROVE  /\ ends[i - 1] \in Nat /\ Has(ends, i, ends[i - 1])
         /\ ends[i - 1] < ends[n] /\ ends[i] <= ends[n] /\ ends[i] \in Nat
         /\ ends[n] \in Nat
<1>1. i - 1 \in 0..n /\ i \in 0..n /\ n \in 0..n
  OBVIOUS
<1>2. /\ ends[i - 1] \in Nat /\ ends[i] \in Nat /\ ends[n] \in Nat
      /\ c[i].size \in Nat \ {0} /\ ends[i] = ends[i - 1] + c[i].size
  BY <1>1 DEF Ends
<1>3. ends[i] <= ends[n]
  BY <1>1, EndsGrow
<1> DEFINE low == ends[i - 1]
           high == ends[i]
           top == ends[n]
<1>4. low < high
  BY <1>2
<1> HIDE DEF low, high, top
<1>5. low <= low /\ low < top
  BY <1>2, <1>3, <1>4 DEF low, high, top
<1> QED
  BY <1>2, <1>3, <1>4, <1>5 DEF Has, low, high, top

Entry(c, ends, i) == [type |-> c[i].type, size |-> c[i].size, offset |-> ends[i - 1]]

\* The first column of a name has it.
IsFirst(c, k, i, name) ==
  c[i].name = name /\ \A j \in 1..k : c[j].name = name => i <= j

Made(table, c, ends, k) ==
  /\ table.size = ends[k]
  /\ \A x : x \in DOMAIN table.meta <=> \E j \in 1..k : c[j].name = x
  /\ \A x \in DOMAIN table.meta :
       \E i \in 1..k : IsFirst(c, k, i, x) /\ table.meta[x] = Entry(c, ends, i)

LEMMA MadeStep ==
  ASSUME NEW k \in Nat, NEW old, NEW new, NEW c, NEW ends, Made(old, c, ends, k),
         ends[k + 1] = ends[k] + c[k + 1].size, new = CreateField(old, c[k + 1])
  PROVE  Made(new, c, ends, k + 1)
<1> DEFINE n == k + 1
           y == c[n].name
           e == [type |-> c[n].type, size |-> c[n].size, offset |-> old.size]
<1>1. n \in Nat /\ n \in 1..n /\ n - 1 = k /\ \A i : i \in 1..n <=> i \in 1..k \/ i = n
  OBVIOUS
<1>2. /\ old.size = ends[k]
      /\ \A x : x \in DOMAIN old.meta <=> \E j \in 1..k : c[j].name = x
      /\ \A x \in DOMAIN old.meta :
           \E i \in 1..k : IsFirst(c, k, i, x) /\ old.meta[x] = Entry(c, ends, i)
  BY DEF Made
<1>3. new.size = old.size + c[n].size /\ new.meta = Emplace(old.meta, y, e)
  BY DEF CreateField
<1>4. e = Entry(c, ends, n)
  BY <1>1, <1>2 DEF Entry
<1>5. ends[n] = ends[k] + c[n].size
  OBVIOUS
<1> HIDE DEF n, e
<1>6. /\ DOMAIN new.meta = DOMAIN old.meta \cup {y}
      /\ \A x \in DOMAIN old.meta : new.meta[x] = old.meta[x]
      /\ y \notin DOMAIN old.meta => new.meta[y] = e
  BY <1>3 DEF Emplace
<1>7. new.size = ends[n]
  BY <1>2, <1>3, <1>5
<1>8. \A x : x \in DOMAIN new.meta <=> \E j \in 1..n : c[j].name = x
  BY <1>1, <1>2, <1>6
<1>9. ASSUME NEW x \in DOMAIN new.meta
      PROVE  \E i \in 1..n : IsFirst(c, n, i, x) /\ new.meta[x] = Entry(c, ends, i)
  <2>1. CASE x \in DOMAIN old.meta
    <3>1. PICK i \in 1..k : IsFirst(c, k, i, x) /\ old.meta[x] = Entry(c, ends, i)
      BY <1>2, <2>1
    <3>2. i \in 1..n /\ i <= n
      BY <1>1
    <3>3. IsFirst(c, n, i, x)
      BY <1>1, <3>1, <3>2 DEF IsFirst
    <3> QED
      BY <1>6, <2>1, <3>1, <3>2, <3>3
  <2>2. CASE x \notin DOMAIN old.meta
    <3>1. x = y /\ new.meta[x] = Entry(c, ends, n)
      BY <1>4, <1>6, <2>2
    <3>2. \A j \in 1..n : c[j].name = y => j = n
      BY <1>1, <1>2, <2>2, <3>1
    <3>3. IsFirst(c, n, n, x)
      BY <1>1, <3>1, <3>2 DEF IsFirst
    <3> QED
      BY <1>1, <3>1, <3>3
  <2> QED
    BY <2>1, <2>2
<1>10. Made(new, c, ends, n)
  BY <1>7, <1>8, <1>9 DEF Made
<1> QED
  BY <1>10 DEF n

LEMMA TableIs ==
  ASSUME Legal, NEW m \in Messages, GetsThrough(m)
  PROVE  /\ Len(Columns(m)) \in Nat /\ DOMAIN Columns(m) = 1..Len(Columns(m))
         /\ \E ends : /\ Ends(ends, Columns(m), Len(Columns(m)))
                      /\ Made(TableMeta(m), Columns(m), ends, Len(Columns(m)))
<1> DEFINE c  == Columns(m)
           n  == Len(c)
           at == <<home[m], m>>
<1>1. at \in Pairs
  BY LayoutAssumption DEF LayoutAssumption, Legal, Typed, Pairs
<1>2. FlatOK(Flatten[at]) /\ Flatten[at].ok /\ c = Flatten[at].columns
  BY <1>1, FlatColumns DEF GetsThrough, Columns
<1> HIDE DEF c, at
<1>3. IsSeq(c) /\ \A i \in DOMAIN c : IsColumn(c[i]) /\ c[i].size \in Nat \ {0}
  BY <1>2 DEF FlatOK, AreColumns, AreSized
<1>4. n \in Nat /\ DOMAIN c = 1..n
  BY <1>3, SeqIsTuple
<1>5. PICK g : /\ g[0] = NoTable
               /\ \A k \in 1..n : g[k] = CreateField(g[k - 1], c[k])
               /\ g[n] = TableMeta(m)
  BY <1>3, TableSteps DEF c
<1> HIDE DEF n
<1> DEFINE ends == [k \in 0..n |-> g[k].size]
<1>6. \A k \in 0..n : ends[k] = g[k].size
  OBVIOUS
<1> HIDE DEF ends
<1>7. ends[0] = 0
  BY <1>4, <1>5, <1>6 DEF NoTable
<1>8. ASSUME NEW k \in 1..n PROVE ends[k] = ends[k - 1] + c[k].size
  <2> DEFINE p == k - 1
  <2>1. k \in 0..n /\ p \in 0..n
    BY <1>4
  <2>2. ends[k] = g[k].size /\ ends[p] = g[p].size
    BY <1>6, <2>1
  <2>3. g[k] = CreateField(g[p], c[k])
    BY <1>5
  <2> HIDE DEF p
  <2>4. g[k].size = g[p].size + c[k].size
    BY <2>3 DEF CreateField
  <2> QED
    BY <2>2, <2>4 DEF p
<1> DEFINE Fine(k) == k <= n => ends[k] \in Nat /\ Made(g[k], c, ends, k)
           T == {k \in Nat : Fine(k)}
<1>9. 0 \in T
  <2>1. DOMAIN g[0].meta = {} /\ g[0].size = 0
    BY <1>5, EmptySeq DEF NoTable
  <2>2. Made(g[0], c, ends, 0)
    BY <1>7, <2>1 DEF Made
  <2> QED
    BY <1>7, <2>2
<1>10. ASSUME NEW k \in T PROVE k + 1 \in T
  <2>1. k \in Nat /\ Fine(k)
    OBVIOUS
  <2>2. SUFFICES ASSUME k + 1 <= n PROVE ends[k + 1] \in Nat /\ Made(g[k + 1], c, ends, k + 1)
    BY <2>1
  <2>3. k + 1 \in 1..n /\ (k + 1) - 1 = k /\ k <= n
    BY <1>4, <2>1, <2>2
  <2>4. /\ ends[k + 1] = ends[k] + c[k + 1].size
        /\ g[k + 1] = CreateField(g[k], c[k + 1])
    BY <1>5, <1>8, <2>3
  <2>5. c[k + 1].size \in Nat /\ ends[k] \in Nat /\ Made(g[k], c, ends, k)
    BY <1>3, <1>4, <2>1, <2>3
  <2>6. Made(g[k + 1], c, ends, k + 1)
    BY <2>1, <2>4, <2>5, MadeStep
  <2> QED
    BY <2>4, <2>5, <2>6
<1> HIDE DEF Fine
<1>11. \A k \in Nat : k \in T
  <2>1. T \in SUBSET Nat
    OBVIOUS
  <2> HIDE DEF T
  <2> QED
    BY <1>9, <1>10, <2>1, NatSet
<1>12. \A k \in 0..n : ends[k] \in Nat /\ Made(g[k], c, ends, k)
  BY <1>4, <1>11 DEF Fine
<1>13. Ends(ends, c, n)
  BY <1>3, <1>4, <1>7, <1>8, <1>12 DEF Ends
<1>14. Made(TableMeta(m), c, ends, n)
  BY <1>4, <1>5, <1>12
<1> QED
  BY <1>4, <1>13, <1>14 DEF c, n

LEMMA LegalIsTypeOK == Legal => TypeOK
<1> SUFFICES ASSUME Legal PROVE TypeOK
  OBVIOUS
<1>1. /\ fields \in [Messages -> Seq([name : ToSet(Names), type : Leaves \cup Messages,
                                     repeated : BOOLEAN, count : Seq(STRING),
                                     size : Seq(STRING)])]
      /\ home \in Homes
      /\ imports \subseteq DOMAIN Files \ {Main}
  BY DEF Legal, Typed, Field
<1>2. ASSUME NEW m \in Messages, GetsThrough(m), NEW x \in DOMAIN TableMeta(m).meta
      PROVE  /\ TableMeta(m).meta[x].size > 0
             /\ TableMeta(m).meta[x].offset + TableMeta(m).meta[x].size <= TableMeta(m).size
  <2> DEFINE c == Columns(m)
             n == Len(c)
             t == TableMeta(m)
  <2>1. /\ n \in Nat
        /\ \E ends : Ends(ends, c, n) /\ Made(t, c, ends, n)
    BY <1>2, TableIs
  <2>2. PICK ends : Ends(ends, c, n) /\ Made(t, c, ends, n)
    BY <2>1
  <2> HIDE DEF c, n, t
  <2>3. PICK i \in 1..n : t.meta[x] = Entry(c, ends, i)
    BY <1>2, <2>2 DEF Made, t
  <2>4. t.meta[x].size = c[i].size /\ t.meta[x].offset = ends[i - 1] /\ t.size = ends[n]
    BY <2>2, <2>3 DEF Made, Entry
  <2>5. c[i].size \in Nat \ {0} /\ ends[i] = ends[i - 1] + c[i].size
    BY <2>2 DEF Ends
  <2>6. ends[i - 1] \in Nat /\ ends[i] \in Nat /\ ends[i] <= ends[n]
    BY <2>1, <2>2, FirstByte
  <2>7. t.meta[x].size > 0 /\ t.meta[x].offset + t.meta[x].size <= t.size
    BY <2>4, <2>5, <2>6
  <2> QED
    BY <2>7 DEF t
<1> QED
  BY <1>1, <1>2 DEF TypeOK

\* However the messages are nested and repeated, every column lies inside the
\* record and has a positive size.
THEOREM LayoutTypeOK == Spec => []TypeOK
  BY MessagesAreLegal, LegalIsTypeOK, PTL

\* The columns that have a byte.
OwnersOf(table, b) == {x \in DOMAIN table.meta : /\ table.meta[x].offset <= b
                                                 /\ b < table.meta[x].offset + table.meta[x].size}

LEMMA GapsOf ==
  ASSUME Legal, NEW m \in Messages, GetsThrough(m)
  PROVE  NoClash(m) <=>
           \A b \in 0..(TableMeta(m).size - 1) :
             \E x \in DOMAIN TableMeta(m).meta : OwnersOf(TableMeta(m), b) = {x}
<1> DEFINE c == Columns(m)
           n == Len(c)
           t == TableMeta(m)
<1>1. /\ n \in Nat /\ DOMAIN c = 1..n
      /\ \E ends : Ends(ends, c, n) /\ Made(t, c, ends, n)
  BY TableIs
<1>2. PICK ends : Ends(ends, c, n) /\ Made(t, c, ends, n)
  BY <1>1
<1>3. NoClash(m) <=> \A i, j \in DOMAIN c : c[i].name = c[j].name => i = j
  BY DEF NoClash, ColumnNames, Columns, IsInjective
<1> HIDE DEF c, n, t
<1>4. NoClash(m) <=> \A i, j \in 1..n : c[i].name = c[j].name => i = j
  BY <1>1, <1>3
<1>5. t.size = ends[n] /\ ends[n] \in Nat
  <2>1. n \in 0..n
    BY <1>1
  <2> QED
    BY <1>2, <2>1 DEF Made, Ends
<1>6. ASSUME NEW x \in DOMAIN t.meta, NEW b \in Nat, x \in OwnersOf(t, b)
      PROVE  \E i \in 1..n : IsFirst(c, n, i, x) /\ Has(ends, i, b)
  <2>1. PICK i \in 1..n : IsFirst(c, n, i, x) /\ t.meta[x] = Entry(c, ends, i)
    BY <1>2 DEF Made
  <2>2. ends[i - 1] <= b /\ b < ends[i - 1] + c[i].size
    BY <1>6, <2>1 DEF OwnersOf, Entry
  <2>3. Has(ends, i, b)
    BY <1>2, <2>2 DEF Ends, Has
  <2> QED
    BY <2>1, <2>3
<1>7. ASSUME \A i, j \in 1..n : c[i].name = c[j].name => i = j,
             NEW b \in Nat, b < ends[n]
      PROVE  \E x \in DOMAIN t.meta : OwnersOf(t, b) = {x}
  <2>1. PICK k \in 1..n : Has(ends, k, b)
    BY <1>1, <1>2, <1>7, EveryByteHas
  <2> DEFINE x == c[k].name
  <2>2. x \in DOMAIN t.meta
    BY <1>2 DEF Made
  <2>3. PICK i \in 1..n : IsFirst(c, n, i, x) /\ t.meta[x] = Entry(c, ends, i)
    BY <1>2, <2>2 DEF Made
  <2>4. i = k
    BY <1>7, <2>3 DEF IsFirst
  <2>5. x \in OwnersOf(t, b)
    <3>1. ends[k] = ends[k - 1] + c[k].size
      BY <1>2 DEF Ends
    <3> QED
      BY <2>1, <2>2, <2>3, <2>4, <3>1 DEF OwnersOf, Entry, Has
  <2>6. ASSUME NEW y \in OwnersOf(t, b) PROVE y = x
    <3>1. y \in DOMAIN t.meta
      BY DEF OwnersOf
    <3>2. PICK j \in 1..n : IsFirst(c, n, j, y) /\ Has(ends, j, b)
      BY <1>6, <3>1
    <3>3. j = k
      BY <1>1, <1>2, <2>1, <3>2, OneHas
    <3> QED
      BY <3>2, <3>3 DEF IsFirst
  <2> QED
    BY <2>2, <2>5, <2>6
<1>8. ASSUME NEW p \in 1..n, NEW q \in 1..n, c[p].name = c[q].name, p < q
      PROVE  \E b \in Nat : b < ends[n] /\ ~\E x \in DOMAIN t.meta : OwnersOf(t, b) = {x}
  <2> DEFINE b == ends[q - 1]
  <2>1. b \in Nat /\ Has(ends, q, b) /\ b < ends[n]
    BY <1>1, <1>2, FirstByte
  <2> HIDE DEF b
  <2>2. ASSUME NEW x \in DOMAIN t.meta, OwnersOf(t, b) = {x} PROVE FALSE
    <3>1. PICK i \in 1..n : IsFirst(c, n, i, x) /\ Has(ends, i, b)
      BY <1>6, <2>1, <2>2
    <3>2. i = q
      BY <1>1, <1>2, <2>1, <3>1, OneHas
    <3>3. q <= p
      BY <1>8, <3>1, <3>2 DEF IsFirst
    <3> QED
      BY <1>1, <1>8, <3>3
  <2> QED
    BY <2>1, <2>2
<1>9. \A b : b \in 0..(t.size - 1) <=> b \in Nat /\ b < ends[n]
  BY <1>5
<1>10. (\A i, j \in 1..n : c[i].name = c[j].name => i = j) <=>
         \A b \in 0..(t.size - 1) : \E x \in DOMAIN t.meta : OwnersOf(t, b) = {x}
  <2>1. ASSUME NEW i \in 1..n, NEW j \in 1..n, c[i].name = c[j].name, i # j
        PROVE  \E b \in Nat : b < ends[n] /\ ~\E x \in DOMAIN t.meta : OwnersOf(t, b) = {x}
    <3>1. i < j \/ j < i
      BY <2>1
    <3> QED
      BY <1>8, <2>1, <3>1
  <2> QED
    BY <1>7, <1>9, <2>1
<1> QED
  BY <1>4, <1>10 DEF t

\* Every byte of a record has one column unless two columns have one name, and
\* then there is a byte no column ever writes.
THEOREM GapsAreClashesAlways == Spec => []GapsAreClashes
<1>1. Legal => GapsAreClashes
  BY GapsOf DEF GapsAreClashes, OwnersOf
<1> QED
  BY <1>1, MessagesAreLegal, PTL

-----------------------------------------------------------------------------
(* The look-up of enum values.                                             *)

\* A name of one part is the value itself, whatever its enum.
LEMMA FindValue ==
  ASSUME NEW file, NEW rest, Len(rest) = 1
  PROVE  LET top == Files[file].scopes[<<>>]
         IN  \A x : x \in FindEnumInFile(file, rest) <=>
                      \E e \in DOMAIN top : rest[1] \in DOMAIN top[e] /\ x = top[e][rest[1]]
  BY DEF FindEnumInFile, Last

\* One of two parts is the enum and the value.
LEMMA FindInEnum ==
  ASSUME NEW file, NEW rest \in Seq(STRING), Len(rest) = 2
  PROVE  LET top == Files[file].scopes[<<>>]
         IN  \A x \in FindEnumInFile(file, rest) :
               /\ rest[1] \in DOMAIN top
               /\ rest[2] \in DOMAIN top[rest[1]]
               /\ x = top[rest[1]][rest[2]]
<1>1. Len(rest) - 2 = 0 /\ Len(rest) - 1 = 1 /\ Len(rest) > 1 /\ ~(Len(rest) = 1)
  OBVIOUS
<1>2. SubSeq(rest, 1, 0) = <<>>
  BY EmptySeq, SubSeqEmpty
<1> QED
  BY <1>1, <1>2 DEF FindEnumInFile, Last

\* A longer one begins with a message.
LEMMA FindInMessage ==
  ASSUME NEW file, NEW rest \in Seq(STRING), Len(rest) >= 3, FindEnumInFile(file, rest) # {}
  PROVE  \E s \in DOMAIN Files[file].scopes : s # <<>> /\ s[1] = Head(rest)
<1> DEFINE l == Len(rest)
           n == l - 2
<1>1. l \in Nat /\ l >= 3 /\ DOMAIN rest = 1..l
  OBVIOUS
<1>2. n \in Nat /\ 1 <= n /\ n <= l /\ l > 1 /\ l # 1
  <2> HIDE DEF l
  <2> QED
    BY <1>1
<1> DEFINE s == SubSeq(rest, 1, n)
<1>3. s \in DOMAIN Files[file].scopes
  BY <1>2 DEF FindEnumInFile
<1>4. \A i \in 1..n : rest[i] \in STRING
  <2> HIDE DEF n, l
  <2>1. \A i \in 1..n : i \in 1..l
    BY <1>1, <1>2
  <2> QED
    BY <1>1, <2>1
<1>5. s \in Seq(STRING) /\ Len(s) = n /\ s[1] = rest[1]
  <2> HIDE DEF n
  <2>1. 1 \in Int /\ n \in Int /\ n - 1 + 1 = n /\ 1 \in 1..n
    BY <1>2
  <2>2. /\ s \in Seq(STRING) /\ Len(s) = n - 1 + 1
        /\ \A i \in 1..(n - 1 + 1) : s[i] = rest[1 + i - 1]
    BY <1>2, <1>4, <2>1, SubSeqProperties
  <2>3. s[1] = rest[1 + 1 - 1]
    BY <2>1, <2>2
  <2> QED
    BY <2>1, <2>2, <2>3
<1> HIDE DEF n, s
<1>6. s # <<>>
  BY <1>2, <1>5, EmptySeq
<1>7. Head(rest) = rest[1]
  BY <1>1
<1> QED
  BY <1>3, <1>5, <1>6, <1>7

\* What the C++ compiler may mean by a name.
CppEnums(g, rest) == IF Len(rest) \in 1..2 THEN FindEnumInFile(g, rest) ELSE {}

Hidden(file, name) == \E s \in DOMAIN Files[file].scopes : s # <<>> /\ s[1] = Head(name)

CppFound(file, name) ==
  CppEnums(file, name) \cup
    UNION {CppEnums(g, Tail(name)) :
             g \in {g \in Visible(file) : Files[g].package = Head(name) /\ ~Hidden(file, name)}}

LEMMA LookupOf ==
  ASSUME Legal, NEW file \in DOMAIN Files, NEW name \in Seq(STRING),
         GetEnumValue(file, name) # 0, CppValue(file, name) # 0
  PROVE  GetEnumValue(file, name) = CppValue(file, name)
<1> DEFINE dep  == InDependency(file, name)
           this == InThisFile(file, name)
           g    == GetEnumValue(file, name)
           c    == CppValue(file, name)
           rest == Tail(name)
<1>1. name # <<>> /\ ~(dep # {} /\ this # {}) /\ g = TheOnly(dep \cup this)
  BY DEF GetEnumValue, NoOption
<1>2. c = TheOnly(CppFound(file, name))
  BY <1>1 DEF CppValue, CppFound, CppEnums, Hidden, NoOption
<1>3. dep \cup this = {g} /\ CppFound(file, name) = {c}
  BY <1>1, <1>2, OnlyOne
<1>4. /\ Len(name) \in Nat /\ Len(name) >= 1 /\ Head(name) = name[1]
      /\ rest \in Seq(STRING) /\ Len(rest) = Len(name) - 1
      /\ Len(name) >= 2 => rest[1] = name[2]
  BY <1>1, EmptySeq, HeadTailProperties
<1>5. Dependencies(file) \subseteq DOMAIN Files /\ file \notin Dependencies(file)
  BY DEF Dependencies, Legal, Typed
<1>6. ASSUME NEW x \in Visible(file), Files[x].package = Head(name),
             Files[file].package # Head(name)
      PROVE  x \in Dependencies(file)
  BY <1>6 DEF Visible
<1> HIDE DEF g, c
<1>7. CASE Files[file].package = Head(name)
  <2>1. dep = {}
    <3>1. \A x \in Dependencies(file) : Files[x].package # Head(name)
      BY <1>5, <1>7, LayoutAssumption DEF LayoutAssumption
    <3> QED
      BY <3>1 DEF InDependency
  <2>2. this = FindEnumInFile(file, name)
    BY <1>7 DEF InThisFile
  <2>3. CASE Len(name) \in 1..2
    BY <1>3, <2>1, <2>2, <2>3 DEF CppFound, CppEnums, g, c
  <2>4. CASE Len(name) >= 3
    <3>1. Hidden(file, name)
      BY <1>3, <2>1, <2>2, <2>4, FindInMessage DEF Hidden
    <3>2. ~(Len(name) \in 1..2)
      BY <2>4
    <3>3. CppFound(file, name) = {}
      BY <3>1, <3>2 DEF CppFound, CppEnums
    <3> QED
      BY <1>3, <3>3
  <2> QED
    BY <1>4, <2>3, <2>4
<1>8. CASE Files[file].package # Head(name)
  <2>1. this = FindEnumInFile(file, rest)
    BY <1>8 DEF InThisFile
  <2>2. \A x \in CppFound(file, name) : x \in CppEnums(file, name) \/ x \in dep
    BY <1>6, <1>8 DEF CppFound, CppEnums, InDependency
  <2>3. CASE c \in dep
    BY <1>3, <2>3 DEF g, c
  <2>4. CASE c \notin dep
    <3>1. c \in FindEnumInFile(file, name) /\ Len(name) \in 1..2
      BY <1>3, <2>2, <2>4 DEF CppEnums
    <3>2. CASE Len(name) = 1
      <4>1. Len(rest) = 0
        BY <1>4, <3>2
      <4>2. \A x : FindEnumInFile(x, rest) = {}
        BY <4>1 DEF FindEnumInFile
      <4>3. dep = {} /\ this = {}
        BY <2>1, <4>2 DEF InDependency
      <4> QED
        BY <1>3, <4>3
    <3>3. CASE Len(name) = 2
      <4> DEFINE top == Files[file].scopes[<<>>]
      <4>1. /\ name[1] \in DOMAIN top /\ name[2] \in DOMAIN top[name[1]]
            /\ c = top[name[1]][name[2]]
        BY <3>1, <3>3, FindInEnum
      <4>2. Len(rest) = 1 /\ rest[1] = name[2]
        <5> HIDE DEF rest
        <5> QED
          BY <1>4, <3>3
      <4>3. c \in FindEnumInFile(file, rest)
        BY <4>1, <4>2, FindValue
      <4> QED
        BY <1>3, <2>1, <4>3 DEF g, c
    <3> QED
      BY <3>1, <3>2, <3>3
  <2> QED
    BY <2>3, <2>4
<1> QED
  BY <1>7, <1>8

\* Whatever is imported, a length or count the converter accepts is the number
\* the C++ compiler gives the same text.
THEOREM LookupAgreesAlways == Spec => []LookupAgrees
<1>1. ASSUME Legal PROVE LookupAgrees
  <2>1. ASSUME NEW shape \in Shapes
        PROVE  shape.count \in Seq(STRING) /\ shape.size \in Seq(STRING)
    BY LayoutAssumption DEF LayoutAssumption
  <2> QED
    BY <1>1, <2>1, LookupOf DEF LookupAgrees
<1> QED
  BY <1>1, MessagesAreLegal, PTL

-----------------------------------------------------------------------------
(* The size of a sequence of columns or members.                           *)

AddSize(total, leaf) == total + leaf.size

Sizes == INSTANCE Recursion WITH Step <- AddSize

Sized(s) == IsSeq(s) /\ \A i \in DOMAIN s : s[i].size \in Nat

\* h[k] is the size of the first k.
Sums(h, s) == h[0] = 0 /\ \A k \in 1..Len(s) : h[k] = h[k - 1] + s[k].size

LEMMA SizeSteps ==
  ASSUME NEW s, IsSeq(s)
  PROVE  \E h : Sums(h, s) /\ h[Len(s)] = SizeOf(s)
<1>1. \A base, seq : FoldLeft(AddSize, base, seq) = Sizes!Fold(base, seq)
  BY DEF FoldLeft, MapThenFoldSet, Max, Sizes!Fold, Sizes!FoldOf, Sizes!Max
<1>2. SizeOf(s) = FoldLeft(AddSize, 0, s)
  BY DEF SizeOf, AddSize
<1>3. SizeOf(s) = Sizes!Fold(0, s)
  BY <1>1, <1>2
<1>4. PICK E : s \in Seq(E)
  BY DEF IsSeq
<1>5. \E h : /\ h[0] = 0
             /\ \A k \in 1..Len(s) : h[k] = AddSize(h[k - 1], s[k])
             /\ h[Len(s)] = Sizes!Fold(0, s)
  BY <1>4, NatSet, Sizes!FoldLeftIs DEF Sizes!Induction
<1> QED
  BY <1>3, <1>5 DEF Sums, AddSize

\* The sum of the first k numbers, for a sequence of sizes.
LEMMA SumsAdd ==
  ASSUME NEW s, Sized(s), NEW h
  PROVE  LET w == [k \in 1..Len(s) |-> s[k].size]
         IN  /\ Sums(h, s) <=> Adds(h, w, Len(s))
             /\ \A k \in 1..Len(s) : w[k] \in Nat
             /\ Len(s) \in Nat
<1> DEFINE n == Len(s)
           w == [k \in 1..n |-> s[k].size]
<1>1. n \in Nat /\ DOMAIN s = 1..n
  BY SeqIsTuple DEF Sized
<1>2. \A k \in 1..n : w[k] = s[k].size /\ s[k].size \in Nat
  BY <1>1 DEF Sized
<1> QED
  BY <1>1, <1>2 DEF Sums, Adds

LEMMA SizeIs ==
  ASSUME NEW s, Sized(s), NEW h, Sums(h, s)
  PROVE  /\ SizeOf(s) = h[Len(s)] /\ SizeOf(s) \in Nat
         /\ \A k \in 0..Len(s) : h[k] \in Nat
<1> DEFINE n == Len(s)
           w == [k \in 1..n |-> s[k].size]
<1>1. PICK g : Sums(g, s) /\ g[n] = SizeOf(s)
  BY SizeSteps DEF Sized
<1>2. n \in Nat /\ \A k \in 1..n : w[k] \in Nat
  BY SumsAdd
<1>3. Adds(g, w, n) /\ Adds(h, w, n)
  BY <1>1, SumsAdd
<1> HIDE DEF n, w
<1>4. \A k \in 0..n : g[k] = h[k]
  BY <1>2, <1>3, AddsSame
<1>5. \A k \in 0..n : h[k] \in Nat
  BY <1>2, <1>3, AddsNat
<1>6. n \in 0..n
  BY <1>2
<1> QED
  BY <1>1, <1>4, <1>5, <1>6 DEF n

LEMMA ConcatIs ==
  ASSUME NEW s, IsSeq(s), NEW t, IsSeq(t)
  PROVE  /\ IsSeq(s \o t) /\ Len(s \o t) = Len(s) + Len(t)
         /\ \A i \in 1..Len(s) : (s \o t)[i] = s[i]
         /\ \A i \in 1..Len(t) : (s \o t)[Len(s) + i] = t[i]
<1>1. PICK D : s \in Seq(D)
  BY DEF IsSeq
<1>2. PICK E : t \in Seq(E)
  BY DEF IsSeq
<1> DEFINE U == D \cup E
<1>3. s \in Seq(U) /\ t \in Seq(U)
  <2>1. /\ Len(s) \in Nat /\ s = [i \in 1..Len(s) |-> s[i]] /\ \A i \in 1..Len(s) : s[i] \in U
        /\ Len(t) \in Nat /\ t = [i \in 1..Len(t) |-> t[i]] /\ \A i \in 1..Len(t) : t[i] \in U
    BY <1>1, <1>2
  <2> HIDE DEF U
  <2>2. ASSUME NEW n \in Nat, NEW h, h = [i \in 1..n |-> h[i]], \A i \in 1..n : h[i] \in U
        PROVE  h \in Seq(U)
    BY <2>2
  <2> QED
    BY <2>1, <2>2
<1> HIDE DEF U
<1>4. /\ s \o t \in Seq(U) /\ Len(s \o t) = Len(s) + Len(t)
      /\ Len(s) \in Nat /\ Len(t) \in Nat
      /\ \A i \in 1..(Len(s) + Len(t)) :
           (s \o t)[i] = IF i <= Len(s) THEN s[i] ELSE t[i - Len(s)]
  BY <1>3, ConcatProperties
<1> QED
  BY <1>4 DEF IsSeq

LEMMA SizeConcat ==
  ASSUME NEW s, Sized(s), NEW t, Sized(t)
  PROVE  Sized(s \o t) /\ SizeOf(s \o t) = SizeOf(s) + SizeOf(t)
<1> DEFINE m == Len(s)
           n == Len(t)
           u == s \o t
<1>1. /\ m \in Nat /\ n \in Nat /\ Len(u) = m + n /\ IsSeq(u)
      /\ \A i \in 1..m : u[i] = s[i] /\ s[i].size \in Nat
      /\ \A i \in 1..n : u[m + i] = t[i] /\ t[i].size \in Nat
  <2>1. IsSeq(s) /\ IsSeq(t)
    BY DEF Sized
  <2>2. m \in Nat /\ n \in Nat /\ DOMAIN s = 1..m /\ DOMAIN t = 1..n
    BY <2>1, SeqIsTuple
  <2>3. /\ Len(s \o t) = Len(s) + Len(t) /\ IsSeq(s \o t)
        /\ \A i \in 1..Len(s) : (s \o t)[i] = s[i]
        /\ \A i \in 1..Len(t) : (s \o t)[Len(s) + i] = t[i]
    BY <2>1, ConcatIs
  <2> HIDE DEF u
  <2> QED
    BY <2>2, <2>3 DEF Sized, u
<1> HIDE DEF u
<1>2. PICK g : Sums(g, s) /\ g[m] = SizeOf(s)
  BY SizeSteps DEF Sized
<1>3. PICK h : Sums(h, t) /\ h[n] = SizeOf(t)
  BY SizeSteps DEF Sized
<1>4. (\A k \in 0..m : g[k] \in Nat) /\ (\A k \in 0..n : h[k] \in Nat)
  BY <1>2, <1>3, SizeIs
<1>5. /\ g[0] = 0 /\ \A k \in 1..m : g[k] = g[k - 1] + s[k].size
      /\ h[0] = 0 /\ \A k \in 1..n : h[k] = h[k - 1] + t[k].size
  BY <1>2, <1>3 DEF Sums
<1> HIDE DEF m, n
<1> DEFINE f == [k \in 0..(m + n) |-> IF k <= m THEN g[k] ELSE g[m] + h[k - m]]
<1>6. \A k \in 0..(m + n) : f[k] = IF k <= m THEN g[k] ELSE g[m] + h[k - m]
  OBVIOUS
<1> HIDE DEF f
<1>7. ASSUME NEW k \in 1..(m + n) PROVE f[k] = f[k - 1] + u[k].size /\ u[k].size \in Nat
  <2>1. k \in 0..(m + n) /\ k - 1 \in 0..(m + n)
    BY <1>1
  <2>2. CASE k <= m
    <3>1. k \in 1..m
      BY <1>1, <2>2
    <3>2. u[k].size = s[k].size /\ s[k].size \in Nat /\ g[k] = g[k - 1] + s[k].size
      BY <1>1, <1>5, <3>1
    <3>3. f[k] = g[k] /\ f[k - 1] = g[k - 1]
      <4>1. k - 1 <= m
        BY <1>1, <3>1
      <4> QED
        BY <1>6, <2>1, <2>2, <4>1
    <3> QED
      BY <3>2, <3>3
  <2>3. CASE ~(k <= m)
    <3> DEFINE j == k - m
    <3>1. j \in 1..n /\ m + j = k /\ j - 1 = (k - 1) - m /\ j \in 0..n /\ j - 1 \in 0..n /\ m \in 0..m
      BY <1>1, <2>3
    <3> HIDE DEF j
    <3>2. f[k] = g[m] + h[j]
      BY <1>6, <2>1, <2>3, <3>1 DEF j
    <3>3. u[k].size = t[j].size /\ h[j] = h[j - 1] + t[j].size /\ t[j].size \in Nat
      BY <1>1, <1>5, <3>1
    <3>4. f[k - 1] = g[m] + h[j - 1]
      <4>1. CASE k - 1 <= m
        <5>1. k - 1 = m /\ j - 1 = 0
          BY <1>1, <2>3, <3>1, <4>1
        <5>2. f[k - 1] = g[m] /\ g[m] \in Nat
          BY <1>1, <1>4, <1>6, <2>1, <5>1
        <5> QED
          BY <1>5, <5>1, <5>2
      <4>2. CASE ~(k - 1 <= m)
        BY <1>6, <2>1, <3>1, <4>2
      <4> QED
        BY <4>1, <4>2
    <3> QED
      BY <1>4, <3>1, <3>2, <3>3, <3>4
  <2> QED
    BY <2>2, <2>3
<1>8. Sized(u)
  <2>1. DOMAIN u = 1..(m + n)
    BY <1>1, SeqIsTuple
  <2> QED
    BY <1>1, <1>7, <2>1 DEF Sized
<1>9. Sums(f, u)
  <2>1. f[0] = 0
    BY <1>1, <1>5, <1>6
  <2> QED
    BY <1>1, <1>7, <2>1 DEF Sums
<1>10. SizeOf(u) = f[m + n]
  BY <1>1, <1>8, <1>9, SizeIs
<1>11. f[m + n] = g[m] + h[n]
  <2>1. CASE n = 0
    <3>1. f[m + n] = g[m] /\ g[m] \in Nat
      BY <1>1, <1>4, <1>6, <2>1
    <3> QED
      BY <1>5, <2>1, <3>1
  <2>2. CASE n # 0
    <3>1. m + n \in 0..(m + n) /\ ~(m + n <= m) /\ (m + n) - m = n
      BY <1>1, <2>2
    <3> QED
      BY <1>6, <3>1
  <2> QED
    BY <2>1, <2>2
<1> QED
  BY <1>2, <1>3, <1>8, <1>10, <1>11 DEF u

\* A sequence of sized sequences.
Parts(seqs) == IsSeq(seqs) /\ \A i \in DOMAIN seqs : Sized(seqs[i])

\* FlattenSeq goes through them: g[k] is the first k in a row.
InRow(g, seqs) ==
  /\ g[0] = <<>> /\ g[Len(seqs)] = FlattenSeq(seqs)
  /\ \A k \in 0..Len(seqs) : Sized(g[k])
  /\ \A k \in 1..Len(seqs) : g[k] = g[k - 1] \o seqs[k]
  /\ SizeOf(g[0]) = 0
  /\ \A k \in 1..Len(seqs) : SizeOf(g[k]) = SizeOf(g[k - 1]) + SizeOf(seqs[k])

LEMMA FlattenSizes ==
  ASSUME NEW seqs, Parts(seqs)
  PROVE  \E g : InRow(g, seqs)
<1> DEFINE n == Len(seqs)
           E == UNION {ToSet(seqs[i]) : i \in DOMAIN seqs}
<1>1. n \in Nat /\ DOMAIN seqs = 1..n
  BY SeqIsTuple DEF Parts
<1>2. \A i \in 1..n : seqs[i] \in Seq(E) /\ Sized(seqs[i])
  <2> SUFFICES ASSUME NEW i \in 1..n PROVE seqs[i] \in Seq(E) /\ Sized(seqs[i])
    OBVIOUS
  <2>1. i \in DOMAIN seqs /\ Sized(seqs[i])
    BY <1>1 DEF Parts
  <2>2. PICK D : seqs[i] \in Seq(D)
    BY <2>1 DEF Sized, IsSeq
  <2>3. \A j \in DOMAIN seqs[i] : seqs[i][j] \in E
    BY <2>1 DEF ToSet
  <2> HIDE DEF E
  <2> QED
    BY <2>1, <2>2, <2>3
<1> HIDE DEF E
<1>3. seqs \in Seq(Seq(E))
  BY <1>1, <1>2 DEF IsSeq, Parts
<1>4. PICK g : /\ g[0] = <<>>
               /\ \A k \in 1..Len(seqs) : g[k] = g[k - 1] \o seqs[k]
               /\ g[Len(seqs)] = FlattenSeq(seqs)
  BY <1>3, FlattenSteps
<1> HIDE DEF n
<1> DEFINE T == {k \in Nat : k <= n => Sized(g[k])}
<1>5. g[0] = <<>> /\ \A k \in 1..n : g[k] = g[k - 1] \o seqs[k]
  BY <1>4 DEF n
<1>6. Sized(g[0]) /\ SizeOf(g[0]) = 0
  <2> DEFINE e == <<>>
             z == [k \in {0} |-> 0]
  <2>1. IsTuple(e, 0) /\ Len(e) = 0
    BY DEF IsTuple
  <2>2. IsSeq(e) /\ DOMAIN e = {}
    BY <2>1, TupleIsSeq
  <2> HIDE DEF e
  <2>3. Sized(e)
    BY <2>2 DEF Sized
  <2>4. Sums(z, e) /\ z[0] = 0
    BY <2>1 DEF Sums
  <2> HIDE DEF z
  <2>5. SizeOf(e) = 0
    BY <2>1, <2>3, <2>4, SizeIs
  <2> QED
    BY <1>5, <2>3, <2>5 DEF e
<1>7. 0 \in T
  BY <1>6
<1>8. ASSUME NEW k \in 1..n, Sized(g[k - 1])
      PROVE  Sized(g[k]) /\ SizeOf(g[k]) = SizeOf(g[k - 1]) + SizeOf(seqs[k])
  <2> DEFINE a == g[k - 1]
             b == seqs[k]
  <2>1. g[k] = a \o b
    BY <1>5
  <2>2. Sized(a)
    BY <1>8
  <2>3. Sized(b)
    BY <1>2
  <2> HIDE DEF a, b
  <2>4. Sized(a \o b) /\ SizeOf(a \o b) = SizeOf(a) + SizeOf(b)
    BY <2>2, <2>3, SizeConcat
  <2> QED
    BY <2>1, <2>4 DEF a, b
<1>9. ASSUME NEW k \in T PROVE k + 1 \in T
  <2>1. k \in Nat /\ (k <= n => Sized(g[k]))
    OBVIOUS
  <2>2. SUFFICES ASSUME k + 1 <= n PROVE Sized(g[k + 1])
    BY <2>1
  <2>3. k + 1 \in 1..n /\ (k + 1) - 1 = k /\ k <= n
    BY <1>1, <2>1, <2>2
  <2> QED
    BY <1>8, <2>1, <2>3
<1>10. \A k \in Nat : k \in T
  <2>1. T \in SUBSET Nat
    OBVIOUS
  <2> HIDE DEF T
  <2> QED
    BY <1>7, <1>9, <2>1, NatSet
<1>11. \A k \in 0..n : Sized(g[k])
  BY <1>1, <1>10
<1>12. g[n] = FlattenSeq(seqs)
  BY <1>4 DEF n
<1>13. \A k \in 1..n : SizeOf(g[k]) = SizeOf(g[k - 1]) + SizeOf(seqs[k])
  <2> SUFFICES ASSUME NEW k \in 1..n PROVE SizeOf(g[k]) = SizeOf(g[k - 1]) + SizeOf(seqs[k])
    OBVIOUS
  <2>1. k - 1 \in 0..n
    BY <1>1
  <2> QED
    BY <1>8, <1>11, <2>1
<1> QED
  BY <1>5, <1>6, <1>11, <1>12, <1>13 DEF InRow, n

LEMMA SizeFlatten ==
  ASSUME NEW seqs, Parts(seqs)
  PROVE  /\ Sized(FlattenSeq(seqs))
         /\ \E h : /\ h[0] = 0
                   /\ \A k \in 1..Len(seqs) : h[k] = h[k - 1] + SizeOf(seqs[k])
                   /\ h[Len(seqs)] = SizeOf(FlattenSeq(seqs))
<1> DEFINE n == Len(seqs)
<1>1. n \in Nat
  BY SeqIsTuple DEF Parts
<1>2. PICK g : InRow(g, seqs)
  BY FlattenSizes
<1> DEFINE h == [k \in 0..n |-> SizeOf(g[k])]
<1>3. \A k \in 0..n : h[k] = SizeOf(g[k])
  OBVIOUS
<1> HIDE DEF h, n
<1>4. /\ g[n] = FlattenSeq(seqs) /\ SizeOf(g[0]) = 0 /\ Sized(g[n])
      /\ \A k \in 1..n : SizeOf(g[k]) = SizeOf(g[k - 1]) + SizeOf(seqs[k])
  BY <1>1, <1>2 DEF InRow, n
<1>5. \A k \in 1..n : h[k] = h[k - 1] + SizeOf(seqs[k])
  <2> SUFFICES ASSUME NEW k \in 1..n PROVE h[k] = h[k - 1] + SizeOf(seqs[k])
    OBVIOUS
  <2>1. k \in 0..n /\ k - 1 \in 0..n
    BY <1>1
  <2> QED
    BY <1>3, <1>4, <2>1
<1>6. h[0] = 0 /\ h[n] = SizeOf(FlattenSeq(seqs)) /\ Sized(FlattenSeq(seqs))
  BY <1>1, <1>3, <1>4
<1> QED
  BY <1>5, <1>6 DEF n

\* p goes through the places of a sequence of n.
Permutes(p, n) ==
  /\ p \in [1..n -> 1..n]
  /\ \A i, j \in 1..n : p[i] = p[j] => i = j
  /\ \A i \in 1..n : \E k \in 1..n : p[k] = i

\* The size of all is that of the same parts in another order.
LEMMA SizePermuted ==
  ASSUME NEW a, Parts(a), NEW b, Parts(b), Len(a) = Len(b), NEW p, Permutes(p, Len(a)),
         \A k \in 1..Len(a) : SizeOf(b[k]) = SizeOf(a[p[k]])
  PROVE  SizeOf(FlattenSeq(a)) = SizeOf(FlattenSeq(b))
<1> DEFINE n == Len(a)
           v == [k \in 1..n |-> SizeOf(b[k])]
           w == [k \in 1..n |-> SizeOf(a[k])]
<1>1. n \in Nat /\ DOMAIN a = 1..n /\ Len(b) = n
  BY SeqIsTuple DEF Parts
<1>2. PICK g : /\ g[0] = 0
               /\ \A k \in 1..n : g[k] = g[k - 1] + SizeOf(a[k])
               /\ g[n] = SizeOf(FlattenSeq(a))
  BY SizeFlatten
<1>3. PICK h : /\ h[0] = 0
               /\ \A k \in 1..n : h[k] = h[k - 1] + SizeOf(b[k])
               /\ h[n] = SizeOf(FlattenSeq(b))
  BY <1>1, SizeFlatten
<1>4. \A k \in 1..n : w[k] = SizeOf(a[k]) /\ v[k] = SizeOf(b[k]) /\ SizeOf(b[k]) = SizeOf(a[p[k]])
  OBVIOUS
<1>5. ASSUME NEW k \in 1..n PROVE SizeOf(a[k]) \in Nat
  <2>1. Sized(a[k])
    BY <1>1 DEF Parts
  <2>2. PICK f : Sums(f, a[k])
    BY <2>1, SizeSteps DEF Sized
  <2> QED
    BY <2>1, <2>2, SizeIs
<1>6. Permutes(p, n)
  OBVIOUS
<1> HIDE DEF n, v, w
<1>7. Adds(g, w, n) /\ Adds(h, v, n)
  BY <1>2, <1>3, <1>4 DEF Adds
<1>8. Once(p, n) /\ Along(v, w, p, n)
  <2>1. p \in [1..n -> 1..n] /\ \A i, j \in 1..n : p[i] = p[j] => i = j
    BY <1>6 DEF Permutes
  <2>2. \A k \in 1..n : p[k] \in 1..n
    BY <2>1
  <2>3. \A k \in 1..n : v[k] = w[p[k]]
    BY <1>4, <2>2
  <2> QED
    BY <2>1, <2>3 DEF Once, Along
<1>9. \A k \in 1..n : w[k] \in Nat
  BY <1>4, <1>5
<1>10. \A i \in 1..n : \E k \in 1..n : p[k] = i
  BY <1>6 DEF Permutes
<1>11. g[n] = h[n]
  <2>1. n \in Nat
    BY <1>1
  <2>2. Once(p, n)
    BY <1>8
  <2>3. Along(v, w, p, n)
    BY <1>8
  <2>4. Adds(g, w, n)
    BY <1>7
  <2>5. Adds(h, v, n)
    BY <1>7
  <2> QED
    BY ONLY <2>1, <2>2, <2>3, <2>4, <2>5, <1>9, <1>10, AddsPermuted, Z3
<1> QED
  BY <1>2, <1>3, <1>11 DEF n

LEMMA SizeSame ==
  ASSUME NEW a, Parts(a), NEW b, Parts(b), Len(a) = Len(b),
         \A k \in 1..Len(a) : SizeOf(b[k]) = SizeOf(a[k])
  PROVE  SizeOf(FlattenSeq(a)) = SizeOf(FlattenSeq(b))
<1> DEFINE p == [k \in 1..Len(a) |-> k]
<1>1. Permutes(p, Len(a)) /\ \A k \in 1..Len(a) : p[k] = k
  BY DEF Permutes
<1> HIDE DEF p
<1> QED
  BY <1>1, SizePermuted

-----------------------------------------------------------------------------
(* Copies of a field.                                                      *)

\* A name in front of it changes no size.
Keeps(c) == \A x : Under(x, c).size = c.size

LEMMA SpreadRows ==
  ASSUME NEW copies, IsSeq(copies), NEW inner, Sized(inner), \A j \in DOMAIN inner : Keeps(inner[j])
  PROVE  \E rows : /\ Parts(rows) /\ Len(rows) = Len(copies)
                   /\ Spread(copies, inner) = FlattenSeq(rows)
                   /\ \A i \in 1..Len(copies) :
                        /\ SizeOf(rows[i]) = SizeOf(inner) /\ DOMAIN rows[i] = DOMAIN inner
                        /\ \A j \in DOMAIN inner : rows[i][j] = Under(copies[i], inner[j])
<1> DEFINE Cell(i, j) == Under(copies[i], inner[j])
           Row(i)     == [j \in DOMAIN inner |-> Cell(i, j)]
           rows       == [i \in DOMAIN copies |-> Row(i)]
<1>1. Spread(copies, inner) = FlattenSeq(rows)
  BY DEF Spread, Under
<1>2. \A i, j : j \in DOMAIN inner => /\ Cell(i, j).size = inner[j].size
                                      /\ Cell(i, j) = Under(copies[i], inner[j])
  BY DEF Keeps
<1> HIDE DEF Cell
<1>3. ASSUME NEW i \in DOMAIN copies
      PROVE  /\ Sized(Row(i)) /\ SizeOf(Row(i)) = SizeOf(inner) /\ DOMAIN Row(i) = DOMAIN inner
             /\ \A j \in DOMAIN inner : Row(i)[j] = Under(copies[i], inner[j])
  <2>1. Mapped(Row(i), inner) /\ \A j \in DOMAIN inner : Row(i)[j] = Cell(i, j)
    BY DEF Mapped
  <2> HIDE DEF Row
  <2>2. IsSeq(Row(i)) /\ DOMAIN Row(i) = DOMAIN inner /\ Len(Row(i)) = Len(inner)
    BY <2>1, MappedIsSeq DEF Sized
  <2>3. \A j \in DOMAIN inner : Row(i)[j].size = inner[j].size
    BY <1>2, <2>1
  <2>4. Sized(Row(i))
    BY <2>2, <2>3 DEF Sized
  <2>5. PICK h : Sums(h, inner) /\ h[Len(inner)] = SizeOf(inner)
    BY SizeSteps DEF Sized
  <2>6. \A j \in 1..Len(inner) : Row(i)[j].size = inner[j].size
    BY <2>3, SeqIsTuple DEF Sized
  <2>7. Sums(h, Row(i))
    BY <2>2, <2>5, <2>6 DEF Sums
  <2> QED
    BY <1>2, <2>1, <2>2, <2>4, <2>5, <2>7, SizeIs
<1> HIDE DEF Row
<1>4. Mapped(rows, copies) /\ \A i \in DOMAIN copies : rows[i] = Row(i)
  BY DEF Mapped
<1> HIDE DEF rows
<1>5. IsSeq(rows) /\ DOMAIN rows = DOMAIN copies /\ Len(rows) = Len(copies)
  BY <1>4, MappedIsSeq
<1>6. DOMAIN copies = 1..Len(copies)
  BY SeqIsTuple
<1>7. /\ Parts(rows)
      /\ \A i \in 1..Len(copies) :
           /\ SizeOf(rows[i]) = SizeOf(inner) /\ DOMAIN rows[i] = DOMAIN inner
           /\ \A j \in DOMAIN inner : rows[i][j] = Under(copies[i], inner[j])
  BY <1>3, <1>4, <1>5, <1>6 DEF Parts
<1> QED
  BY <1>1, <1>5, <1>7

\* As many copies of as much take as much.
LEMMA SpreadSize ==
  ASSUME NEW c, IsSeq(c), NEW s, Sized(s), \A j \in DOMAIN s : Keeps(s[j]),
         NEW d, IsSeq(d), NEW t, Sized(t), \A j \in DOMAIN t : Keeps(t[j]),
         Len(c) = Len(d), SizeOf(s) = SizeOf(t)
  PROVE  /\ Sized(Spread(c, s)) /\ Sized(Spread(d, t))
         /\ SizeOf(Spread(c, s)) = SizeOf(Spread(d, t))
<1>1. PICK a : /\ Parts(a) /\ Len(a) = Len(c) /\ Spread(c, s) = FlattenSeq(a)
               /\ \A i \in 1..Len(c) : SizeOf(a[i]) = SizeOf(s)
  BY SpreadRows
<1>2. PICK b : /\ Parts(b) /\ Len(b) = Len(d) /\ Spread(d, t) = FlattenSeq(b)
               /\ \A i \in 1..Len(d) : SizeOf(b[i]) = SizeOf(t)
  BY SpreadRows
<1>3. Len(a) = Len(b) /\ \A k \in 1..Len(a) : SizeOf(b[k]) = SizeOf(a[k])
  BY <1>1, <1>2
<1>4. SizeOf(FlattenSeq(a)) = SizeOf(FlattenSeq(b))
  BY <1>1, <1>2, <1>3, SizeSame
<1>5. Sized(FlattenSeq(a)) /\ Sized(FlattenSeq(b))
  BY <1>1, <1>2, SizeFlatten
<1> QED
  BY <1>1, <1>2, <1>4, <1>5

\* What a struct has of a column: its name and its size.
Strip(c)    == [name |-> c.name, size |-> c.size]
Stripped(s) == [i \in DOMAIN s |-> Strip(s[i])]

LEMMA StripFlatten ==
  ASSUME NEW seqs, IsSeq(seqs), \A i \in DOMAIN seqs : IsSeq(seqs[i]),
         NEW made, IsSeq(made), Len(made) = Len(seqs),
         \A i \in DOMAIN seqs : made[i] = Stripped(seqs[i])
  PROVE  FlattenSeq(made) = Stripped(FlattenSeq(seqs))
<1> DEFINE n == Len(seqs)
           E == UNION {ToSet(seqs[i]) : i \in DOMAIN seqs}
           D == {Strip(c) : c \in E}
           F == [c \in E |-> Strip(c)]
<1>1. n \in Nat /\ DOMAIN seqs = 1..n /\ DOMAIN made = 1..n
  BY SeqIsTuple
<1>2. \A c \in E : F[c] = Strip(c) /\ Strip(c) \in D
  OBVIOUS
<1>3. ASSUME NEW s, IsSeq(s), ToSet(s) \subseteq E
      PROVE  s \in Seq(E) /\ Through(F, s) = Stripped(s)
  <2>1. PICK C : s \in Seq(C)
    BY <1>3 DEF IsSeq
  <2>2. \A j \in DOMAIN s : s[j] \in E
    BY <1>3 DEF ToSet
  <2> HIDE DEF E, F
  <2>3. s \in Seq(E)
    BY <2>1, <2>2
  <2>4. \A j \in DOMAIN s : F[s[j]] = Strip(s[j])
    BY <1>2, <2>2
  <2>5. Through(F, s) = Stripped(s)
    BY <2>4 DEF Through, Stripped
  <2> QED
    BY <2>3, <2>5
<1>4. Maps(F, E, D)
  <2> HIDE DEF E, D, F
  <2> QED
    BY <1>2 DEF Maps
<1>5. \A i \in 1..n : ToSet(seqs[i]) \subseteq E
  BY <1>1
<1>6. IsSeq(FlattenSeq(seqs)) /\ ToSet(FlattenSeq(seqs)) = E
  BY Flattened
<1> HIDE DEF E, D, F
<1>7. \A i \in 1..n : seqs[i] \in Seq(E) /\ made[i] = Through(F, seqs[i])
  BY <1>1, <1>3, <1>5
<1>8. \A i \in 1..n : made[i] \in Seq(D)
  BY <1>4, <1>7, ThroughIs
<1> HIDE DEF n
<1>9. seqs \in Seq(Seq(E)) /\ made \in Seq(Seq(D))
  <2>1. /\ seqs = [i \in 1..n |-> seqs[i]]
        /\ made = [i \in 1..n |-> made[i]]
    BY <1>1 DEF IsSeq, n
  <2>2. seqs \in Seq(Seq(E))
    BY <1>1, <1>7 DEF IsSeq
  <2>3. made \in Seq(Seq(D))
    BY <1>1, <1>8 DEF IsSeq
  <2> QED
    BY <2>2, <2>3
<1>10. FlattenSeq(made) = Through(F, FlattenSeq(seqs))
  <2>1. Lists(seqs, E)
    BY <1>9 DEF Lists
  <2>2. Lists(made, D)
    BY <1>9 DEF Lists
  <2>3. Images(F, made, seqs)
    BY <1>7 DEF n, Images
  <2> QED
    BY <1>4, <2>1, <2>2, <2>3, FlattenThrough
<1>11. Through(F, FlattenSeq(seqs)) = Stripped(FlattenSeq(seqs))
  BY <1>3, <1>6
<1> QED
  BY <1>10, <1>11

LEMMA StripSpread ==
  ASSUME NEW copies, IsSeq(copies), NEW inner, AreColumns(inner)
  PROVE  Spread(copies, Stripped(inner)) = Stripped(Spread(copies, inner))
<1> DEFINE Cell(i, j) == Under(copies[i], inner[j])
           Row(i)     == [j \in DOMAIN inner |-> Cell(i, j)]
           rows       == [i \in DOMAIN copies |-> Row(i)]
           Bare(i)    == [j \in DOMAIN inner |-> Strip(Cell(i, j))]
           bares      == [i \in DOMAIN copies |-> Bare(i)]
<1>1. Spread(copies, inner) = FlattenSeq(rows)
  BY DEF Spread, Under
<1>2. ASSUME NEW i, NEW j \in DOMAIN inner
      PROVE  Under(copies[i], Strip(inner[j])) = Strip(Cell(i, j))
  <2> DEFINE c == inner[j]
             x == copies[i]
             y == Concat(x, c.name)
  <2>1. c = [name |-> c.name, type |-> c.type, size |-> c.size]
    BY DEF AreColumns, IsColumn
  <2>2. Under(x, c) = [c EXCEPT !.name = y]
    BY DEF Under
  <2>3. Under(x, Strip(c)) = [Strip(c) EXCEPT !.name = y]
    BY DEF Under, Strip
  <2> HIDE DEF c, y
  <2>4. Under(x, c) = [name |-> y, type |-> c.type, size |-> c.size]
    BY <2>1, <2>2
  <2>5. Under(x, Strip(c)) = [name |-> y, size |-> c.size]
    BY <2>3 DEF Strip
  <2>6. Strip(Under(x, c)) = [name |-> y, size |-> c.size]
    BY <2>4 DEF Strip
  <2> QED
    BY <2>5, <2>6 DEF c
<1>3. Spread(copies, Stripped(inner)) = FlattenSeq(bares)
  <2> DEFINE b == Stripped(inner)
  <2>1. DOMAIN b = DOMAIN inner /\ \A j \in DOMAIN inner : b[j] = Strip(inner[j])
    BY DEF Stripped
  <2> HIDE DEF b
  <2>2. Spread(copies, b) = FlattenSeq([i \in DOMAIN copies |->
                               [j \in DOMAIN b |-> Under(copies[i], b[j])]])
    BY DEF Spread, Under
  <2>3. \A i \in DOMAIN copies : [j \in DOMAIN b |-> Under(copies[i], b[j])] = Bare(i)
    BY <1>2, <2>1
  <2> QED
    BY <2>2, <2>3 DEF b
<1> HIDE DEF Cell
<1>4. ASSUME NEW i \in DOMAIN copies
      PROVE  IsSeq(Row(i)) /\ Bare(i) = Stripped(Row(i))
  <2>1. Mapped(Row(i), inner) /\ \A j \in DOMAIN inner : Row(i)[j] = Cell(i, j)
    BY DEF Mapped
  <2>2. IsSeq(Row(i)) /\ DOMAIN Row(i) = DOMAIN inner
    BY <2>1, MappedIsSeq DEF AreColumns
  <2> QED
    BY <2>2 DEF Stripped
<1> HIDE DEF Row, Bare
<1>5. /\ Mapped(rows, copies) /\ \A i \in DOMAIN copies : rows[i] = Row(i)
      /\ Mapped(bares, copies) /\ \A i \in DOMAIN copies : bares[i] = Bare(i)
  BY DEF Mapped
<1> HIDE DEF rows, bares
<1>6. /\ IsSeq(rows) /\ DOMAIN rows = DOMAIN copies /\ Len(rows) = Len(copies)
      /\ IsSeq(bares) /\ Len(bares) = Len(copies)
  BY <1>5, MappedIsSeq
<1>7. /\ \A i \in DOMAIN rows : IsSeq(rows[i])
      /\ \A i \in DOMAIN rows : bares[i] = Stripped(rows[i])
  BY <1>4, <1>5, <1>6
<1>8. FlattenSeq(bares) = Stripped(FlattenSeq(rows))
  BY <1>6, <1>7, StripFlatten
<1> QED
  BY <1>1, <1>3, <1>8

-----------------------------------------------------------------------------
(* The members of a struct are the fields in some order.                   *)

\* protoc lets a message have a name once.
Distinct ==
  \A m \in Messages : \A i, j \in DOMAIN fields[m] :
    fields[m][i].name = fields[m][j].name => i = j

LEMMA DistinctInit == Init => Distinct
  BY DEF Init, Distinct

LEMMA DistinctStep == Legal /\ Distinct /\ [Next]_vars => Distinct'
<1> SUFFICES ASSUME Legal, Distinct, [Next]_vars PROVE Distinct'
  OBVIOUS
<1>1. ASSUME NEW m \in Messages, NEW name \in ToSet(Names), NEW shape \in Shapes,
             AddField(m, name, shape)
      PROVE  Distinct'
  <2> DEFINE f   == [name |-> name, type |-> shape.type, repeated |-> shape.repeated,
                     count |-> shape.count, size |-> shape.size]
             old == fields[m]
             new == Append(fields[m], f)
  <2>1. /\ fields' = [fields EXCEPT ![m] = new]
        /\ \A i \in DOMAIN old : old[i].name # name
    BY <1>1 DEF AddField
  <2>2. f.name = name
    OBVIOUS
  <2>3. fields \in [Messages -> Seq(Field)] /\ old \in Seq(Field)
    BY DEF Legal, Typed
  <2> HIDE DEF f
  <2>4. PICK E : old \in Seq(E) /\ f \in E
    <3> DEFINE E == Field \cup {f}
    <3>1. Len(old) \in Nat /\ old = [i \in 1..Len(old) |-> old[i]] /\ \A i \in 1..Len(old) : old[i] \in E
      BY <2>3
    <3>2. f \in E
      OBVIOUS
    <3> HIDE DEF E, old
    <3>3. old \in Seq(E)
      BY <3>1
    <3> QED
      BY <3>2, <3>3
  <2>5. /\ DOMAIN new = 1..(Len(old) + 1) /\ DOMAIN old = 1..Len(old) /\ Len(old) \in Nat
        /\ \A i \in 1..Len(old) : new[i] = old[i]
        /\ new[Len(old) + 1] = f
    BY <2>4, AppendProperties, LenProperties
  <2> HIDE DEF old, new
  <2>6. ASSUME NEW i \in DOMAIN new, NEW j \in DOMAIN new, new[i].name = new[j].name
        PROVE  i = j
    <3>1. /\ i \in DOMAIN old \/ i = Len(old) + 1
          /\ j \in DOMAIN old \/ j = Len(old) + 1
      BY <2>5
    <3>2. /\ i \in DOMAIN old => new[i] = old[i]
          /\ j \in DOMAIN old => new[j] = old[j]
      BY <2>5
    <3>3. i \in DOMAIN old /\ j \in DOMAIN old => i = j
      BY <2>6, <3>2 DEF Distinct, old
    <3> QED
      BY <2>1, <2>2, <2>5, <2>6, <3>1, <3>2, <3>3
  <2>7. fields'[m] = new /\ \A k \in Messages : k # m => fields'[k] = fields[k]
    BY <2>1, <2>3
  <2> QED
    BY <2>6, <2>7 DEF Distinct
<1>2. ASSUME NEW file \in DOMAIN Files, Import(file) PROVE Distinct'
  BY <1>2 DEF Import, Distinct
<1>3. CASE UNCHANGED vars
  BY <1>3 DEF vars, Distinct
<1> QED
  BY <1>1, <1>2, <1>3 DEF Next

LEMMA NamesAreDistinct == Spec => []Distinct
<1>1. Legal /\ Distinct /\ [Next]_vars => Distinct'
  BY DistinctStep
<1> QED
  BY <1>1, DistinctInit, MessagesAreLegal, PTL DEF Spec

LEMMA PositionIs ==
  ASSUME NEW x \in ToSet(Names)
  PROVE  Position(x) \in Nat /\ Names[Position(x)] = x
<1>1. Names \in Seq(STRING)
  BY LayoutAssumption DEF LayoutAssumption
<1>2. \E i \in DOMAIN Names : Names[i] = x
  BY DEF ToSet
<1>3. Position(x) \in DOMAIN Names /\ Names[Position(x)] = x
  BY <1>2 DEF Position
<1> QED
  BY <1>1, <1>3

\* n different ranks below n are all of them.
LEMMA RanksAreAll ==
  ASSUME NEW n \in Nat, NEW R \in [1..n -> 0..(n - 1)],
         \A i, j \in 1..n : R[i] = R[j] => i = j
  PROVE  \A i \in 1..n : \E k \in 1..n : R[k] = i - 1
<1> DEFINE S == 1..n
           T == 0..(n - 1)
<1>1. IsFiniteSet(S) /\ Cardinality(S) = n
  <2>1. IsFiniteSet(1..n) /\ Cardinality(1..n) = IF 1 > n THEN 0 ELSE n - 1 + 1
    BY FS_Interval
  <2> QED
    BY <2>1
<1>2. IsFiniteSet(T) /\ Cardinality(T) = n
  <2>1. IsFiniteSet(0..(n - 1)) /\ Cardinality(0..(n - 1)) = IF 0 > n - 1 THEN 0 ELSE (n - 1) - 0 + 1
    BY FS_Interval
  <2> QED
    BY <2>1
<1>3. R \in Injection(S, T)
  BY DEF Injection, IsInjective
<1> HIDE DEF S, T
<1>4. R \in Surjection(S, T)
  BY <1>1, <1>2, <1>3, FS_Injection
<1>5. \A t \in T : \E k \in S : R[k] = t
  BY <1>4 DEF Surjection
<1>6. \A i \in 1..n : i - 1 \in T
  BY DEF T
<1> QED
  BY <1>5, <1>6 DEF S

LEMMA MembersAre ==
  ASSUME Legal, Distinct, NEW m \in Messages
  PROVE  LET own == fields[m]
             n   == Len(own)
         IN  /\ IsSeq(Members(m)) /\ Len(Members(m)) = n
             /\ \E p : Permutes(p, n) /\ \A i \in 1..n : Members(m)[i] = own[p[i]]
<1> DEFINE own  == fields[m]
           n    == Len(own)
           S    == ToSet(own)
           Pos(k) == Position(own[k].name)
           B(k) == Before(m, own[k])
           R    == [k \in 1..n |-> Cardinality(B(k))]
<1>1. own \in Seq(Field) /\ n \in Nat /\ DOMAIN own = 1..n
  BY DEF Legal, Typed
<1>2. \A k \in 1..n : own[k] \in S /\ own[k].name \in ToSet(Names)
  <2> SUFFICES ASSUME NEW k \in 1..n PROVE own[k] \in S /\ own[k].name \in ToSet(Names)
    OBVIOUS
  <2>1. own[k] \in Field
    BY <1>1
  <2> QED
    BY <1>1, <2>1 DEF ToSet, Field
<1>3. \A i, j \in 1..n : own[i].name = own[j].name => i = j
  BY <1>1 DEF Distinct
<1>4. \A g \in S : \E k \in 1..n : g = own[k]
  BY <1>1 DEF ToSet
<1>5. /\ \A k \in 1..n : Pos(k) \in Nat
      /\ \A i, j \in 1..n : Pos(i) = Pos(j) => i = j
  BY <1>2, <1>3, PositionIs
<1>6. \A k \in 1..n : B(k) = {g \in S : Position(g.name) < Pos(k)}
  BY DEF Before
<1>7. IsFiniteSet(S) /\ Cardinality(S) \in Nat /\ Cardinality(S) <= n
  <2>1. own \in [1..n -> S] /\ \A t \in S : \E s \in 1..n : own[s] = t
    <3>1. own = [k \in 1..n |-> own[k]]
      BY <1>1
    <3> QED
      BY <1>2, <1>4, <3>1
  <2>2. own \in Surjection(1..n, S)
    <3> HIDE DEF own, n, S
    <3> QED
      BY <2>1 DEF Surjection
  <2>3. IsFiniteSet(1..n) /\ Cardinality(1..n) = IF 1 > n THEN 0 ELSE n - 1 + 1
    BY <1>1, FS_Interval
  <2>4. Cardinality(1..n) = n
    BY <1>1, <2>3
  <2> HIDE DEF own, n, S
  <2>5. IsFiniteSet(S) /\ Cardinality(S) <= Cardinality(1..n)
    BY <2>2, <2>3, FS_Surjection
  <2> QED
    BY <2>4, <2>5, FS_CardinalityType
<1> HIDE DEF own, n, S, Pos
<1>8. ASSUME NEW k \in 1..n
      PROVE  IsFiniteSet(B(k)) /\ Cardinality(B(k)) \in 0..(n - 1)
  <2>1. B(k) \in SUBSET (S \ {own[k]})
    <3>1. \A g \in B(k) : g \in S /\ Position(g.name) < Pos(k)
      BY <1>6
    <3>2. Position(own[k].name) = Pos(k) /\ Pos(k) \in Nat
      BY <1>5 DEF Pos
    <3>3. \A g \in B(k) : g # own[k]
      BY <3>1, <3>2
    <3> QED
      BY <3>1, <3>3
  <2>2. IsFiniteSet(S \ {own[k]}) /\ Cardinality(S \ {own[k]}) = Cardinality(S) - 1
    BY <1>2, <1>7, FS_RemoveElement
  <2> HIDE DEF B
  <2>3. IsFiniteSet(B(k)) /\ Cardinality(B(k)) <= Cardinality(S \ {own[k]})
    BY <2>1, <2>2, FS_Subset
  <2>4. Cardinality(B(k)) \in Nat
    BY <2>3, FS_CardinalityType
  <2> QED
    BY <1>1, <1>7, <2>2, <2>3, <2>4
<1>9. ASSUME NEW i \in 1..n, NEW j \in 1..n, Pos(i) < Pos(j)
      PROVE  Cardinality(B(i)) < Cardinality(B(j))
  <2> DEFINE C == B(i) \cup {own[i]}
  <2>1. C \in SUBSET B(j)
    <3>1. \A g \in B(i) : g \in S /\ Position(g.name) < Pos(i)
      BY <1>6
    <3>2. own[i] \in S /\ Position(own[i].name) = Pos(i)
      BY <1>2 DEF Pos
    <3>3. \A g \in S : Position(g.name) < Pos(j) => g \in B(j)
      BY <1>6
    <3>4. \A g \in B(i) : Position(g.name) < Pos(j)
      <4> SUFFICES ASSUME NEW g \in B(i) PROVE Position(g.name) < Pos(j)
        OBVIOUS
      <4>1. PICK k \in 1..n : g = own[k]
        BY <1>4, <3>1
      <4>2. Position(g.name) = Pos(k) /\ Pos(k) \in Nat /\ Pos(i) \in Nat /\ Pos(j) \in Nat
        BY <1>5, <4>1 DEF Pos
      <4> QED
        BY <1>9, <3>1, <4>2
    <3> QED
      BY <1>9, <3>1, <3>2, <3>3, <3>4
  <2>2. own[i] \notin B(i)
    <3>1. Position(own[i].name) = Pos(i) /\ Pos(i) \in Nat
      BY <1>5 DEF Pos
    <3>2. \A g \in B(i) : Position(g.name) < Pos(i)
      BY <1>6
    <3> QED
      BY <3>1, <3>2
  <2>3. IsFiniteSet(B(i)) /\ IsFiniteSet(B(j)) /\ Cardinality(B(i)) \in Nat /\ Cardinality(B(j)) \in Nat
    BY <1>1, <1>8
  <2> HIDE DEF B
  <2>4. IsFiniteSet(C) /\ Cardinality(C) = Cardinality(B(i)) + 1
    BY <2>2, <2>3, FS_AddElement
  <2> HIDE DEF C
  <2>5. Cardinality(C) <= Cardinality(B(j))
    BY <2>1, <2>3, FS_Subset
  <2> QED
    BY <2>3, <2>4, <2>5
<1>10. \A k \in 1..n : R[k] = Cardinality(B(k)) /\ R[k] \in 0..(n - 1)
  BY <1>8
<1>11. R \in [1..n -> 0..(n - 1)]
  BY <1>10
<1> HIDE DEF B
<1>12. ASSUME NEW i \in 1..n, NEW j \in 1..n, R[i] = R[j] PROVE i = j
  <2>1. Pos(i) \in Nat /\ Pos(j) \in Nat /\ Cardinality(B(i)) = Cardinality(B(j))
    BY <1>5, <1>10, <1>12
  <2>2. Cardinality(B(i)) \in Nat
    BY <1>1, <1>8
  <2>3. ~(Pos(i) < Pos(j)) /\ ~(Pos(j) < Pos(i))
    BY <1>9, <2>1, <2>2
  <2>4. Pos(i) = Pos(j)
    BY <2>1, <2>3
  <2> QED
    BY <1>5, <2>4
<1>13. \A i \in 1..n : \E k \in 1..n : R[k] = i - 1
  BY <1>1, <1>11, <1>12, RanksAreAll
<1> HIDE DEF R
<1> DEFINE p == [i \in 1..n |-> CHOOSE k \in 1..n : R[k] = i - 1]
<1>14. \A i \in 1..n : p[i] \in 1..n /\ R[p[i]] = i - 1
  BY <1>13
<1>15. p \in [1..n -> 1..n]
  BY <1>14
<1> HIDE DEF p
<1>16. Permutes(p, n)
  <2>1. ASSUME NEW i \in 1..n, NEW j \in 1..n, p[i] = p[j] PROVE i = j
    <3>1. i - 1 = j - 1
      BY <1>14, <2>1
    <3> QED
      BY <3>1
  <2>2. ASSUME NEW i \in 1..n PROVE \E k \in 1..n : p[k] = i
    <3> DEFINE k == R[i] + 1
    <3>1. k \in 1..n /\ R[i] = k - 1
      BY <1>1, <1>10
    <3> HIDE DEF k
    <3>2. R[p[k]] = R[i] /\ p[k] \in 1..n
      BY <1>14, <3>1
    <3> QED
      BY <1>12, <3>1, <3>2
  <2> QED
    BY <1>15, <2>1, <2>2 DEF Permutes
<1>17. ASSUME NEW i \in 1..n
       PROVE  own[p[i]] = CHOOSE f \in S : Cardinality(Before(m, f)) = i - 1
  <2> DEFINE Q(f) == f \in S /\ Cardinality(Before(m, f)) = i - 1
             x    == CHOOSE f \in S : Cardinality(Before(m, f)) = i - 1
  <2>1. \A k \in 1..n : R[k] = Cardinality(Before(m, own[k]))
    BY <1>10 DEF B
  <2>2. own[p[i]] \in S /\ Cardinality(Before(m, own[p[i]])) = i - 1
    BY <1>2, <1>14, <2>1
  <2>3. x \in S /\ Cardinality(Before(m, x)) = i - 1
    BY <2>2
  <2> HIDE DEF x
  <2>4. PICK k \in 1..n : x = own[k]
    BY <1>4, <2>3
  <2>5. R[k] = i - 1
    BY <2>1, <2>3, <2>4
  <2>6. k = p[i]
    BY <1>12, <1>14, <2>5
  <2> QED
    BY <2>4, <2>6 DEF x
<1>18. Members(m) = [i \in 1..n |-> CHOOSE f \in S : Cardinality(Before(m, f)) = i - 1]
  BY <1>1 DEF Members, own, S
<1>19. IsTuple(Members(m), n) /\ \A i \in 1..n : Members(m)[i] = own[p[i]]
  <2>1. \A i \in 1..n : Members(m)[i] = own[p[i]]
    BY <1>17, <1>18
  <2>2. Members(m) = [i \in 1..n |-> own[p[i]]]
    BY <1>17, <1>18
  <2> QED
    BY <2>1, <2>2 DEF IsTuple
<1>20. IsSeq(Members(m)) /\ Len(Members(m)) = n
  BY <1>1, <1>19, TupleIsSeq
<1> QED
  BY <1>16, <1>19, <1>20 DEF own, n

-----------------------------------------------------------------------------
(* Reach and StructLeaves are what their definitions say.                  *)

ReachStep(F, m) ==
  {m} \cup UNION {F[fields[m][i].type] :
                    i \in {i \in DOMAIN fields[m] : fields[m][i].type \in Messages}}

Reaches == INSTANCE Recursion WITH Step <- ReachStep

LEMMA ReachIs ==
  ASSUME Nested
  PROVE  \A m \in Messages : Reach[m] = ReachStep(Reach, m)
<1>1. ASSUME NEW F, NEW G, NEW m \in Messages,
             \A k \in Messages : Level[k] < Level[m] => F[k] = G[k]
      PROVE  ReachStep(F, m) = ReachStep(G, m)
  <2> DEFINE I == {i \in DOMAIN fields[m] : fields[m][i].type \in Messages}
  <2>1. \A i \in I : F[fields[m][i].type] = G[fields[m][i].type]
    BY <1>1 DEF Nested
  <2>2. {F[fields[m][i].type] : i \in I} = {G[fields[m][i].type] : i \in I}
    BY <2>1
  <2> QED
    BY <2>2 DEF ReachStep
<1>2. Reaches!Local(Messages, Level)
  BY <1>1 DEF Reaches!Local
<1>3. Level \in [Messages -> Nat]
  BY LayoutAssumption DEF LayoutAssumption
<1>4. \E F : F = [m \in Messages |-> ReachStep(F, m)]
  BY <1>2, <1>3, NatSet, Reaches!Defined DEF Reaches!Induction
<1>5. Reach = CHOOSE F : F = [m \in Messages |-> ReachStep(F, m)]
  BY DEF Reach, ReachStep
<1>6. Reach = [m \in Messages |-> ReachStep(Reach, m)]
  BY <1>4, <1>5
<1> QED
  BY <1>6

\* m reaches itself and what its fields reach.
LEMMA ReachHas ==
  ASSUME Nested, NEW m \in Messages
  PROVE  /\ m \in Reach[m]
         /\ \A i \in DOMAIN fields[m] :
              fields[m][i].type \in Messages => Reach[fields[m][i].type] \subseteq Reach[m]
<1>1. Reach[m] = ReachStep(Reach, m)
  BY ReachIs
<1> QED
  BY <1>1 DEF ReachStep

\* The members inside a field, if F is StructLeaves below it; its copies.
MembersOf(F, m, f) ==
  CASE f.type \in Messages -> F[f.type]
    [] f.type = "string"   -> <<[name |-> "", size |-> CppValue(home[m], f.size)]>>
    [] f.type = "bytes"    -> <<[name |-> "", size |-> 1]>>
    [] OTHER               -> <<[name |-> "", size |-> Width[f.type]]>>

CppCopies(m, f) ==
  IF f.repeated THEN Numbered(f.name, CppValue(home[m], f.count)) ELSE <<f.name>>

StructStep(F, m) ==
  LET members == Members(m)
  IN  FlattenSeq([i \in DOMAIN members |->
        Spread(CppCopies(m, members[i]), MembersOf(F, m, members[i]))])

Structs == INSTANCE Recursion WITH Step <- StructStep

LEMMA MemberIsField ==
  ASSUME Legal, Distinct, NEW m \in Messages, NEW i \in DOMAIN Members(m)
  PROVE  \E k \in DOMAIN fields[m] : Members(m)[i] = fields[m][k]
<1> DEFINE own == fields[m]
           n   == Len(own)
<1>1. n \in Nat /\ DOMAIN own = 1..n
  BY DEF Legal, Typed
<1>2. IsSeq(Members(m)) /\ Len(Members(m)) = n
  BY MembersAre
<1>3. PICK p : Permutes(p, n) /\ \A j \in 1..n : Members(m)[j] = own[p[j]]
  BY MembersAre
<1>4. i \in 1..n
  BY <1>2, SeqIsTuple
<1>5. p[i] \in 1..n
  BY <1>3, <1>4 DEF Permutes
<1> QED
  BY <1>1, <1>3, <1>4, <1>5

LEMMA StructIs ==
  ASSUME Legal, Distinct
  PROVE  \A m \in Messages : StructLeaves[m] = StructStep(StructLeaves, m)
<1>1. ASSUME NEW F, NEW G, NEW m \in Messages,
             \A k \in Messages : Level[k] < Level[m] => F[k] = G[k]
      PROVE  StructStep(F, m) = StructStep(G, m)
  <2> DEFINE members == Members(m)
  <2>1. ASSUME NEW i \in DOMAIN members
        PROVE  MembersOf(F, m, members[i]) = MembersOf(G, m, members[i])
    <3>1. PICK k \in DOMAIN fields[m] : members[i] = fields[m][k]
      BY MemberIsField
    <3>2. CASE members[i].type \in Messages
      <4>1. Level[members[i].type] < Level[m]
        BY <3>1, <3>2 DEF Legal, Nested
      <4>2. F[members[i].type] = G[members[i].type]
        BY <1>1, <3>2, <4>1
      <4> HIDE DEF members
      <4> QED
        BY <3>2, <4>2 DEF MembersOf
    <3>3. CASE members[i].type \notin Messages
      <4> HIDE DEF members
      <4> QED
        BY <3>3 DEF MembersOf
    <3> QED
      BY <3>2, <3>3
  <2> QED
    BY <2>1 DEF StructStep
<1>2. Structs!Local(Messages, Level)
  BY <1>1 DEF Structs!Local
<1>3. Level \in [Messages -> Nat]
  BY LayoutAssumption DEF LayoutAssumption
<1>4. \E F : F = [m \in Messages |-> StructStep(F, m)]
  BY <1>2, <1>3, NatSet, Structs!Defined DEF Structs!Induction
<1>5. StructLeaves = CHOOSE F : F = [m \in Messages |-> StructStep(F, m)]
  BY DEF StructLeaves, StructStep, MembersOf, CppCopies
<1>6. StructLeaves = [m \in Messages |-> StructStep(StructLeaves, m)]
  BY <1>4, <1>5
<1> QED
  BY <1>6

-----------------------------------------------------------------------------
(* The struct has the record's columns.                                    *)

AreLeaves(s) == Sized(s) /\ \A j \in DOMAIN s : s[j] = Strip(s[j])

\* What Compiles and CountsTravel say of the messages k is made of, for a file
\* that is converted in h.
Fits(h, k) ==
  \A j \in Reach[k] : \A f \in FieldsOf(j) :
    /\ f.repeated => /\ CppValue(home[j], f.count) # 0
                     /\ GetEnumValue(h, f.count) = GetEnumValue(home[j], f.count)
    /\ f.type = "string" => CppValue(home[j], f.size) # 0
    /\ f.type # "bytes"

Sorted(k) == \A j \in Reach[k] : Members(j) = fields[j]

Alike(leaves, columns, sorted) ==
  /\ AreLeaves(leaves) /\ AreColumns(columns) /\ AreSized(columns)
  /\ SizeOf(leaves) = SizeOf(columns)
  /\ sorted => leaves = Stripped(columns)

AlikeAt(at) ==
  (Flatten[at].ok /\ Fits(at[1], at[2]))
    => Alike(StructLeaves[at[2]], Flatten[at].columns, Sorted(at[2]))

LEMMA ColumnsKeep ==
  ASSUME NEW s, AreColumns(s), AreSized(s)
  PROVE  /\ Sized(s) /\ \A j \in DOMAIN s : Keeps(s[j])
         /\ AreLeaves(Stripped(s)) /\ Len(Stripped(s)) = Len(s)
         /\ SizeOf(Stripped(s)) = SizeOf(s)
<1> DEFINE t == Stripped(s)
<1>1. Sized(s)
  BY DEF AreColumns, AreSized, Sized
<1>2. ASSUME NEW j \in DOMAIN s PROVE Keeps(s[j])
  <2> DEFINE c == s[j]
  <2>1. c = [name |-> c.name, type |-> c.type, size |-> c.size]
    BY DEF AreColumns, IsColumn
  <2> HIDE DEF c
  <2>2. ASSUME NEW x PROVE Under(x, c).size = c.size
    <3> DEFINE y == Concat(x, c.name)
    <3>1. Under(x, c) = [c EXCEPT !.name = y]
      BY DEF Under
    <3> HIDE DEF y
    <3>2. Under(x, c) = [name |-> y, type |-> c.type, size |-> c.size]
      BY <2>1, <3>1
    <3> QED
      BY <3>2
  <2> QED
    BY <2>2 DEF Keeps, c
<1>3. Mapped(t, s) /\ \A j \in DOMAIN s : t[j] = Strip(s[j])
  BY DEF Stripped, Mapped
<1> HIDE DEF t
<1>4. IsSeq(t) /\ DOMAIN t = DOMAIN s /\ Len(t) = Len(s)
  BY <1>1, <1>3, MappedIsSeq DEF Sized
<1>5. \A j \in DOMAIN s : t[j].size = s[j].size /\ t[j].name = s[j].name
  <2>1. \A c : Strip(c).size = c.size /\ Strip(c).name = c.name
    BY DEF Strip
  <2> QED
    BY <1>3, <2>1
<1>6. AreLeaves(t)
  <2>1. Sized(t)
    BY <1>1, <1>4, <1>5 DEF Sized
  <2>2. \A j \in DOMAIN t : t[j] = Strip(t[j])
    BY <1>3, <1>4, <1>5 DEF Strip
  <2> QED
    BY <2>1, <2>2 DEF AreLeaves
<1>7. PICK h : Sums(h, s) /\ h[Len(s)] = SizeOf(s)
  BY <1>1, SizeSteps DEF Sized
<1>8. Sums(h, t)
  <2>1. DOMAIN s = 1..Len(s)
    BY <1>1, SeqIsTuple DEF Sized
  <2>2. \A j \in 1..Len(s) : t[j].size = s[j].size
    BY <1>5, <2>1
  <2> QED
    BY <1>4, <1>7, <2>2 DEF Sums
<1>9. SizeOf(t) = SizeOf(s)
  BY <1>4, <1>6, <1>7, <1>8, SizeIs DEF AreLeaves
<1> QED
  BY <1>1, <1>2, <1>4, <1>6, <1>9 DEF t

LEMMA LeavesKeep ==
  ASSUME NEW s, AreLeaves(s)
  PROVE  Sized(s) /\ \A j \in DOMAIN s : Keeps(s[j])
<1>1. Sized(s)
  BY DEF AreLeaves
<1>2. ASSUME NEW j \in DOMAIN s PROVE Keeps(s[j])
  <2> DEFINE c == s[j]
  <2>1. c = [name |-> c.name, size |-> c.size]
    BY DEF AreLeaves, Strip
  <2> HIDE DEF c
  <2>2. ASSUME NEW x PROVE Under(x, c).size = c.size
    <3> DEFINE y == Concat(x, c.name)
    <3>1. Under(x, c) = [c EXCEPT !.name = y]
      BY DEF Under
    <3> HIDE DEF y
    <3>2. Under(x, c) = [name |-> y, size |-> c.size]
      BY <2>1, <3>1
    <3> QED
      BY <3>2
  <2> QED
    BY <2>2 DEF Keeps, c
<1> QED
  BY <1>1, <1>2

\* Spread keeps leaves leaves.
LEMMA SpreadLeaves ==
  ASSUME NEW copies, IsSeq(copies), NEW s, AreLeaves(s)
  PROVE  IsSeq(Spread(copies, s)) /\ \A x \in ToSet(Spread(copies, s)) : x = Strip(x)
<1>1. IsSeq(s) /\ \A j \in DOMAIN s : s[j] = Strip(s[j])
  BY DEF AreLeaves, Sized
<1>2. ASSUME NEW x \in ToSet(Spread(copies, s)) PROVE x = Strip(x)
  <2>1. PICK i \in DOMAIN copies, j \in DOMAIN s : x = Under(copies[i], s[j])
    BY <1>1, <1>2, SpreadIs
  <2> DEFINE c == s[j]
             y == Concat(copies[i], c.name)
  <2>2. c = [name |-> c.name, size |-> c.size]
    BY <1>1 DEF Strip
  <2>3. x = [c EXCEPT !.name = y]
    BY <2>1 DEF Under
  <2> HIDE DEF c, y
  <2>4. x = [name |-> y, size |-> c.size]
    BY <2>2, <2>3
  <2> QED
    BY <2>4 DEF Strip
<1> QED
  BY <1>1, <1>2, SpreadIs

LEMMA CppCopiesAre ==
  ASSUME Legal, NEW h \in DOMAIN Files, NEW k \in Messages, NEW i \in DOMAIN fields[k],
         Fits(h, k), fields[k][i].repeated => GetEnumValue(h, fields[k][i].count) # 0
  PROVE  CopiesOf(h, fields[k][i]) = CppCopies(k, fields[k][i])
<1> DEFINE f == fields[k][i]
<1>1. f \in FieldsOf(k) /\ f \in Field
  BY DEF FieldsOf, ToSet, Legal, Typed
<1>2. k \in Reach[k]
  BY ReachHas DEF Legal
<1>3. home[k] \in DOMAIN Files
  BY LayoutAssumption DEF LayoutAssumption, Legal, Typed
<1>4. ASSUME f.repeated PROVE GetEnumValue(h, f.count) = CppValue(home[k], f.count)
  <2>1. CppValue(home[k], f.count) # 0 /\ GetEnumValue(h, f.count) = GetEnumValue(home[k], f.count)
    BY <1>1, <1>2, <1>4 DEF Fits
  <2>2. GetEnumValue(home[k], f.count) # 0 /\ f.count \in Seq(STRING)
    BY <1>1, <1>4, <2>1 DEF Field
  <2> HIDE DEF f
  <2> QED
    BY <1>3, <2>1, <2>2, LookupOf
<1> HIDE DEF f
<1>5. CopiesOf(h, f) = CppCopies(k, f)
  BY <1>4 DEF CopiesOf, CppCopies
<1> QED
  BY <1>5 DEF f

LEMMA LeafMembers ==
  ASSUME Legal, NEW k \in Messages, NEW f \in Field, f.type \notin Messages,
         f.type = "string" => CppValue(home[k], f.size) # 0, f.type # "bytes",
         Leaf(k, f).ok, NEW F
  PROVE  MembersOf(F, k, f) = Stripped(Leaf(k, f).columns)
<1> DEFINE c == Leaf(k, f).columns
<1>1. f.type \in Leaves /\ f.size \in Seq(STRING)
  BY DEF Field
<1>2. DOMAIN c = {1} /\ c[1] = [name |-> "", type |-> f.type, size |-> LeafSize(k, f)]
  BY <1>1, LeafIs DEF Legal
<1> HIDE DEF c
<1>3. Strip(c[1]) = [name |-> "", size |-> LeafSize(k, f)]
  <2> DEFINE e == [name |-> "", type |-> f.type, size |-> LeafSize(k, f)]
  <2>1. e.name = "" /\ e.size = LeafSize(k, f) /\ c[1] = e
    BY <1>2
  <2> HIDE DEF e
  <2>2. Strip(e) = [name |-> "", size |-> LeafSize(k, f)]
    BY <2>1 DEF Strip
  <2> QED
    BY <2>1, <2>2
<1>4. Stripped(c) = [j \in {1} |-> [name |-> "", size |-> LeafSize(k, f)]]
  <2>1. Stripped(c) = [j \in {1} |-> Strip(c[j])]
    BY <1>2 DEF Stripped
  <2>2. \A j \in {1} : Strip(c[j]) = [name |-> "", size |-> LeafSize(k, f)]
    BY <1>3
  <2> QED
    BY <2>1, <2>2
<1>5. home[k] \in DOMAIN Files
  BY LayoutAssumption DEF LayoutAssumption, Legal, Typed
<1>6. MembersOf(F, k, f) = <<[name |-> "", size |-> LeafSize(k, f)]>>
  <2>1. CASE f.type = "string"
    <3>1. MembersOf(F, k, f) = <<[name |-> "", size |-> CppValue(home[k], f.size)]>>
      BY <2>1, LayoutAssumption DEF MembersOf
    <3>2. LeafSize(k, f) = GetEnumValue(home[k], f.size) /\ LeafSize(k, f) # 0
      BY <2>1 DEF LeafSize, Blocks, Leaf
    <3>3. GetEnumValue(home[k], f.size) = CppValue(home[k], f.size)
      BY <1>1, <1>5, <2>1, <3>2, LookupOf
    <3> QED
      BY <3>1, <3>2, <3>3
  <2>2. CASE f.type # "string"
    BY <2>2 DEF MembersOf, LeafSize, Blocks
  <2> QED
    BY <2>1, <2>2
<1>7. \A x : <<x>> = [j \in {1} |-> x]
  OBVIOUS
<1> QED
  BY <1>4, <1>6, <1>7 DEF c

\* Inside a field struct and record are alike, if they are at lower levels.
LEMMA InsideAlike ==
  ASSUME Legal, NEW at \in Pairs, Fits(at[1], at[2]), NEW i \in DOMAIN fields[at[2]],
         InnerOf(Flatten, at, fields[at[2]][i]).ok,
         \A b \in Pairs : Depth[b] < Depth[at] => AlikeAt(b)
  PROVE  LET f == fields[at[2]][i]
         IN  Alike(MembersOf(StructLeaves, at[2], f), InnerOf(Flatten, at, f).columns,
                   Sorted(at[2]))
<1> DEFINE k == at[2]
           f == fields[k][i]
           in == InnerOf(Flatten, at, f)
<1>1. at[1] \in DOMAIN Files /\ k \in Messages /\ f \in Field
  BY DEF Pairs, Legal, Typed
<1>2. in.ok
  OBVIOUS
<1>3. k \in Reach[k] /\ f \in FieldsOf(k)
  BY <1>1, ReachHas DEF Legal, FieldsOf, ToSet
<1>4. CASE f.type \in Messages
  <2> DEFINE b == <<at[1], f.type>>
  <2>1. b \in Pairs /\ b[1] = at[1] /\ b[2] = f.type
    BY <1>1, <1>4 DEF Pairs
  <2>2. Depth[b] < Depth[at]
    BY <1>1, <1>4, <2>1, DepthIsNat DEF Legal, Nested
  <2>3. Reach[f.type] \subseteq Reach[k]
    BY <1>1, <1>4, ReachHas DEF Legal
  <2>4. Fits(b[1], b[2])
    BY <2>1, <2>3 DEF Fits
  <2>5. in = Flatten[b] /\ MembersOf(StructLeaves, k, f) = StructLeaves[b[2]]
    <3>1. f.type # "string" /\ f.type # "bytes"
      <4>1. "string" \in Leaves /\ "bytes" \in Leaves /\ Messages \cap Leaves = {}
        BY LayoutAssumption DEF LayoutAssumption, Leaves, Blocks
      <4> QED
        BY <1>4, <4>1
    <3> HIDE DEF f
    <3> QED
      BY <1>4, <2>1, <3>1 DEF InnerOf, MembersOf
  <2>6. Alike(StructLeaves[b[2]], Flatten[b].columns, Sorted(b[2]))
    BY <1>2, <2>1, <2>2, <2>4, <2>5 DEF AlikeAt
  <2>7. Sorted(k) => Sorted(b[2])
    BY <2>1, <2>3 DEF Sorted
  <2>8. Alike(StructLeaves[b[2]], Flatten[b].columns, Sorted(k))
    BY <2>6, <2>7 DEF Alike
  <2> QED
    BY <2>5, <2>8
<1>5. CASE f.type \notin Messages
  <2>1. f.type \in Leaves /\ in = Leaf(k, f)
    BY <1>1, <1>5 DEF Field, InnerOf
  <2>2. (f.type = "string" => CppValue(home[k], f.size) # 0) /\ f.type # "bytes"
    BY <1>3 DEF Fits
  <2> HIDE DEF f
  <2>3. MembersOf(StructLeaves, k, f) = Stripped(Leaf(k, f).columns)
    BY <1>1, <1>2, <1>5, <2>1, <2>2, LeafMembers
  <2>4. AreColumns(Leaf(k, f).columns) /\ AreSized(Leaf(k, f).columns)
    BY <1>1, <1>2, <2>1, LeafIs DEF FlatOK, Legal
  <2> DEFINE c == Leaf(k, f).columns
  <2>5. /\ AreLeaves(Stripped(c)) /\ SizeOf(Stripped(c)) = SizeOf(c)
    BY <2>4, ColumnsKeep
  <2> HIDE DEF c
  <2>6. Alike(Stripped(c), c, Sorted(k))
    BY <2>4, <2>5 DEF Alike, c
  <2> QED
    BY <2>1, <2>3, <2>6 DEF c, f
<1> QED
  BY <1>4, <1>5

LEMMA AlikeStep ==
  ASSUME Legal, Distinct, NEW at \in Pairs, Flatten[at].ok, Fits(at[1], at[2]),
         \A b \in Pairs : Depth[b] < Depth[at] => AlikeAt(b)
  PROVE  Alike(StructLeaves[at[2]], Flatten[at].columns, Sorted(at[2]))
<1> DEFINE h == at[1]
           k == at[2]
           own == fields[k]
           n == Len(own)
           mem == Members(k)
           Inner(f) == InnerOf(Flatten, at, f).columns
           Leaves2(f) == MembersOf(StructLeaves, k, f)
           a == [i \in DOMAIN own |-> PartOf(at, own[i])]
           b == [i \in DOMAIN mem |-> Spread(CppCopies(k, mem[i]), Leaves2(mem[i]))]
<1>1. h \in DOMAIN Files /\ k \in Messages /\ own \in Seq(Field)
  BY DEF Pairs, Legal, Typed
<1>2. n \in Nat /\ DOMAIN own = 1..n /\ IsSeq(own)
  BY <1>1 DEF IsSeq
<1>3. Flatten[at].columns = FlattenSeq(a)
  BY FlattenParts DEF Legal
<1>4. StructLeaves[k] = FlattenSeq(b)
  BY <1>1, StructIs DEF StructStep
<1>5. FlatOK(Flatten[at])
  BY FlatColumns
<1>6. ASSUME NEW i \in 1..n
      PROVE  /\ CopiesOf(h, own[i]) = CppCopies(k, own[i]) /\ IsSeq(CopiesOf(h, own[i]))
             /\ Alike(Leaves2(own[i]), Inner(own[i]), Sorted(k))
  <2>1. i \in DOMAIN own
    BY <1>2
  <2>2. own[i].repeated => GetEnumValue(h, own[i].count) # 0
    BY <2>1, FlattenParts DEF Legal
  <2>3. CopiesOf(h, own[i]) = CppCopies(k, own[i])
    BY <1>1, <2>1, <2>2, CppCopiesAre
  <2>4. IsSeq(CopiesOf(h, own[i]))
    BY <1>1, CopiesAre DEF Legal
  <2>5. InnerOf(Flatten, at, own[i]).ok
    BY <2>1, FlattenParts DEF Legal
  <2>6. Alike(Leaves2(own[i]), Inner(own[i]), Sorted(k))
    BY <2>1, <2>5, InsideAlike
  <2> QED
    BY <2>3, <2>4, <2>6
<1> HIDE DEF own, Inner, Leaves2
<1>7. ASSUME NEW i \in 1..n
      PROVE  LET s == Spread(CppCopies(k, own[i]), Leaves2(own[i]))
                 t == Spread(CopiesOf(h, own[i]), Inner(own[i]))
             IN  /\ Sized(s) /\ Sized(t) /\ SizeOf(s) = SizeOf(t)
                 /\ \A x \in ToSet(s) : x = Strip(x)
                 /\ Sorted(k) => s = Stripped(t)
  <2> DEFINE c == CopiesOf(h, own[i])
             u == Leaves2(own[i])
             v == Inner(own[i])
  <2>1. IsSeq(c) /\ c = CppCopies(k, own[i])
    BY <1>6
  <2>2. /\ AreLeaves(u) /\ AreColumns(v) /\ AreSized(v) /\ SizeOf(u) = SizeOf(v)
        /\ Sorted(k) => u = Stripped(v)
    BY <1>6 DEF Alike
  <2> HIDE DEF c, u, v
  <2>3. Sized(u) /\ (\A j \in DOMAIN u : Keeps(u[j])) /\ Sized(v) /\ (\A j \in DOMAIN v : Keeps(v[j]))
    BY <2>2, LeavesKeep, ColumnsKeep
  <2>4. /\ Sized(Spread(c, u)) /\ Sized(Spread(c, v))
        /\ SizeOf(Spread(c, u)) = SizeOf(Spread(c, v))
    BY <2>1, <2>2, <2>3, SpreadSize
  <2>5. \A x \in ToSet(Spread(c, u)) : x = Strip(x)
    BY <2>1, <2>2, SpreadLeaves
  <2>6. Sorted(k) => Spread(c, u) = Stripped(Spread(c, v))
    BY <2>1, <2>2, StripSpread
  <2>7. /\ Spread(CppCopies(k, own[i]), Leaves2(own[i])) = Spread(c, u)
        /\ Spread(CopiesOf(h, own[i]), Inner(own[i])) = Spread(c, v)
    BY <2>1 DEF c, u, v
  <2> QED
    BY <2>4, <2>5, <2>6, <2>7
<1>8. IsSeq(mem) /\ Len(mem) = n /\ \E p : Permutes(p, n) /\ \A i \in 1..n : mem[i] = own[p[i]]
  BY <1>1, MembersAre DEF own
<1>9. PICK p : Permutes(p, n) /\ \A i \in 1..n : mem[i] = own[p[i]]
  BY <1>8
<1>10. \A i \in 1..n : p[i] \in 1..n
  BY <1>9 DEF Permutes
<1>11. DOMAIN mem = 1..n
  BY <1>8, SeqIsTuple
<1>12. \A i \in 1..n : a[i] = Spread(CopiesOf(h, own[i]), Inner(own[i]))
  BY <1>2 DEF PartOf, Inner
<1>13. \A i \in 1..n : b[i] = Spread(CppCopies(k, mem[i]), Leaves2(mem[i]))
  BY <1>11
<1>14. IsSeq(a) /\ DOMAIN a = 1..n /\ Len(a) = n /\ IsSeq(b) /\ DOMAIN b = 1..n /\ Len(b) = n
  <2>1. Mapped(a, own) /\ Mapped(b, mem)
    BY DEF Mapped
  <2> HIDE DEF a, b
  <2> QED
    BY <1>2, <1>8, <1>11, <2>1, MappedIsSeq
<1> HIDE DEF a, b, mem, n
<1>15. ASSUME NEW i \in 1..n
       PROVE  /\ Sized(a[i]) /\ Sized(b[i]) /\ SizeOf(b[i]) = SizeOf(a[p[i]])
              /\ \A x \in ToSet(b[i]) : x = Strip(x)
  <2>1. p[i] \in 1..n /\ mem[i] = own[p[i]]
    BY <1>9, <1>10
  <2>2. /\ a[i] = Spread(CopiesOf(h, own[i]), Inner(own[i]))
        /\ a[p[i]] = Spread(CopiesOf(h, own[p[i]]), Inner(own[p[i]]))
        /\ b[i] = Spread(CppCopies(k, own[p[i]]), Leaves2(own[p[i]]))
    BY <1>12, <1>13, <2>1
  <2> QED
    BY <1>7, <2>1, <2>2
<1>16. Parts(a) /\ Parts(b)
  BY <1>14, <1>15 DEF Parts
<1>17. SizeOf(FlattenSeq(a)) = SizeOf(FlattenSeq(b))
  BY <1>9, <1>14, <1>15, <1>16, SizePermuted
<1>18. AreLeaves(FlattenSeq(b))
  <2>1. Sized(FlattenSeq(b))
    BY <1>16, SizeFlatten
  <2>2. \A i \in DOMAIN b : IsSeq(b[i])
    BY <1>14, <1>15 DEF Sized
  <2>3. ToSet(FlattenSeq(b)) = UNION {ToSet(b[i]) : i \in DOMAIN b}
    BY <1>14, <2>2, Flattened
  <2>4. \A x \in ToSet(FlattenSeq(b)) : x = Strip(x)
    BY <1>14, <1>15, <2>3
  <2>5. \A j \in DOMAIN FlattenSeq(b) : FlattenSeq(b)[j] \in ToSet(FlattenSeq(b))
    BY DEF ToSet
  <2> QED
    BY <2>1, <2>4, <2>5 DEF AreLeaves
<1>19. ASSUME Sorted(k) PROVE FlattenSeq(b) = Stripped(FlattenSeq(a))
  <2>1. mem = own
    BY <1>1, <1>19, ReachHas DEF Sorted, Legal, mem, own
  <2>2. \A i \in 1..n : b[i] = Stripped(a[i])
    BY <1>7, <1>12, <1>13, <1>19, <2>1
  <2>3. \A i \in DOMAIN a : IsSeq(a[i])
    BY <1>14, <1>15 DEF Sized
  <2> QED
    BY <1>14, <2>2, <2>3, StripFlatten
<1>20. AreColumns(Flatten[at].columns) /\ AreSized(Flatten[at].columns)
  BY <1>5 DEF FlatOK
<1> QED
  BY <1>3, <1>4, <1>17, <1>18, <1>19, <1>20 DEF Alike

LEMMA AllAlike ==
  ASSUME Legal, Distinct
  PROVE  \A at \in Pairs : AlikeAt(at)
<1> DEFINE T == {at \in Pairs : AlikeAt(at)}
<1>1. \A at \in Pairs : (\A b \in Pairs : Depth[b] < Depth[at] => b \in T) => at \in T
  BY AlikeStep DEF AlikeAt
<1> HIDE DEF T
<1>2. \A at \in Pairs : at \in T
  BY <1>1, DepthIsNat, LevelSet
<1> QED
  BY <1>2 DEF T

LEMMA ReadableFits ==
  ASSUME NEW m, Compiles(m), CountsTravel(m)
  PROVE  Fits(home[m], m)
  BY DEF Fits, Compiles, CountsTravel

\* Where the columns of a message end.
LEMMA EndsOf ==
  ASSUME Legal, Distinct, NEW m \in Messages, GetsThrough(m), Compiles(m), CountsTravel(m)
  PROVE  LET c == Columns(m)
         IN  /\ Alike(StructLeaves[m], c, Sorted(m))
             /\ \E ends : /\ Ends(ends, c, Len(c)) /\ Made(TableMeta(m), c, ends, Len(c))
                          /\ Sums(ends, c)
<1> DEFINE c  == Columns(m)
           at == <<home[m], m>>
<1>1. at \in Pairs /\ at[1] = home[m] /\ at[2] = m
  BY LayoutAssumption DEF LayoutAssumption, Legal, Typed, Pairs
<1>2. Flatten[at].ok /\ c = Flatten[at].columns
  BY DEF GetsThrough, Columns
<1>3. Fits(at[1], at[2])
  BY <1>1, ReadableFits
<1>4. Alike(StructLeaves[m], c, Sorted(m))
  BY <1>1, <1>2, <1>3, AllAlike DEF AlikeAt
<1> HIDE DEF c, at
<1>5. PICK ends : Ends(ends, c, Len(c)) /\ Made(TableMeta(m), c, ends, Len(c))
  BY TableIs DEF c
<1>6. Sums(ends, c)
  BY <1>5 DEF Ends, Sums
<1> QED
  BY <1>4, <1>5, <1>6 DEF c

LEMMA RecordFits ==
  ASSUME Legal, Distinct, NEW m \in Messages, GetsThrough(m), Compiles(m), CountsTravel(m)
  PROVE  TableMeta(m).size = SizeOf(StructLeaves[m])
<1> DEFINE c == Columns(m)
<1>1. Alike(StructLeaves[m], c, Sorted(m))
  BY EndsOf
<1>2. PICK ends : Made(TableMeta(m), c, ends, Len(c)) /\ Sums(ends, c)
  BY EndsOf
<1> HIDE DEF c
<1>3. Sized(c) /\ SizeOf(StructLeaves[m]) = SizeOf(c)
  BY <1>1, ColumnsKeep DEF Alike
<1>4. SizeOf(c) = ends[Len(c)]
  BY <1>2, <1>3, SizeIs
<1> QED
  BY <1>2, <1>3, <1>4 DEF Made

\* Whatever is nested and repeated in it, a record has the size of its struct.
THEOREM RecordFitsStructAlways == Spec => []RecordFitsStruct
<1>1. ASSUME Legal, Distinct PROVE RecordFitsStruct
  BY <1>1, RecordFits DEF RecordFitsStruct
<1> QED
  BY <1>1, MessagesAreLegal, NamesAreDistinct, PTL

LEMMA SizeOfPrefix ==
  ASSUME NEW s, Sized(s), NEW h, Sums(h, s), NEW i \in 1..Len(s)
  PROVE  SizeOf(SubSeq(s, 1, i - 1)) = h[i - 1]
<1> DEFINE n == Len(s)
           t == SubSeq(s, 1, i - 1)
           p == i - 1
<1>1. n \in Nat /\ DOMAIN s = 1..n
  BY SeqIsTuple DEF Sized
<1>2. p \in 0..n /\ p \in Nat /\ p < i
  BY <1>1
<1>3. t = [j \in 1..p |-> s[j]]
  <2>1. PICK E : s \in Seq(E)
    BY DEF Sized, IsSeq
  <2>2. /\ t \in Seq(E) /\ Len(t) = p /\ \A j \in 1..p : t[j] = s[j]
    BY <1>1, <1>2, <2>1, SubSeqProperties
  <2> HIDE DEF t, p
  <2> QED
    BY <2>2
<1> HIDE DEF t, p, n
<1>4. IsTuple(t, p) /\ \A j \in 1..p : t[j] = s[j] /\ j \in 1..n
  BY <1>1, <1>2, <1>3 DEF IsTuple
<1>5. IsSeq(t) /\ DOMAIN t = 1..p /\ Len(t) = p
  BY <1>2, <1>4, TupleIsSeq
<1>6. Sized(t)
  BY <1>1, <1>4, <1>5 DEF Sized
<1>7. Sums(h, t)
  <2>1. h[0] = 0 /\ \A k \in 1..n : h[k] = h[k - 1] + s[k].size
    BY DEF Sums, n
  <2> QED
    BY <1>4, <1>5, <2>1 DEF Sums
<1> QED
  BY <1>5, <1>6, <1>7, SizeIs DEF t, p

\* Without clashes every column has its own entry.
LEMMA EntryOf ==
  ASSUME NEW c, NEW n \in Nat, NEW table, NEW ends, Made(table, c, ends, n), NEW i \in 1..n,
         \A a, b \in 1..n : c[a].name = c[b].name => a = b
  PROVE  table.meta[c[i].name] = Entry(c, ends, i)
<1>1. c[i].name \in DOMAIN table.meta
  BY DEF Made
<1>2. PICK j \in 1..n : IsFirst(c, n, j, c[i].name) /\ table.meta[c[i].name] = Entry(c, ends, j)
  BY <1>1 DEF Made
<1>3. j = i
  BY <1>2 DEF IsFirst
<1> QED
  BY <1>2, <1>3

\* Messages whose fields are in the order of their names are read member by
\* member: a column is where the struct has its member.
THEOREM SortedRecordsAlways == Spec => []SortedRecordsAreStructs
<1>1. ASSUME Legal, Distinct PROVE SortedRecordsAreStructs
  <2> SUFFICES ASSUME NEW m \in Messages, Readable(m), \A k \in Reach[m] : Members(k) = fields[k],
                      NEW i \in DOMAIN StructLeaves[m]
               PROVE  TableMeta(m).meta[StructLeaves[m][i].name].offset
                        = SizeOf(SubSeq(StructLeaves[m], 1, i - 1))
    BY DEF SortedRecordsAreStructs, FitsMemberwise
  <2> DEFINE c == Columns(m)
             n == Len(c)
             s == StructLeaves[m]
             t == TableMeta(m)
  <2>1. GetsThrough(m) /\ Compiles(m) /\ CountsTravel(m) /\ NoClash(m) /\ Sorted(m)
    BY DEF Readable, Sorted
  <2>2. Alike(s, c, Sorted(m))
    BY <1>1, <2>1, EndsOf
  <2>3. PICK ends : Made(t, c, ends, n) /\ Sums(ends, c)
    BY <1>1, <2>1, EndsOf
  <2>4. \A a, b \in DOMAIN c : c[a].name = c[b].name => a = b
    BY <2>1 DEF NoClash, ColumnNames, Columns, IsInjective
  <2> HIDE DEF c, n, s, t
  <2>5. /\ AreLeaves(s) /\ AreColumns(c) /\ AreSized(c) /\ s = Stripped(c)
    BY <2>1, <2>2 DEF Alike
  <2>6. Len(s) = n /\ Sized(s) /\ Sized(c)
    BY <2>5, ColumnsKeep DEF AreLeaves, n
  <2>7. n \in Nat /\ DOMAIN c = 1..n /\ DOMAIN s = 1..n
    BY <2>6, SeqIsTuple DEF Sized, n
  <2>8. \A j \in 1..n : s[j].name = c[j].name /\ s[j].size = c[j].size
    <3>1. \A x : Strip(x).name = x.name /\ Strip(x).size = x.size
      BY DEF Strip
    <3>2. \A j \in 1..n : s[j] = Strip(c[j])
      BY <2>5, <2>7 DEF Stripped
    <3> QED
      BY <3>1, <3>2
  <2>9. i \in 1..n
    BY <2>7 DEF s
  <2>10. t.meta[c[i].name] = Entry(c, ends, i)
    BY <2>3, <2>4, <2>7, <2>9, EntryOf
  <2>11. t.meta[s[i].name].offset = ends[i - 1]
    BY <2>8, <2>9, <2>10 DEF Entry
  <2>12. Sums(ends, s)
    <3>1. ends[0] = 0 /\ \A k \in 1..n : ends[k] = ends[k - 1] + c[k].size
      BY <2>3 DEF Sums, n
    <3> QED
      BY <2>6, <2>8, <3>1 DEF Sums
  <2>13. SizeOf(SubSeq(s, 1, i - 1)) = ends[i - 1]
    BY <2>6, <2>9, <2>12, SizeOfPrefix
  <2> QED
    BY <2>11, <2>13 DEF s, t
<1> QED
  BY <1>1, MessagesAreLegal, NamesAreDistinct, PTL

-----------------------------------------------------------------------------
(* The meta data of a message are its fields' in order.                    *)

Metas == INSTANCE Recursion WITH Step <- CreateFieldMeta

LEMMA AppendIs ==
  ASSUME NEW n \in Nat, NEW h, IsTuple(h, n), NEW e
  PROVE  /\ IsTuple(Append(h, e), n + 1) /\ Append(h, e)[n + 1] = e
         /\ \A i \in 1..n : Append(h, e)[i] = h[i]
         /\ h = <<>> <=> n = 0
         /\ Last(h) = h[n]
<1>1. IsSeq(h) /\ DOMAIN h = 1..n /\ Len(h) = n
  BY TupleIsSeq
<1>2. PICK D : h \in Seq(D)
  BY <1>1 DEF IsSeq
<1> DEFINE E == D \cup {e}
           a == Append(h, e)
<1>3. h \in Seq(E) /\ e \in E
  BY <1>2
<1> HIDE DEF E
<1>4. /\ a \in Seq(E) /\ Len(a) = n + 1
      /\ \A i \in 1..n : a[i] = h[i]
      /\ a[n + 1] = e
  BY <1>1, <1>3, AppendProperties
<1> HIDE DEF a
<1>5. IsTuple(a, n + 1)
  <2>1. a = [k \in 1..Len(a) |-> a[k]]
    BY <1>4
  <2> QED
    BY <1>4, <2>1 DEF IsTuple
<1>6. h = <<>> <=> n = 0
  BY <1>1, <1>3, EmptySeq
<1>7. Last(h) = h[n]
  BY <1>1 DEF Last
<1> QED
  BY <1>4, <1>5, <1>6, <1>7 DEF a

\* A field's meta data but for its offset; the offset after meta.
SameMeta(meta, g) ==
  /\ meta.name = g.name /\ meta.type = g.type /\ meta.size = g.size
  /\ meta.count = g.count /\ meta.repeated = g.repeated

After(meta) == meta.offset + meta.count * meta.size

\* metas describes the first n of given.
Describes(metas, given, n) ==
  /\ IsTuple(metas, n)
  /\ \A i \in 1..n : /\ SameMeta(metas[i], given[i])
                     /\ metas[i].offset = IF i = 1 THEN 0 ELSE After(metas[i - 1])

LEMMA DescribeStep ==
  ASSUME NEW n \in Nat, NEW given, NEW metas, Describes(metas, given, n)
  PROVE  Describes(CreateFieldMeta(metas, given[n + 1]), given, n + 1)
<1> DEFINE g == given[n + 1]
           o == IF metas = <<>> THEN 0 ELSE Last(metas).offset + Last(metas).count * Last(metas).size
           e == [name |-> g.name, type |-> g.type, size |-> g.size, count |-> g.count,
                 repeated |-> g.repeated, offset |-> o]
           new == Append(metas, e)
<1>1. CreateFieldMeta(metas, given[n + 1]) = new
  BY DEF CreateFieldMeta
<1>2. SameMeta(e, g) /\ e.offset = o
  BY DEF SameMeta
<1>3. IsTuple(metas, n)
  BY DEF Describes
<1>4. o = IF n = 0 THEN 0 ELSE After(metas[n])
  BY <1>3, AppendIs DEF After
<1> HIDE DEF e, o
<1>5. /\ IsTuple(new, n + 1) /\ new[n + 1] = e
      /\ \A i \in 1..n : new[i] = metas[i]
  BY <1>3, AppendIs
<1> HIDE DEF new, g
<1>6. ASSUME NEW i \in 1..(n + 1)
      PROVE  /\ SameMeta(new[i], given[i])
             /\ new[i].offset = IF i = 1 THEN 0 ELSE After(new[i - 1])
  <2>1. CASE i = n + 1
    <3>1. i - 1 = n /\ (i # 1 => n \in 1..n) /\ (i = 1 <=> n = 0)
      BY <2>1
    <3>2. new[i] = e /\ given[i] = g
      BY <1>5, <2>1 DEF g
    <3>3. i # 1 => new[i - 1] = metas[n]
      BY <1>5, <3>1
    <3> QED
      BY <1>2, <1>4, <3>1, <3>2, <3>3
  <2>2. CASE i # n + 1
    <3>1. i \in 1..n /\ (i # 1 => i - 1 \in 1..n)
      BY <2>2
    <3>2. new[i] = metas[i] /\ (i # 1 => new[i - 1] = metas[i - 1])
      BY <1>5, <3>1
    <3> QED
      BY <3>1, <3>2 DEF Describes
  <2> QED
    BY <2>1, <2>2
<1> QED
  BY <1>1, <1>5, <1>6 DEF Describes

LEMMA MetasAre ==
  ASSUME NEW given, IsSeq(given)
  PROVE  Describes(FoldLeft(CreateFieldMeta, <<>>, given), given, Len(given))
<1> DEFINE n == Len(given)
           none == <<>>
<1>1. \A base, seq : FoldLeft(CreateFieldMeta, base, seq) = Metas!Fold(base, seq)
  BY DEF FoldLeft, MapThenFoldSet, Max, Metas!Fold, Metas!FoldOf, Metas!Max
<1>2. PICK E : given \in Seq(E)
  BY DEF IsSeq
<1>3. n \in Nat
  BY SeqIsTuple
<1>4. Describes(none, given, 0)
  <2>1. IsTuple(none, 0)
    BY DEF IsTuple
  <2> QED
    BY <2>1 DEF Describes
<1> HIDE DEF none
<1>5. PICK h : /\ h[0] = none
               /\ \A k \in 1..Len(given) : h[k] = CreateFieldMeta(h[k - 1], given[k])
               /\ h[Len(given)] = Metas!Fold(none, given)
  BY <1>2, NatSet, Metas!FoldLeftIs DEF Metas!Induction
<1> DEFINE T == {k \in Nat : k <= n => Describes(h[k], given, k)}
<1> HIDE DEF n
<1>6. 0 \in T
  BY <1>4, <1>5
<1>7. ASSUME NEW k \in T PROVE k + 1 \in T
  <2>1. k \in Nat /\ (k <= n => Describes(h[k], given, k))
    OBVIOUS
  <2>2. SUFFICES ASSUME k + 1 <= n PROVE Describes(h[k + 1], given, k + 1)
    BY <2>1
  <2>3. k <= n /\ k + 1 \in 1..n /\ (k + 1) - 1 = k
    BY <1>3, <2>1, <2>2
  <2>4. h[k + 1] = CreateFieldMeta(h[k], given[k + 1])
    BY <1>5, <2>3 DEF n
  <2> QED
    BY <2>1, <2>3, <2>4, DescribeStep
<1>8. n \in T
  <2>1. T \in SUBSET Nat
    OBVIOUS
  <2> HIDE DEF T
  <2> QED
    BY <1>3, <1>6, <1>7, <2>1, NatSet
<1> QED
  BY <1>1, <1>3, <1>5, <1>8 DEF n, none

\* The meta data of m, seen from a file.
MetasOf(file, m) == MessageMeta(file, m).metas

LEMMA MetaIs ==
  ASSUME NEW file, NEW m, IsSeq(fields[m])
  PROVE  LET metas == MetasOf(file, m)
             own   == fields[m]
         IN  /\ IsSeq(metas) /\ DOMAIN metas = DOMAIN own
             /\ \A i \in DOMAIN own :
                  /\ metas[i].name = own[i].name /\ metas[i].type = own[i].type
                  /\ metas[i].size = GetTypeSize(m, own[i])
                  /\ metas[i].count = MetaCount(file, own[i])
                  /\ metas[i].repeated = (own[i].count # NoOption)
                  /\ metas[i].offset = IF i = 1 THEN 0 ELSE After(metas[i - 1])
<1> DEFINE own   == fields[m]
           n     == Len(own)
           given == [i \in DOMAIN own |-> FieldMeta(file, m, own[i])]
           metas == MetasOf(file, m)
<1>1. n \in Nat /\ DOMAIN own = 1..n
  BY SeqIsTuple
<1>2. metas = FoldLeft(CreateFieldMeta, <<>>, given)
  BY DEF MetasOf, MessageMeta
<1>3. Mapped(given, own)
  BY DEF Mapped
<1>4. \A i \in DOMAIN own : given[i] = FieldMeta(file, m, own[i])
  OBVIOUS
<1> HIDE DEF given, metas
<1>5. IsSeq(given) /\ Len(given) = n
  BY <1>3, MappedIsSeq
<1>6. Describes(metas, given, n)
  BY <1>2, <1>5, MetasAre
<1> HIDE DEF n
<1>7. IsSeq(metas) /\ DOMAIN metas = 1..n
  BY <1>1, <1>6, TupleIsSeq DEF Describes
<1> HIDE DEF own
<1>8. ASSUME NEW i \in 1..n
      PROVE  /\ metas[i].name = own[i].name /\ metas[i].type = own[i].type
             /\ metas[i].size = GetTypeSize(m, own[i])
             /\ metas[i].count = MetaCount(file, own[i])
             /\ metas[i].repeated = (own[i].count # NoOption)
             /\ metas[i].offset = IF i = 1 THEN 0 ELSE After(metas[i - 1])
  <2>1. SameMeta(metas[i], FieldMeta(file, m, own[i]))
    BY <1>1, <1>4, <1>6 DEF Describes
  <2>2. metas[i].offset = IF i = 1 THEN 0 ELSE After(metas[i - 1])
    BY <1>6 DEF Describes
  <2> QED
    BY <2>1, <2>2 DEF SameMeta, FieldMeta
<1> QED
  BY <1>1, <1>7, <1>8 DEF own, metas

-----------------------------------------------------------------------------
(* MessageSize is what its definition says.                                *)

\* GetTypeSize of a field, if F is MessageSize below it.
SizeIn(F, m, f) == IF f.type \in Messages THEN F[f.type] ELSE LeafSize(m, f)

SizesStep(F, m) == SizeOf([i \in DOMAIN fields[m] |-> [size |-> SizeIn(F, m, fields[m][i])]])

Totals == INSTANCE Recursion WITH Step <- SizesStep

LEMMA MessageSizeIs ==
  ASSUME Nested
  PROVE  \A m \in Messages : MessageSize[m] = SizesStep(MessageSize, m)
<1>1. ASSUME NEW F, NEW G, NEW m \in Messages,
             \A k \in Messages : Level[k] < Level[m] => F[k] = G[k]
      PROVE  SizesStep(F, m) = SizesStep(G, m)
  <2>1. \A i \in DOMAIN fields[m] : SizeIn(F, m, fields[m][i]) = SizeIn(G, m, fields[m][i])
    BY <1>1 DEF Nested, SizeIn
  <2> QED
    BY <2>1 DEF SizesStep
<1>2. Totals!Local(Messages, Level)
  BY <1>1 DEF Totals!Local
<1>3. Level \in [Messages -> Nat]
  BY LayoutAssumption DEF LayoutAssumption
<1>4. \E F : F = [m \in Messages |-> SizesStep(F, m)]
  BY <1>2, <1>3, NatSet, Totals!Defined DEF Totals!Induction
<1>5. MessageSize = CHOOSE F : F = [m \in Messages |-> SizesStep(F, m)]
  BY DEF MessageSize, SizesStep, SizeIn
<1>6. MessageSize = [m \in Messages |-> SizesStep(MessageSize, m)]
  BY <1>4, <1>5
<1> QED
  BY <1>6

LEMMA SizePositive ==
  ASSUME NEW s, Sized(s), DOMAIN s # {}, \A i \in DOMAIN s : s[i].size # 0
  PROVE  SizeOf(s) # 0
<1> DEFINE n == Len(s)
<1>1. n \in Nat /\ DOMAIN s = 1..n
  BY SeqIsTuple DEF Sized
<1>2. PICK h : Sums(h, s) /\ h[n] = SizeOf(s)
  BY SizeSteps DEF Sized
<1>3. \A k \in 0..n : h[k] \in Nat
  BY <1>2, SizeIs
<1> HIDE DEF n
<1>4. n \in 1..n /\ n - 1 \in 0..n
  BY <1>1
<1>5. h[n] = h[n - 1] + s[n].size /\ s[n].size \in Nat \ {0} /\ h[n - 1] \in Nat
  BY <1>1, <1>2, <1>3, <1>4 DEF Sums, Sized, n
<1> QED
  BY <1>2, <1>5

\* The sizes of the fields of m.
OwnSizes(m) == [i \in DOMAIN fields[m] |-> [size |-> GetTypeSize(m, fields[m][i])]]

LEMMA MessageSizes ==
  ASSUME Legal
  PROVE  \A m \in Messages : /\ MessageSize[m] = SizeOf(OwnSizes(m))
                             /\ Sized(OwnSizes(m)) /\ Len(OwnSizes(m)) = Len(fields[m])
                             /\ DOMAIN OwnSizes(m) = DOMAIN fields[m]
                             /\ \A i \in DOMAIN fields[m] :
                                  OwnSizes(m)[i].size = GetTypeSize(m, fields[m][i])
<1>1. ASSUME NEW m \in Messages
      PROVE  /\ MessageSize[m] = SizeOf(OwnSizes(m)) /\ IsSeq(OwnSizes(m))
             /\ DOMAIN OwnSizes(m) = DOMAIN fields[m] /\ Len(OwnSizes(m)) = Len(fields[m])
             /\ \A i \in DOMAIN fields[m] : OwnSizes(m)[i].size = GetTypeSize(m, fields[m][i])
  <2>1. MessageSize[m] = SizeOf(OwnSizes(m))
    BY MessageSizeIs DEF Legal, SizesStep, SizeIn, OwnSizes, GetTypeSize
  <2>2. Mapped(OwnSizes(m), fields[m])
    BY DEF Mapped, OwnSizes
  <2>3. IsSeq(fields[m])
    BY DEF Legal, Typed, IsSeq
  <2>4. \A i \in DOMAIN fields[m] : OwnSizes(m)[i].size = GetTypeSize(m, fields[m][i])
    BY DEF OwnSizes
  <2> QED
    BY <2>1, <2>2, <2>3, <2>4, MappedIsSeq
<1> DEFINE T == {m \in Messages : Sized(OwnSizes(m))}
<1>2. ASSUME NEW m \in Messages, \A k \in Messages : Level[k] < Level[m] => k \in T
      PROVE  m \in T
  <2>1. ASSUME NEW i \in DOMAIN fields[m] PROVE GetTypeSize(m, fields[m][i]) \in Nat
    <3> DEFINE f == fields[m][i]
    <3>1. f \in Field
      BY DEF Legal, Typed
    <3>2. CASE f.type \in Messages
      <4>1. f.type \in T
        BY <1>2, <3>2 DEF Legal, Nested
      <4>2. SizeOf(OwnSizes(f.type)) \in Nat
        <5>1. PICK h : Sums(h, OwnSizes(f.type))
          BY <4>1, SizeSteps DEF Sized
        <5> QED
          BY <4>1, <5>1, SizeIs
      <4> QED
        BY <1>1, <3>2, <4>2 DEF GetTypeSize
    <3>3. CASE f.type \notin Messages
      <4>1. f.type \in Leaves
        BY <3>1, <3>3 DEF Field
      <4>2. LeafSize(m, f) \in Nat
        BY <4>1, LeafSizeIsNat DEF Legal
      <4> QED
        BY <3>3, <4>2 DEF GetTypeSize
    <3> QED
      BY <3>2, <3>3
  <2> QED
    BY <1>1, <2>1 DEF Sized
<1> HIDE DEF T
<1>3. Level \in [Messages -> Nat]
  BY LayoutAssumption DEF LayoutAssumption
<1>4. \A m \in Messages : m \in T
  BY <1>2, <1>3, LevelSet
<1> QED
  BY <1>1, <1>4 DEF T

\* The numbers of meta data are natural.
LEMMA MetaNumbers ==
  ASSUME Legal, NEW file \in DOMAIN Files, NEW m \in Messages
  PROVE  \A i \in DOMAIN MetasOf(file, m) :
           LET g == MetasOf(file, m)[i]
           IN  g.size \in Nat /\ g.count \in Nat /\ g.offset \in Nat
<1> DEFINE own   == fields[m]
           n     == Len(own)
           metas == MetasOf(file, m)
<1>1. IsSeq(own)
  BY DEF Legal, Typed, IsSeq
<1>2. n \in Nat /\ DOMAIN own = 1..n
  BY <1>1, SeqIsTuple
<1>3. /\ DOMAIN metas = 1..n
      /\ \A i \in 1..n : /\ metas[i].size = GetTypeSize(m, own[i])
                         /\ metas[i].count = MetaCount(file, own[i])
                         /\ metas[i].offset = IF i = 1 THEN 0 ELSE After(metas[i - 1])
  BY <1>1, <1>2, MetaIs
<1>4. \A i \in 1..n : GetTypeSize(m, own[i]) \in Nat
  <2>1. Sized(OwnSizes(m)) /\ DOMAIN OwnSizes(m) = DOMAIN own
    BY MessageSizes
  <2>2. \A i \in DOMAIN own : OwnSizes(m)[i].size = GetTypeSize(m, own[i])
    BY MessageSizes
  <2> QED
    BY <1>2, <2>1, <2>2 DEF Sized
<1>5. \A i \in 1..n : MetaCount(file, own[i]) \in Nat
  <2>1. \A name : GetEnumValue(file, name) \in Nat
    BY ValueIsNat DEF Legal, Typed
  <2> QED
    BY <2>1 DEF MetaCount
<1> HIDE DEF n, own, metas
<1> DEFINE T == {k \in Nat : k + 1 <= n => metas[k + 1].offset \in Nat}
<1>6. 0 \in T
  BY <1>2, <1>3
<1>7. ASSUME NEW k \in T PROVE k + 1 \in T
  <2>1. SUFFICES ASSUME (k + 1) + 1 <= n PROVE metas[(k + 1) + 1].offset \in Nat
    OBVIOUS
  <2>2. /\ k \in Nat /\ k + 1 \in 1..n /\ (k + 1) + 1 \in 1..n /\ (k + 1) + 1 # 1
        /\ ((k + 1) + 1) - 1 = k + 1 /\ k + 1 <= n
    BY <1>2, <2>1
  <2>3. metas[k + 1].offset \in Nat /\ metas[k + 1].size \in Nat /\ metas[k + 1].count \in Nat
    BY <1>3, <1>4, <1>5, <2>2
  <2>4. metas[(k + 1) + 1].offset = After(metas[k + 1])
    BY <1>3, <2>2
  <2>5. \A a, b, c \in Nat : a + b * c \in Nat
    OBVIOUS
  <2> QED
    BY <2>3, <2>4, <2>5 DEF After
<1>8. \A k \in Nat : k \in T
  <2>1. T \in SUBSET Nat
    OBVIOUS
  <2> HIDE DEF T
  <2> QED
    BY <1>6, <1>7, <2>1, NatSet
<1>9. \A i \in 1..n : metas[i].offset \in Nat
  <2> TAKE i \in 1..n
  <2>1. i - 1 \in Nat /\ (i - 1) + 1 = i /\ i <= n
    BY <1>2
  <2>2. i - 1 \in T
    BY <1>8, <2>1
  <2> QED
    BY <2>1, <2>2
<1> QED
  BY <1>3, <1>4, <1>5, <1>9 DEF metas

-----------------------------------------------------------------------------
(* JsonColumns is what its definition says.                                *)

\* What is asked for inside a field of this type, if F is JsonColumns below it.
JsonInner(F, at, type) ==
  IF type \in Messages THEN F[<<at[1], type>>] ELSE [ok |-> TRUE, names |-> {""}]

JsonPart(meta, inner) == {Concat(c, n) : c \in ToSet(JsonNames(meta)), n \in inner.names}

JsonStep(F, at) ==
  LET metas == MetasOf(at[1], at[2])
  IN  IF ~MessageMeta(at[1], at[2]).ok THEN [ok |-> FALSE, names |-> {}]
      ELSE [ok    |-> \A i \in DOMAIN metas : JsonInner(F, at, metas[i].type).ok,
            names |-> UNION {JsonPart(metas[i], JsonInner(F, at, metas[i].type)) :
                               i \in DOMAIN metas}]

Sheets == INSTANCE Recursion WITH Step <- JsonStep

LEMMA JsonIs ==
  ASSUME Legal
  PROVE  \A at \in Pairs : JsonColumns[at] = JsonStep(JsonColumns, at)
<1>1. ASSUME NEW F, NEW G, NEW at \in Pairs,
             \A b \in Pairs : Depth[b] < Depth[at] => F[b] = G[b]
      PROVE  JsonStep(F, at) = JsonStep(G, at)
  <2> DEFINE own   == fields[at[2]]
             metas == MetasOf(at[1], at[2])
  <2>1. at[1] \in DOMAIN Files /\ at[2] \in Messages /\ IsSeq(own)
    BY DEF Pairs, Legal, Typed, IsSeq
  <2>2. DOMAIN metas = DOMAIN own /\ \A i \in DOMAIN own : metas[i].type = own[i].type
    BY <2>1, MetaIs
  <2> HIDE DEF metas
  <2>3. ASSUME NEW i \in DOMAIN metas
        PROVE  JsonInner(F, at, metas[i].type) = JsonInner(G, at, metas[i].type)
    <3> DEFINE type == own[i].type
    <3>1. metas[i].type = type
      BY <2>2
    <3>2. CASE type \in Messages
      <4> DEFINE b == <<at[1], type>>
      <4>1. b \in Pairs /\ b[2] = type
        BY <2>1, <3>2 DEF Pairs
      <4>2. Depth[b] < Depth[at]
        BY <2>1, <2>2, <3>2, <4>1, DepthIsNat DEF Legal, Nested
      <4>3. F[b] = G[b]
        BY <1>1, <4>1, <4>2
      <4> HIDE DEF type
      <4> QED
        BY <3>1, <3>2, <4>3 DEF JsonInner
    <3>3. CASE type \notin Messages
      BY <3>1, <3>3 DEF JsonInner
    <3> QED
      BY <3>2, <3>3
  <2>4. {JsonPart(metas[i], JsonInner(F, at, metas[i].type)) : i \in DOMAIN metas}
          = {JsonPart(metas[i], JsonInner(G, at, metas[i].type)) : i \in DOMAIN metas}
    BY <2>3
  <2>5. (\A i \in DOMAIN metas : JsonInner(F, at, metas[i].type).ok)
          = (\A i \in DOMAIN metas : JsonInner(G, at, metas[i].type).ok)
    BY <2>3
  <2> QED
    BY <2>4, <2>5 DEF JsonStep, metas
<1>2. Sheets!Local(Pairs, Depth)
  BY <1>1 DEF Sheets!Local
<1>3. \E F : F = [at \in Pairs |-> JsonStep(F, at)]
  BY <1>2, DepthIsNat, NatSet, Sheets!Defined DEF Sheets!Induction
<1>4. JsonColumns = CHOOSE F : F = [at \in Pairs |-> JsonStep(F, at)]
  BY DEF JsonColumns, JsonStep, JsonPart, JsonInner, MetasOf, Pairs
<1>5. JsonColumns = [at \in Pairs |-> JsonStep(JsonColumns, at)]
  BY <1>3, <1>4
<1> QED
  BY <1>5

-----------------------------------------------------------------------------
(* The two formats ask for the same columns.                               *)

\* What SameSheet supposes of the messages k is made of.
Regular(k) ==
  \A j \in Reach[k] : /\ fields[j] # <<>>
                      /\ \A f \in FieldsOf(j) : f.count # NoOption => f.repeated

Headings(columns) == {columns[i].name : i \in DOMAIN columns}

SheetAt(at) ==
  Regular(at[2]) => /\ JsonColumns[at].ok <=> Flatten[at].ok
                    /\ Flatten[at].ok => MessageSize[at[2]] # 0
                    /\ JsonColumns[at].ok =>
                         JsonColumns[at].names = Headings(Flatten[at].columns)

LEMMA LeafHeading ==
  ASSUME Legal, NEW k \in Messages, NEW f, f.type \in Leaves
  PROVE  /\ Leaf(k, f).ok <=> LeafSize(k, f) # 0
         /\ Headings(Leaf(k, f).columns) = {""}
<1> DEFINE c == Leaf(k, f).columns
           e == [name |-> "", type |-> f.type, size |-> LeafSize(k, f)]
<1>1. Leaf(k, f).ok <=> LeafSize(k, f) # 0
  BY DEF Leaf
<1>2. DOMAIN c = {1} /\ c[1] = e
  BY LeafIs DEF Legal
<1>3. e.name = ""
  OBVIOUS
<1> HIDE DEF c, e
<1>4. Headings(c) = {""}
  BY <1>2, <1>3 DEF Headings
<1> QED
  BY <1>1, <1>4 DEF c

\* Inside a field they are, if they are at lower levels.
LEMMA InsideSheet ==
  ASSUME Legal, NEW at \in Pairs, Regular(at[2]), NEW i \in DOMAIN fields[at[2]],
         \A b \in Pairs : Depth[b] < Depth[at] => SheetAt(b)
  PROVE  LET f    == fields[at[2]][i]
             flat == InnerOf(Flatten, at, f)
             json == JsonInner(JsonColumns, at, f.type)
         IN  /\ flat.ok => GetTypeSize(at[2], f) # 0
             /\ flat.ok => json.ok
             /\ (json.ok /\ GetTypeSize(at[2], f) # 0) => flat.ok
             /\ flat.ok => json.names = Headings(flat.columns)
<1> DEFINE k    == at[2]
           f    == fields[k][i]
           flat == InnerOf(Flatten, at, f)
           json == JsonInner(JsonColumns, at, f.type)
<1>1. at[1] \in DOMAIN Files /\ k \in Messages /\ f \in Field
  BY DEF Pairs, Legal, Typed
<1>2. CASE f.type \in Messages
  <2> DEFINE b == <<at[1], f.type>>
  <2>1. b \in Pairs /\ b[1] = at[1] /\ b[2] = f.type
    BY <1>1, <1>2 DEF Pairs
  <2>2. Depth[b] < Depth[at]
    BY <1>1, <1>2, <2>1, DepthIsNat DEF Legal, Nested
  <2>3. Reach[f.type] \subseteq Reach[k]
    BY <1>1, <1>2, ReachHas DEF Legal
  <2>4. Regular(b[2])
    BY <2>1, <2>3 DEF Regular
  <2>5. SheetAt(b)
    BY <2>1, <2>2
  <2> HIDE DEF f
  <2>6. flat = Flatten[b] /\ json = JsonColumns[b] /\ GetTypeSize(k, f) = MessageSize[b[2]]
    BY <1>2, <2>1 DEF InnerOf, JsonInner, GetTypeSize
  <2> HIDE DEF b, flat, json
  <2>7. /\ flat.ok => GetTypeSize(k, f) # 0
        /\ json.ok <=> flat.ok
        /\ json.ok => json.names = Headings(flat.columns)
    BY <2>4, <2>5, <2>6 DEF SheetAt
  <2> QED
    BY <2>7 DEF flat, json, f
<1>3. CASE f.type \notin Messages
  <2>1. f.type \in Leaves
    BY <1>1, <1>3 DEF Field
  <2> HIDE DEF f
  <2>2. flat = Leaf(k, f) /\ GetTypeSize(k, f) = LeafSize(k, f)
    BY <1>3 DEF InnerOf, GetTypeSize
  <2>3. json.ok /\ json.names = {""}
    BY <1>3 DEF JsonInner
  <2>4. (flat.ok <=> GetTypeSize(k, f) # 0) /\ Headings(flat.columns) = {""}
    BY <1>1, <2>1, <2>2, LeafHeading
  <2> HIDE DEF flat, json
  <2> QED
    BY <2>3, <2>4 DEF flat, json, f
<1> QED
  BY <1>2, <1>3

LEMMA NameUnder ==
  ASSUME NEW c, IsColumn(c), NEW x
  PROVE  Under(x, c).name = Concat(x, c.name)
<1> DEFINE y == Concat(x, c.name)
<1>1. c = [name |-> c.name, type |-> c.type, size |-> c.size]
  BY DEF IsColumn
<1>2. Under(x, c) = [c EXCEPT !.name = y]
  BY DEF Under
<1> HIDE DEF y
<1>3. Under(x, c) = [name |-> y, type |-> c.type, size |-> c.size]
  BY <1>1, <1>2
<1> QED
  BY <1>3 DEF y

LEMMA SpreadHeadings ==
  ASSUME NEW copies, IsSeq(copies), NEW inner, AreColumns(inner)
  PROVE  /\ IsSeq(Spread(copies, inner))
         /\ Headings(Spread(copies, inner))
              = {Concat(x, n) : x \in ToSet(copies), n \in Headings(inner)}
<1> DEFINE s == Spread(copies, inner)
<1>1. IsSeq(inner)
  BY DEF AreColumns
<1>2. /\ IsSeq(s)
      /\ \A x : x \in ToSet(s) <=>
                  \E i \in DOMAIN copies, j \in DOMAIN inner : x = Under(copies[i], inner[j])
  BY <1>1, SpreadIs
<1> HIDE DEF s
<1>3. \A j \in DOMAIN inner : \A x : Under(x, inner[j]).name = Concat(x, inner[j].name)
  BY NameUnder DEF AreColumns
<1>4. Headings(s) = {x.name : x \in ToSet(s)}
  BY DEF Headings, ToSet
<1>5. ASSUME NEW y
      PROVE  y \in Headings(s) <=>
               \E i \in DOMAIN copies, j \in DOMAIN inner : y = Concat(copies[i], inner[j].name)
  BY <1>2, <1>3, <1>4
<1> DEFINE made == {Concat(x, n) : x \in ToSet(copies), n \in Headings(inner)}
<1>6. ASSUME NEW y
      PROVE  y \in made <=>
               \E i \in DOMAIN copies, j \in DOMAIN inner : y = Concat(copies[i], inner[j].name)
  BY DEF ToSet, Headings
<1> HIDE DEF made
<1>7. Headings(s) = made
  BY <1>5, <1>6
<1> QED
  BY <1>2, <1>7 DEF s, made

LEMMA FlatHeadings ==
  ASSUME NEW parts, IsSeq(parts), \A i \in DOMAIN parts : IsSeq(parts[i])
  PROVE  Headings(FlattenSeq(parts)) = UNION {Headings(parts[i]) : i \in DOMAIN parts}
<1>1. \A s : Headings(s) = {x.name : x \in ToSet(s)}
  BY DEF Headings, ToSet
<1>2. ToSet(FlattenSeq(parts)) = UNION {ToSet(parts[i]) : i \in DOMAIN parts}
  BY Flattened
<1> DEFINE c == FlattenSeq(parts)
<1> HIDE DEF c
<1>3. ASSUME NEW y
      PROVE  y \in Headings(c) <=> \E i \in DOMAIN parts : y \in Headings(parts[i])
  BY <1>1, <1>2 DEF c
<1> QED
  BY <1>3 DEF c

\* What Flatten finds inside a field.
LEMMA InsideColumns ==
  ASSUME Legal, NEW at \in Pairs, NEW i \in DOMAIN fields[at[2]]
  PROVE  FlatOK(InnerOf(Flatten, at, fields[at[2]][i]))
<1> DEFINE f == fields[at[2]][i]
<1>1. at[1] \in DOMAIN Files /\ at[2] \in Messages /\ f \in Field
  BY DEF Pairs, Legal, Typed
<1>2. CASE f.type \in Messages
  <2>1. <<at[1], f.type>> \in Pairs
    BY <1>1, <1>2 DEF Pairs
  <2> QED
    BY <1>2, <2>1, FlatColumns DEF InnerOf
<1>3. CASE f.type \notin Messages
  <2>1. f.type \in Leaves
    BY <1>1, <1>3 DEF Field
  <2> QED
    BY <1>1, <1>3, <2>1, LeafIs DEF InnerOf, Legal
<1> QED
  BY <1>2, <1>3

\* A count that is there means the same for both formats.
LEMMA CountsSame ==
  ASSUME NEW file, NEW f, f.repeated \in BOOLEAN, f.count # NoOption => f.repeated
  PROVE  /\ (f.repeated => GetEnumValue(file, f.count) # 0)
              <=> ((f.repeated => f.count # NoOption) /\ MetaCount(file, f) # 0)
         /\ (f.repeated => GetEnumValue(file, f.count) # 0)
              => /\ f.repeated <=> f.count # NoOption
                 /\ f.repeated => MetaCount(file, f) = GetEnumValue(file, f.count)
<1>1. f.count = NoOption => GetEnumValue(file, f.count) = 0
  BY DEF GetEnumValue
<1>2. MetaCount(file, f) = IF f.count = NoOption THEN 1 ELSE GetEnumValue(file, f.count)
  BY DEF MetaCount
<1>3. CASE f.count = NoOption
  BY <1>1, <1>2, <1>3
<1>4. CASE f.count # NoOption
  BY <1>2, <1>4
<1> QED
  BY <1>3, <1>4

LEMMA SheetStep ==
  ASSUME Legal, NEW at \in Pairs, Regular(at[2]),
         \A b \in Pairs : Depth[b] < Depth[at] => SheetAt(b)
  PROVE  /\ JsonColumns[at].ok <=> Flatten[at].ok
         /\ Flatten[at].ok => MessageSize[at[2]] # 0
         /\ JsonColumns[at].ok => JsonColumns[at].names = Headings(Flatten[at].columns)
<1> DEFINE h       == at[1]
           k       == at[2]
           own     == fields[k]
           metas   == MetasOf(h, k)
           Flat(i) == InnerOf(Flatten, at, own[i])
           Json(i) == JsonInner(JsonColumns, at, own[i].type)
           G(i)    == own[i].repeated => GetEnumValue(h, own[i].count) # 0
           Some(i) == GetTypeSize(k, own[i]) # 0
<1>1. h \in DOMAIN Files /\ k \in Messages /\ own \in Seq(Field) /\ IsSeq(own)
  BY DEF Pairs, Legal, Typed, IsSeq
<1>2. own # <<>> /\ \A i \in DOMAIN own : own[i].count # NoOption => own[i].repeated
  <2>1. k \in Reach[k]
    BY <1>1, ReachHas DEF Legal
  <2> QED
    BY <2>1 DEF Regular, FieldsOf, ToSet
<1>3. ASSUME NEW i \in DOMAIN own
      PROVE  /\ Flat(i).ok => Some(i) /\ Json(i).ok /\ Json(i).names = Headings(Flat(i).columns)
             /\ Json(i).ok /\ Some(i) => Flat(i).ok
  BY InsideSheet
<1>4. /\ Flatten[at].ok <=> \A i \in DOMAIN own : G(i) /\ Flat(i).ok
      /\ Flatten[at].columns = FlattenSeq([i \in DOMAIN own |-> PartOf(at, own[i])])
  BY FlattenParts DEF Legal
<1>5. ASSUME NEW i \in DOMAIN own
      PROVE  /\ G(i) <=> (own[i].repeated => own[i].count # NoOption) /\ MetaCount(h, own[i]) # 0
             /\ G(i) => JsonNames(metas[i]) = CopiesOf(h, own[i])
             /\ metas[i].type = own[i].type
  <2> DEFINE f == own[i]
             e == metas[i]
  <2>1. f.repeated \in BOOLEAN /\ (f.count # NoOption => f.repeated)
    <3>1. f.count # NoOption => f.repeated
      BY <1>2
    <3>2. f \in Field
      BY <1>1
    <3> HIDE DEF f
    <3> QED
      BY <3>1, <3>2 DEF Field
  <2>2. /\ e.name = f.name /\ e.type = f.type /\ e.count = MetaCount(h, f)
        /\ e.repeated = (f.count # NoOption)
    BY <1>1, MetaIs
  <2> HIDE DEF f, e
  <2>3. /\ (f.repeated => GetEnumValue(h, f.count) # 0)
              <=> ((f.repeated => f.count # NoOption) /\ MetaCount(h, f) # 0)
        /\ (f.repeated => GetEnumValue(h, f.count) # 0)
              => /\ f.repeated <=> f.count # NoOption
                 /\ f.repeated => MetaCount(h, f) = GetEnumValue(h, f.count)
    BY <2>1, CountsSame
  <2>4. ASSUME f.repeated => GetEnumValue(h, f.count) # 0
        PROVE  JsonNames(e) = CopiesOf(h, f)
    <3>1. CASE f.repeated
      BY <2>2, <2>3, <2>4, <3>1 DEF JsonNames, CopiesOf
    <3>2. CASE ~f.repeated
      BY <2>2, <2>3, <2>4, <3>2 DEF JsonNames, CopiesOf
    <3> QED
      BY <3>1, <3>2
  <2> QED
    BY <2>2, <2>3, <2>4 DEF f, e
<1>6. DOMAIN metas = DOMAIN own
  BY <1>1, MetaIs
<1>7. MessageMeta(h, k).ok <=>
        \A i \in DOMAIN own : Some(i) /\ (own[i].repeated => own[i].count # NoOption)
                                      /\ MetaCount(h, own[i]) # 0
  BY DEF MessageMeta, HasMeta
<1>8. JsonColumns[at] = JsonStep(JsonColumns, at)
  BY JsonIs
<1> DEFINE Part(i) == JsonPart(metas[i], Json(i))
<1>9. JsonColumns[at].ok <=> MessageMeta(h, k).ok /\ \A i \in DOMAIN own : Json(i).ok
  BY <1>5, <1>6, <1>8 DEF JsonStep
<1>10. MessageMeta(h, k).ok => JsonColumns[at].names = UNION {Part(i) : i \in DOMAIN own}
  BY <1>5, <1>6, <1>8 DEF JsonStep
<1> HIDE DEF Part, Flat, Json, G, Some
<1>11. JsonColumns[at].ok <=> Flatten[at].ok
  BY <1>3, <1>4, <1>5, <1>7, <1>9
<1>12. ASSUME Flatten[at].ok PROVE MessageSize[k] # 0
  <2>1. \A i \in DOMAIN own : Some(i)
    BY <1>3, <1>4, <1>12
  <2>2. DOMAIN own # {}
    BY <1>1, <1>2
  <2> DEFINE s == OwnSizes(k)
  <2>3. /\ MessageSize[k] = SizeOf(s) /\ Sized(s) /\ DOMAIN s = DOMAIN own
        /\ \A i \in DOMAIN own : s[i].size = GetTypeSize(k, own[i])
    BY <1>1, MessageSizes
  <2> HIDE DEF s
  <2>4. \A i \in DOMAIN s : s[i].size # 0
    BY <2>1, <2>3 DEF Some
  <2> QED
    BY <2>2, <2>3, <2>4, SizePositive
<1>13. ASSUME Flatten[at].ok PROVE JsonColumns[at].names = Headings(Flatten[at].columns)
  <2> DEFINE parts == [i \in DOMAIN own |-> PartOf(at, own[i])]
             c     == FlattenSeq(parts)
  <2>1. \A i \in DOMAIN own : G(i) /\ Flat(i).ok
    BY <1>4, <1>13
  <2>2. ASSUME NEW i \in DOMAIN own
        PROVE  IsSeq(PartOf(at, own[i])) /\ Headings(PartOf(at, own[i])) = Part(i)
    <3> DEFINE copies == CopiesOf(h, own[i])
               inner  == Flat(i).columns
    <3>1. PartOf(at, own[i]) = Spread(copies, inner)
      BY DEF PartOf, Flat
    <3>2. Part(i) = {Concat(x, n) : x \in ToSet(copies), n \in Headings(inner)}
      BY <1>3, <1>5, <2>1 DEF Part, JsonPart
    <3>3. IsSeq(copies)
      BY <1>1, CopiesAre DEF Legal
    <3>4. AreColumns(inner)
      BY InsideColumns DEF Flat, FlatOK
    <3> HIDE DEF copies, inner
    <3>5. /\ IsSeq(Spread(copies, inner))
          /\ Headings(Spread(copies, inner)) = {Concat(x, n) : x \in ToSet(copies), n \in Headings(inner)}
      BY <3>3, <3>4, SpreadHeadings
    <3> QED
      BY <3>1, <3>2, <3>5
  <2>3. Mapped(parts, own) /\ \A i \in DOMAIN own : parts[i] = PartOf(at, own[i])
    BY DEF Mapped
  <2> HIDE DEF parts
  <2>4. IsSeq(parts) /\ DOMAIN parts = DOMAIN own
    BY <1>1, <2>3, MappedIsSeq
  <2>5. Headings(c) = UNION {Headings(parts[i]) : i \in DOMAIN own}
    BY <2>2, <2>3, <2>4, FlatHeadings
  <2>6. {Headings(parts[i]) : i \in DOMAIN own} = {Part(i) : i \in DOMAIN own}
    BY <2>2, <2>3
  <2>7. JsonColumns[at].names = UNION {Part(i) : i \in DOMAIN own}
    BY <1>9, <1>10, <1>11, <1>13
  <2> QED
    BY <1>4, <2>5, <2>6, <2>7 DEF parts
<1> QED
  BY <1>11, <1>12, <1>13

LEMMA AllSheets ==
  ASSUME Legal
  PROVE  \A at \in Pairs : SheetAt(at)
<1> DEFINE T == {at \in Pairs : SheetAt(at)}
<1>1. \A at \in Pairs : (\A b \in Pairs : Depth[b] < Depth[at] => b \in T) => at \in T
  BY SheetStep DEF SheetAt
<1> HIDE DEF T
<1>2. \A at \in Pairs : at \in T
  BY <1>1, DepthIsNat, LevelSet
<1> QED
  BY <1>2 DEF T

\* One sheet serves both formats, however deep the messages are nested.
THEOREM SameSheetAlways == Spec => []SameSheet
<1>1. ASSUME Legal PROVE SameSheet
  <2> SUFFICES ASSUME NEW m \in Messages, Labelled(m), \A k \in Reach[m] : fields[k] # <<>>
               PROVE  /\ JsonColumns[<<home[m], m>>].ok <=> GetsThrough(m)
                      /\ JsonColumns[<<home[m], m>>].ok =>
                           JsonColumns[<<home[m], m>>].names = ToSet(ColumnNames(m))
    BY DEF SameSheet
  <2> DEFINE at == <<home[m], m>>
             c  == Flatten[at].columns
  <2>1. at \in Pairs /\ at[2] = m
    BY <1>1, LayoutAssumption DEF LayoutAssumption, Legal, Typed, Pairs
  <2>2. Regular(m)
    BY DEF Regular, Labelled
  <2>3. SheetAt(at)
    BY <1>1, <2>1, AllSheets
  <2>4. GetsThrough(m) <=> Flatten[at].ok
    BY DEF GetsThrough
  <2>5. ToSet(ColumnNames(m)) = Headings(c)
    BY DEF ColumnNames, ToSet, Headings
  <2> HIDE DEF at
  <2> QED
    BY <2>1, <2>2, <2>3, <2>4, <2>5 DEF SheetAt, at
<1> QED
  BY <1>1, MessagesAreLegal, PTL

-----------------------------------------------------------------------------
(* Where a field's columns begin.                                          *)

StartsWith(t, s) ==
  Len(s) \in Nat /\ Len(t) \in Nat /\ Len(s) <= Len(t) /\ \A j \in 1..Len(s) : t[j] = s[j]

\* What comes later moves nothing.
LEMMA RowStarts ==
  ASSUME NEW seqs, Parts(seqs), NEW g, InRow(g, seqs), NEW i \in 1..Len(seqs)
  PROVE  StartsWith(FlattenSeq(seqs), g[i])
<1> DEFINE n == Len(seqs)
<1>1. n \in Nat /\ i \in 1..n /\ DOMAIN seqs = 1..n
  BY SeqIsTuple DEF Parts
<1>2. /\ g[n] = FlattenSeq(seqs)
      /\ \A k \in 0..n : Sized(g[k])
      /\ \A k \in 1..n : g[k] = g[k - 1] \o seqs[k] /\ Sized(seqs[k])
  BY <1>1 DEF InRow, Parts
<1> HIDE DEF n
<1> DEFINE T == {k \in Nat : i + k <= n => StartsWith(g[i + k], g[i])}
<1>3. 0 \in T
  <2>1. i \in 0..n
    BY <1>1
  <2>2. Len(g[i]) \in Nat
    BY <1>2, <2>1, SeqIsTuple DEF Sized
  <2>3. i + 0 = i
    BY <1>1
  <2> DEFINE a == g[i]
  <2>4. StartsWith(a, a)
    <3> HIDE DEF a
    <3>1. Len(a) \in Nat
      BY <2>2 DEF a
    <3> QED
      BY <3>1 DEF StartsWith
  <2> QED
    BY <2>3, <2>4
<1>4. ASSUME NEW k \in T PROVE k + 1 \in T
  <2> DEFINE q == i + k
  <2>1. k \in Nat /\ (q <= n => StartsWith(g[q], g[i]))
    OBVIOUS
  <2>2. SUFFICES ASSUME i + (k + 1) <= n PROVE StartsWith(g[i + (k + 1)], g[i])
    BY <2>1
  <2>3. i + (k + 1) = q + 1 /\ q + 1 \in 1..n /\ q <= n /\ q \in 0..n /\ (q + 1) - 1 = q
    BY <1>1, <2>1, <2>2
  <2> HIDE DEF q
  <2> DEFINE a == g[q]
             b == seqs[q + 1]
             s == g[i]
  <2>4. g[q + 1] = a \o b
    BY <1>2, <2>3
  <2>5. IsSeq(a)
    BY <1>2, <2>3 DEF Sized
  <2>6. IsSeq(b)
    BY <1>2, <2>3 DEF Sized
  <2>7. StartsWith(a, s)
    BY <2>1, <2>3
  <2> HIDE DEF a, b, s
  <2>8. /\ Len(a \o b) = Len(a) + Len(b)
        /\ \A j \in 1..Len(a) : (a \o b)[j] = a[j]
    BY <2>5, <2>6, ConcatIs
  <2>9. Len(a) \in Nat /\ Len(b) \in Nat
    BY <2>5, <2>6, SeqIsTuple
  <2> DEFINE u == a \o b
  <2>10. Len(u) = Len(a) + Len(b) /\ \A j \in 1..Len(a) : u[j] = a[j]
    BY <2>8
  <2> HIDE DEF u
  <2>11. StartsWith(u, s)
    BY <2>7, <2>9, <2>10 DEF StartsWith
  <2> QED
    BY <2>3, <2>4, <2>11 DEF u, s
<1>5. \A k \in Nat : k \in T
  <2>1. T \in SUBSET Nat
    OBVIOUS
  <2> HIDE DEF T
  <2> QED
    BY <1>3, <1>4, <2>1, NatSet
<1>6. n - i \in Nat /\ i + (n - i) = n /\ n <= n
  BY <1>1
<1>7. StartsWith(g[n], g[i])
  <2>1. n - i \in T
    BY <1>5, <1>6
  <2> QED
    BY <1>6, <2>1
<1> QED
  BY <1>2, <1>7

\* The first of the i-th part comes after the parts before it.
LEMMA FirstPlace ==
  ASSUME NEW seqs, Parts(seqs), NEW g, InRow(g, seqs), NEW i \in 1..Len(seqs), Len(seqs[i]) # 0
  PROVE  LET c == FlattenSeq(seqs)
             p == Len(g[i - 1])
         IN  /\ p \in Nat /\ p + 1 \in 1..Len(c) /\ c[p + 1] = seqs[i][1]
             /\ \A ends : Sums(ends, c) => ends[p] = SizeOf(g[i - 1])
<1> DEFINE n == Len(seqs)
           c == FlattenSeq(seqs)
           a == g[i - 1]
           b == seqs[i]
           u == g[i]
           p == Len(a)
<1>1. n \in Nat /\ DOMAIN seqs = 1..n /\ i - 1 \in 0..n /\ i \in 1..n
  BY SeqIsTuple DEF Parts
<1>2. u = a \o b /\ Sized(a)
  BY <1>1 DEF InRow
<1>3. IsSeq(b) /\ Len(b) # 0
  BY <1>1 DEF Parts, Sized
<1>4. StartsWith(c, u)
  BY RowStarts
<1> HIDE DEF n, c, a, b, u
<1>5. IsSeq(a) /\ p \in Nat /\ Len(b) \in Nat \ {0} /\ DOMAIN a = 1..p
  BY <1>2, <1>3, SeqIsTuple DEF Sized
<1>6. /\ Len(u) = p + Len(b)
      /\ \A j \in 1..p : u[j] = a[j]
      /\ \A j \in 1..Len(b) : u[p + j] = b[j]
  BY <1>2, <1>3, <1>5, ConcatIs
<1> HIDE DEF p
<1>7. u[p + 1] = b[1] /\ p + 1 \in 1..Len(u) /\ \A j \in 1..p : j \in 1..Len(u)
  BY <1>5, <1>6
<1>8. c[p + 1] = b[1] /\ p + 1 \in 1..Len(c) /\ \A j \in 1..p : c[j] = a[j] /\ j \in 1..Len(c)
  BY <1>4, <1>5, <1>6, <1>7 DEF StartsWith
<1>9. ASSUME NEW ends, Sums(ends, c) PROVE ends[p] = SizeOf(a)
  <2>1. ends[0] = 0 /\ \A k \in 1..Len(c) : ends[k] = ends[k - 1] + c[k].size
    BY <1>9 DEF Sums
  <2>2. \A k \in 1..p : ends[k] = ends[k - 1] + a[k].size
    BY <1>8, <2>1
  <2>3. Sums(ends, a)
    BY <2>1, <2>2 DEF Sums, p
  <2> QED
    BY <1>2, <2>3, SizeIs DEF p
<1> QED
  BY <1>5, <1>8, <1>9 DEF p, c, a, b

\* What n parts of one size take.
LEMMA SizeTimes ==
  ASSUME NEW seqs, Parts(seqs), NEW s \in Nat, \A k \in 1..Len(seqs) : SizeOf(seqs[k]) = s
  PROVE  SizeOf(FlattenSeq(seqs)) = Len(seqs) * s
<1> DEFINE n == Len(seqs)
<1>1. n \in Nat
  BY SeqIsTuple DEF Parts
<1>2. PICK g : InRow(g, seqs)
  BY FlattenSizes
<1>3. /\ g[n] = FlattenSeq(seqs) /\ SizeOf(g[0]) = 0
      /\ \A k \in 1..n : SizeOf(g[k]) = SizeOf(g[k - 1]) + s
  BY <1>2 DEF InRow
<1> HIDE DEF n
<1> DEFINE T == {k \in Nat : k <= n => SizeOf(g[k]) = k * s}
<1>4. 0 \in T
  BY <1>3
<1>5. ASSUME NEW k \in T PROVE k + 1 \in T
  <2>1. k \in Nat /\ (k <= n => SizeOf(g[k]) = k * s)
    OBVIOUS
  <2>2. SUFFICES ASSUME k + 1 <= n PROVE SizeOf(g[k + 1]) = (k + 1) * s
    BY <2>1
  <2>3. k + 1 \in 1..n /\ (k + 1) - 1 = k /\ k <= n
    BY <1>1, <2>1, <2>2
  <2>4. SizeOf(g[k + 1]) = k * s + s
    BY <1>3, <2>1, <2>3
  <2>5. (k + 1) * s = k * s + s
    BY <2>1
  <2> QED
    BY <2>4, <2>5
<1>6. \A k \in Nat : k \in T
  <2>1. T \in SUBSET Nat
    OBVIOUS
  <2> HIDE DEF T
  <2> QED
    BY <1>4, <1>5, <2>1, NatSet
<1> QED
  BY <1>1, <1>3, <1>6 DEF n

\* Copies of a field take as often what is inside it, and begin with the first
\* copy of the first column.
LEMMA SpreadPlace ==
  ASSUME NEW copies, IsSeq(copies), NEW inner, AreColumns(inner), AreSized(inner)
  PROVE  /\ Sized(Spread(copies, inner))
         /\ SizeOf(Spread(copies, inner)) = Len(copies) * SizeOf(inner)
         /\ (Len(copies) # 0 /\ Len(inner) # 0) =>
              /\ Len(Spread(copies, inner)) # 0
              /\ Spread(copies, inner)[1].name = Concat(copies[1], inner[1].name)
<1> DEFINE n == Len(copies)
<1>1. Sized(inner) /\ \A j \in DOMAIN inner : Keeps(inner[j])
  BY ColumnsKeep
<1>2. PICK rows : /\ Parts(rows) /\ Len(rows) = n
                  /\ Spread(copies, inner) = FlattenSeq(rows)
                  /\ \A i \in 1..n :
                       /\ SizeOf(rows[i]) = SizeOf(inner) /\ DOMAIN rows[i] = DOMAIN inner
                       /\ \A j \in DOMAIN inner : rows[i][j] = Under(copies[i], inner[j])
  BY <1>1, SpreadRows
<1>3. SizeOf(inner) \in Nat
  BY <1>1, SizeSteps, SizeIs DEF Sized
<1>4. SizeOf(FlattenSeq(rows)) = n * SizeOf(inner)
  BY <1>2, <1>3, SizeTimes
<1>5. Sized(FlattenSeq(rows))
  BY <1>2, SizeFlatten
<1>6. ASSUME n # 0, Len(inner) # 0
      PROVE  /\ Len(FlattenSeq(rows)) # 0
             /\ FlattenSeq(rows)[1].name = Concat(copies[1], inner[1].name)
  <2>1. n \in Nat /\ Len(inner) \in Nat /\ DOMAIN inner = 1..Len(inner)
    BY <1>1, SeqIsTuple DEF Sized
  <2> HIDE DEF n
  <2>2. 1 \in 1..n /\ 1 \in DOMAIN inner
    BY <1>6, <2>1
  <2>3. rows[1][1] = Under(copies[1], inner[1]) /\ DOMAIN rows[1] = DOMAIN inner
    BY <1>2, <2>2
  <2>4. 1 \in DOMAIN rows
    BY <1>2, <2>2, SeqIsTuple DEF Parts
  <2>5. Len(rows[1]) # 0
    <3>1. Len(rows[1]) \in Nat /\ DOMAIN rows[1] = 1..Len(rows[1])
      BY <1>2, <2>4, SeqIsTuple DEF Parts, Sized
    <3> QED
      BY <2>2, <2>3, <3>1
  <2>6. PICK g : InRow(g, rows)
    BY <1>2, FlattenSizes
  <2> DEFINE c == FlattenSeq(rows)
             p == Len(g[1 - 1])
  <2>7. p \in Nat /\ p + 1 \in 1..Len(c) /\ c[p + 1] = rows[1][1]
    BY <1>2, <2>2, <2>5, <2>6, FirstPlace
  <2>8. p = 0
    BY <2>6 DEF InRow
  <2>9. Len(c) \in Nat
    BY <1>5, SeqIsTuple DEF Sized
  <2> HIDE DEF c, p
  <2>10. Len(c) # 0 /\ c[1] = Under(copies[1], inner[1])
    BY <2>3, <2>7, <2>8, <2>9
  <2>11. Under(copies[1], inner[1]).name = Concat(copies[1], inner[1].name)
    BY <2>2, NameUnder DEF AreColumns
  <2> QED
    BY <2>10, <2>11 DEF c
<1> QED
  BY <1>2, <1>4, <1>5, <1>6

-----------------------------------------------------------------------------
(* Meta data and record agree where nothing is repeated below.             *)

LEMMA ReachLower ==
  ASSUME Legal
  PROVE  \A m \in Messages : \A k \in Reach[m] : k \in Messages /\ Level[k] <= Level[m]
<1> DEFINE T == {m \in Messages : \A k \in Reach[m] : k \in Messages /\ Level[k] <= Level[m]}
<1>1. Level \in [Messages -> Nat]
  BY LayoutAssumption DEF LayoutAssumption
<1>2. ASSUME NEW m \in Messages, \A k \in Messages : Level[k] < Level[m] => k \in T
      PROVE  m \in T
  <2>1. ASSUME NEW k \in Reach[m] PROVE k \in Messages /\ Level[k] <= Level[m]
    <3>1. Reach[m] = ReachStep(Reach, m)
      BY ReachIs DEF Legal
    <3>2. CASE k = m
      BY <1>1, <3>2
    <3>3. CASE k # m
      <4>1. PICK i \in DOMAIN fields[m] : /\ fields[m][i].type \in Messages
                                          /\ k \in Reach[fields[m][i].type]
        BY <2>1, <3>1, <3>3 DEF ReachStep
      <4> DEFINE j == fields[m][i].type
      <4>2. j \in Messages /\ k \in Reach[j] /\ Level[j] < Level[m]
        BY <4>1 DEF Legal, Nested
      <4> HIDE DEF j
      <4>3. k \in Messages /\ Level[k] <= Level[j]
        BY <1>2, <4>2
      <4> QED
        BY <1>1, <4>2, <4>3
    <3> QED
      BY <3>2, <3>3
  <2> QED
    BY <2>1
<1> HIDE DEF T
<1>3. \A m \in Messages : m \in T
  BY <1>1, <1>2, LevelSet
<1> QED
  BY <1>3 DEF T

\* Nothing in k is repeated.
Plain(k) == \A j \in Reach[k] : \A f \in FieldsOf(j) : ~f.repeated

WholeAt(at) ==
  (Plain(at[2]) /\ Flatten[at].ok) => SizeOf(Flatten[at].columns) = MessageSize[at[2]]

LEMMA OneElement ==
  ASSUME NEW s, IsSeq(s), DOMAIN s = {1}
  PROVE  Len(s) = 1
<1> DEFINE n == Len(s)
<1>1. n \in Nat /\ 1..n = {1}
  BY SeqIsTuple
<1> HIDE DEF n
<1>2. 1 \in 1..n
  BY <1>1
<1>3. n \in 1..n
  BY <1>1, <1>2
<1>4. n = 1
  BY <1>1, <1>3
<1> QED
  BY <1>4 DEF n

LEMMA LeafTakes ==
  ASSUME Legal, NEW k \in Messages, NEW f, f.type \in Leaves
  PROVE  Sized(Leaf(k, f).columns) /\ SizeOf(Leaf(k, f).columns) = LeafSize(k, f)
<1> DEFINE c == Leaf(k, f).columns
           e == [name |-> "", type |-> f.type, size |-> LeafSize(k, f)]
           n == LeafSize(k, f)
           h == [j \in 0..1 |-> IF j = 0 THEN 0 ELSE n]
<1>1. DOMAIN c = {1} /\ c[1] = e /\ IsSeq(c)
  BY LeafIs DEF Legal, FlatOK, AreColumns
<1>2. e.size = n /\ n \in Nat
  BY LeafSizeIsNat DEF Legal
<1>3. h[0] = 0 /\ h[1] = n
  OBVIOUS
<1> HIDE DEF c, e, n, h
<1>4. Sized(c)
  BY <1>1, <1>2 DEF Sized
<1>5. Len(c) = 1
  BY <1>1, OneElement
<1>6. Sums(h, c)
  <2>1. h[1] = h[0] + c[1].size
    BY <1>1, <1>2, <1>3
  <2> QED
    BY <1>3, <1>5, <2>1 DEF Sums
<1> QED
  BY <1>3, <1>4, <1>5, <1>6, SizeIs DEF c, n

\* A field takes its size, if a member message does.
LEMMA InsideTakes ==
  ASSUME Legal, NEW at \in Pairs, Flatten[at].ok, NEW i \in DOMAIN fields[at[2]],
         fields[at[2]][i].type \in Messages =>
           /\ Plain(fields[at[2]][i].type)
           /\ WholeAt(<<at[1], fields[at[2]][i].type>>)
  PROVE  LET f  == fields[at[2]][i]
             in == InnerOf(Flatten, at, f)
         IN  /\ AreColumns(in.columns) /\ AreSized(in.columns)
             /\ SizeOf(in.columns) = GetTypeSize(at[2], f)
<1> DEFINE k  == at[2]
           f  == fields[k][i]
           in == InnerOf(Flatten, at, f)
<1>1. at[1] \in DOMAIN Files /\ k \in Messages /\ f \in Field
  BY DEF Pairs, Legal, Typed
<1>2. in.ok /\ FlatOK(in)
  BY FlattenParts, InsideColumns DEF Legal
<1>3. AreColumns(in.columns) /\ AreSized(in.columns)
  BY <1>2 DEF FlatOK
<1>4. CASE f.type \in Messages
  <2> DEFINE b == <<at[1], f.type>>
  <2>1. b[2] = f.type
    OBVIOUS
  <2>2. Plain(f.type) /\ WholeAt(b)
    BY <1>4
  <2> HIDE DEF f
  <2>3. in = Flatten[b] /\ GetTypeSize(k, f) = MessageSize[f.type]
    BY <1>4 DEF InnerOf, GetTypeSize
  <2> HIDE DEF in, b
  <2>4. SizeOf(in.columns) = GetTypeSize(k, f)
    BY <1>2, <2>1, <2>2, <2>3 DEF WholeAt
  <2> QED
    BY <1>3, <2>4 DEF in, f
<1>5. CASE f.type \notin Messages
  <2>1. f.type \in Leaves
    BY <1>1, <1>5 DEF Field
  <2> HIDE DEF f
  <2>2. in = Leaf(k, f) /\ GetTypeSize(k, f) = LeafSize(k, f)
    BY <1>5 DEF InnerOf, GetTypeSize
  <2>3. SizeOf(Leaf(k, f).columns) = LeafSize(k, f)
    BY <1>1, <2>1, LeafTakes
  <2> HIDE DEF in
  <2> QED
    BY <1>3, <2>2, <2>3 DEF in, f
<1> QED
  BY <1>4, <1>5

\* Its columns take that for each copy.
LEMMA PartTakes ==
  ASSUME Legal, NEW at \in Pairs, Flatten[at].ok, NEW i \in DOMAIN fields[at[2]],
         fields[at[2]][i].type \in Messages =>
           /\ Plain(fields[at[2]][i].type)
           /\ WholeAt(<<at[1], fields[at[2]][i].type>>)
  PROVE  LET f == fields[at[2]][i]
             n == IF f.repeated THEN GetEnumValue(at[1], f.count) ELSE 1
         IN  /\ Sized(PartOf(at, f)) /\ SizeOf(PartOf(at, f)) = n * GetTypeSize(at[2], f)
             /\ n \in Nat \ {0}
             /\ f.type \in Leaves => /\ Len(PartOf(at, f)) # 0
                                     /\ PartOf(at, f)[1].name = CopiesOf(at[1], f)[1]
<1> DEFINE f      == fields[at[2]][i]
           n      == IF f.repeated THEN GetEnumValue(at[1], f.count) ELSE 1
           copies == CopiesOf(at[1], f)
           inner  == InnerOf(Flatten, at, f).columns
<1>1. at[1] \in DOMAIN Files /\ at[2] \in Messages
  BY DEF Pairs
<1>2. AreColumns(inner) /\ AreSized(inner) /\ SizeOf(inner) = GetTypeSize(at[2], f)
  BY InsideTakes
<1>3. IsSeq(copies)
  BY <1>1, CopiesAre DEF Legal
<1>4. n \in Nat \ {0}
  <2>1. f.repeated => GetEnumValue(at[1], f.count) # 0
    BY FlattenParts DEF Legal
  <2>2. GetEnumValue(at[1], f.count) \in Nat
    BY <1>1, ValueIsNat DEF Legal
  <2> HIDE DEF f
  <2> QED
    BY <2>1, <2>2
<1>5. PartOf(at, f) = Spread(copies, inner)
  BY DEF PartOf
<1>6. f.type \in Leaves => Len(inner) = 1 /\ inner[1].name = ""
  <2> SUFFICES ASSUME f.type \in Leaves PROVE Len(inner) = 1 /\ inner[1].name = ""
    OBVIOUS
  <2>1. f.type \notin Messages
    BY LayoutAssumption DEF LayoutAssumption
  <2> DEFINE c == Leaf(at[2], f).columns
             e == [name |-> "", type |-> f.type, size |-> LeafSize(at[2], f)]
  <2>2. DOMAIN c = {1} /\ c[1] = e
    BY <1>1, LeafIs DEF Legal
  <2>3. e.name = ""
    OBVIOUS
  <2>4. inner = c
    BY <2>1 DEF InnerOf
  <2> HIDE DEF c, e, inner
  <2>5. Len(inner) = 1
    BY <1>2, <2>2, <2>4, OneElement DEF AreColumns
  <2> QED
    BY <2>2, <2>3, <2>4, <2>5
<1>7. Len(copies) = n
  <2> HIDE DEF f
  <2>1. CASE f.repeated
    <3> DEFINE s == Numbered(f.name, n)
    <3>1. copies = s
      BY <2>1 DEF CopiesOf
    <3>2. IsTuple(s, n)
      BY DEF IsTuple, Numbered
    <3> HIDE DEF s, n, copies
    <3>3. Len(s) = n
      BY <1>4, <3>2, TupleIsSeq
    <3> QED
      BY <3>1, <3>3
  <2>2. CASE ~f.repeated
    <3> DEFINE s == <<f.name>>
    <3>1. copies = s
      BY <2>2 DEF CopiesOf
    <3>2. Len(s) = 1
      OBVIOUS
    <3> QED
      BY <2>2, <3>1, <3>2
  <2> QED
    BY <2>1, <2>2
<1> HIDE DEF f, n, copies, inner
<1>8. /\ Sized(Spread(copies, inner))
      /\ SizeOf(Spread(copies, inner)) = Len(copies) * SizeOf(inner)
      /\ (Len(copies) # 0 /\ Len(inner) # 0) =>
              /\ Len(Spread(copies, inner)) # 0
              /\ Spread(copies, inner)[1].name = Concat(copies[1], inner[1].name)
  BY <1>2, <1>3, SpreadPlace
<1>9. Concat(copies[1], "") = copies[1]
  BY DEF Concat
<1> DEFINE part == Spread(copies, inner)
<1> HIDE DEF part
<1>10. Sized(part) /\ SizeOf(part) = n * GetTypeSize(at[2], f)
  BY <1>2, <1>7, <1>8 DEF part
<1>11. ASSUME f.type \in Leaves PROVE Len(part) # 0 /\ part[1].name = copies[1]
  <2>1. Len(copies) # 0 /\ Len(inner) # 0
    <3>1. Len(inner) = 1
      BY <1>6, <1>11
    <3>2. Len(copies) # 0
      BY <1>4, <1>7
    <3> QED
      BY <3>1, <3>2
  <2>2. Len(part) # 0 /\ part[1].name = Concat(copies[1], inner[1].name)
    BY <1>8, <2>1 DEF part
  <2> QED
    BY <1>6, <1>9, <1>11, <2>2
<1>12. PartOf(at, f) = part
  BY <1>5 DEF part
<1> QED
  BY <1>4, <1>10, <1>11, <1>12 DEF f, n, copies

\* The parts of a message in the record, as a sequence of its columns.
PartsOf(at) == [i \in DOMAIN fields[at[2]] |-> PartOf(at, fields[at[2]][i])]

LEMMA PartsAre ==
  ASSUME Legal, NEW at \in Pairs, \A i \in DOMAIN fields[at[2]] : Sized(PartOf(at, fields[at[2]][i]))
  PROVE  /\ Parts(PartsOf(at)) /\ Len(PartsOf(at)) = Len(fields[at[2]])
         /\ DOMAIN PartsOf(at) = DOMAIN fields[at[2]]
         /\ \A i \in DOMAIN fields[at[2]] : PartsOf(at)[i] = PartOf(at, fields[at[2]][i])
         /\ Flatten[at].columns = FlattenSeq(PartsOf(at))
<1> DEFINE own   == fields[at[2]]
           parts == PartsOf(at)
<1>1. IsSeq(own)
  BY DEF Pairs, Legal, Typed, IsSeq
<1>2. Mapped(parts, own) /\ \A i \in DOMAIN own : parts[i] = PartOf(at, own[i])
  BY DEF PartsOf, Mapped
<1>3. Flatten[at].columns = FlattenSeq(parts)
  BY FlattenParts DEF Legal, PartsOf
<1> HIDE DEF parts
<1>4. IsSeq(parts) /\ Len(parts) = Len(own) /\ DOMAIN parts = DOMAIN own
  BY <1>1, <1>2, MappedIsSeq
<1>5. Parts(parts)
  BY <1>2, <1>4 DEF Parts
<1> QED
  BY <1>2, <1>3, <1>4, <1>5 DEF parts

LEMMA WholeStep ==
  ASSUME Legal, NEW at \in Pairs, Plain(at[2]), Flatten[at].ok,
         \A b \in Pairs : Depth[b] < Depth[at] => WholeAt(b)
  PROVE  SizeOf(Flatten[at].columns) = MessageSize[at[2]]
<1> DEFINE k     == at[2]
           own   == fields[k]
           n     == Len(own)
           parts == PartsOf(at)
           sizes == OwnSizes(k)
<1>1. at[1] \in DOMAIN Files /\ k \in Messages /\ own \in Seq(Field)
  BY DEF Pairs, Legal, Typed
<1>2. n \in Nat /\ DOMAIN own = 1..n
  BY <1>1
<1>3. ASSUME NEW i \in DOMAIN own
      PROVE  Sized(PartOf(at, own[i])) /\ SizeOf(PartOf(at, own[i])) = GetTypeSize(k, own[i])
  <2> DEFINE f == own[i]
  <2>1. ~f.repeated
    BY <1>1, ReachHas DEF Plain, FieldsOf, ToSet, Legal
  <2>2. ASSUME f.type \in Messages PROVE Plain(f.type) /\ WholeAt(<<at[1], f.type>>)
    <3> DEFINE b == <<at[1], f.type>>
    <3>1. b \in Pairs /\ b[2] = f.type
      BY <1>1, <2>2 DEF Pairs
    <3>2. Depth[b] < Depth[at]
      BY <1>1, <2>2, <3>1, DepthIsNat DEF Legal, Nested
    <3>3. Reach[f.type] \subseteq Reach[k]
      BY <1>1, <2>2, ReachHas DEF Legal
    <3>4. Plain(f.type)
      BY <3>3 DEF Plain
    <3> QED
      BY <3>1, <3>2, <3>4
  <2>3. /\ Sized(PartOf(at, f))
        /\ SizeOf(PartOf(at, f)) =
             (IF f.repeated THEN GetEnumValue(at[1], f.count) ELSE 1) * GetTypeSize(k, f)
    BY <2>2, PartTakes
  <2>4. GetTypeSize(k, f) \in Nat
    BY <1>1, MessageSizes DEF Sized
  <2> HIDE DEF f
  <2>5. SizeOf(PartOf(at, f)) = GetTypeSize(k, f)
    BY <2>1, <2>3, <2>4
  <2> QED
    BY <2>3, <2>5 DEF f
<1>4. /\ Parts(parts) /\ Len(parts) = n /\ Flatten[at].columns = FlattenSeq(parts)
      /\ \A i \in DOMAIN own : parts[i] = PartOf(at, own[i])
  BY <1>3, PartsAre
<1>5. /\ MessageSize[k] = SizeOf(sizes) /\ Sized(sizes) /\ Len(sizes) = n
      /\ \A i \in DOMAIN own : sizes[i].size = GetTypeSize(k, own[i])
  BY <1>1, MessageSizes
<1> HIDE DEF own, parts, sizes
<1>6. PICK g : InRow(g, parts)
  BY <1>4, FlattenSizes
<1> DEFINE h == [j \in 0..n |-> SizeOf(g[j])]
<1>7. \A j \in 0..n : h[j] = SizeOf(g[j])
  OBVIOUS
<1> HIDE DEF h, n
<1>8. Sums(h, sizes)
  <2>1. h[0] = 0
    BY <1>2, <1>6, <1>7 DEF InRow
  <2>2. ASSUME NEW j \in 1..n PROVE h[j] = h[j - 1] + sizes[j].size
    <3>1. j \in 0..n /\ j - 1 \in 0..n /\ j \in DOMAIN own
      BY <1>2
    <3>2. SizeOf(g[j]) = SizeOf(g[j - 1]) + SizeOf(parts[j])
      BY <1>4, <1>6 DEF InRow
    <3>3. SizeOf(parts[j]) = sizes[j].size
      BY <1>3, <1>4, <1>5, <3>1
    <3> QED
      BY <1>7, <3>1, <3>2, <3>3
  <2> QED
    BY <1>5, <2>1, <2>2 DEF Sums
<1>9. SizeOf(sizes) = h[n]
  BY <1>5, <1>8, SizeIs
<1>10. h[n] = SizeOf(FlattenSeq(parts))
  BY <1>2, <1>4, <1>6, <1>7 DEF InRow
<1> QED
  BY <1>4, <1>5, <1>9, <1>10

LEMMA AllWhole ==
  ASSUME Legal
  PROVE  \A at \in Pairs : WholeAt(at)
<1> DEFINE T == {at \in Pairs : WholeAt(at)}
<1>1. \A at \in Pairs : (\A b \in Pairs : Depth[b] < Depth[at] => b \in T) => at \in T
  BY WholeStep DEF WholeAt
<1> HIDE DEF T
<1>2. \A at \in Pairs : at \in T
  BY <1>1, DepthIsNat, LevelSet
<1> QED
  BY <1>2 DEF T

\* The meta data of a message give its fields the places of their columns.
Placed(at, g) ==
  LET own   == fields[at[2]]
      metas == MetasOf(at[1], at[2])
      parts == PartsOf(at)
  IN  /\ Parts(parts) /\ InRow(g, parts) /\ Len(parts) = Len(own)
      /\ Flatten[at].columns = FlattenSeq(parts)
      /\ \A i \in DOMAIN own :
           /\ parts[i] = PartOf(at, own[i])
           /\ metas[i].type = own[i].type
           /\ metas[i].offset = SizeOf(g[i - 1])
           /\ JsonNames(metas[i]) = CopiesOf(at[1], own[i])
           /\ own[i].type \in Leaves =>
                /\ Len(parts[i]) # 0
                /\ parts[i][1].name = CopiesOf(at[1], own[i])[1]

\* A top-level message's own fields may be repeated: each offset of its meta
\* data is what the columns before take.
LEMMA OffsetsAre ==
  ASSUME Legal, NEW at \in Pairs, Flatten[at].ok,
         \A f \in FieldsOf(at[2]) : f.count # NoOption => f.repeated,
         \A k \in Reach[at[2]] \ {at[2]} : \A f \in FieldsOf(k) : ~f.repeated
  PROVE  \E g : Placed(at, g)
<1> DEFINE h     == at[1]
           k     == at[2]
           own   == fields[k]
           n     == Len(own)
           metas == MetasOf(h, k)
           parts == PartsOf(at)
<1>1. h \in DOMAIN Files /\ k \in Messages /\ own \in Seq(Field) /\ IsSeq(own)
  BY DEF Pairs, Legal, Typed, IsSeq
<1>2. n \in Nat /\ DOMAIN own = 1..n
  BY <1>1
<1>3. ASSUME NEW i \in DOMAIN own
      PROVE  /\ Sized(PartOf(at, own[i]))
             /\ SizeOf(PartOf(at, own[i])) = metas[i].count * metas[i].size
             /\ JsonNames(metas[i]) = CopiesOf(h, own[i])
             /\ metas[i].type = own[i].type
             /\ metas[i].offset = IF i = 1 THEN 0 ELSE After(metas[i - 1])
             /\ own[i].type \in Leaves =>
                  /\ Len(PartOf(at, own[i])) # 0
                  /\ PartOf(at, own[i])[1].name = CopiesOf(h, own[i])[1]
  <2> DEFINE f == own[i]
             e == metas[i]
  <2>1. ASSUME f.type \in Messages PROVE Plain(f.type) /\ WholeAt(<<h, f.type>>)
    <3>1. <<h, f.type>> \in Pairs
      BY <1>1, <2>1 DEF Pairs
    <3>2. Level[f.type] < Level[k]
      BY <1>1, <2>1 DEF Legal, Nested
    <3>3. k \notin Reach[f.type]
      <4>1. Level \in [Messages -> Nat]
        BY LayoutAssumption DEF LayoutAssumption
      <4> HIDE DEF f
      <4>2. \A j \in Reach[f.type] : Level[j] <= Level[f.type]
        BY <2>1, ReachLower
      <4>3. Level[f.type] \in Nat /\ Level[k] \in Nat
        BY <1>1, <2>1, <4>1
      <4>4. ~(Level[k] <= Level[f.type])
        BY <3>2, <4>3
      <4> QED
        BY <4>2, <4>4
    <3>4. Reach[f.type] \subseteq Reach[k]
      BY <1>1, <2>1, ReachHas DEF Legal
    <3>5. Plain(f.type)
      BY <3>3, <3>4 DEF Plain
    <3> QED
      BY <3>1, <3>5, AllWhole
  <2> DEFINE c == IF f.repeated THEN GetEnumValue(h, f.count) ELSE 1
  <2>2. /\ Sized(PartOf(at, f)) /\ SizeOf(PartOf(at, f)) = c * GetTypeSize(k, f)
        /\ f.type \in Leaves => /\ Len(PartOf(at, f)) # 0
                                /\ PartOf(at, f)[1].name = CopiesOf(h, f)[1]
    BY <2>1, PartTakes
  <2>3. /\ e.name = f.name /\ e.type = f.type /\ e.count = MetaCount(h, f)
        /\ e.repeated = (f.count # NoOption) /\ e.size = GetTypeSize(k, f)
        /\ e.offset = IF i = 1 THEN 0 ELSE After(metas[i - 1])
    BY <1>1, MetaIs
  <2>4. f.count # NoOption => f.repeated
    BY <1>1 DEF FieldsOf, ToSet
  <2>5. f.repeated => GetEnumValue(h, f.count) # 0
    BY FlattenParts DEF Legal
  <2>6. f \in Field
    BY <1>1
  <2> HIDE DEF f, e
  <2>7. f.repeated \in BOOLEAN
    BY <2>6 DEF Field
  <2>8. /\ f.repeated <=> f.count # NoOption
        /\ f.repeated => MetaCount(h, f) = GetEnumValue(h, f.count)
    BY <2>4, <2>5, <2>7, CountsSame
  <2>9. JsonNames(e) = CopiesOf(h, f) /\ e.count = c
    <3>1. CASE f.repeated
      BY <2>3, <2>8, <3>1 DEF JsonNames, CopiesOf
    <3>2. CASE ~f.repeated
      BY <2>3, <2>8, <3>2 DEF JsonNames, CopiesOf, MetaCount
    <3> QED
      BY <3>1, <3>2
  <2> QED
    BY <2>2, <2>3, <2>9 DEF f, e
<1>4. /\ Parts(parts) /\ Len(parts) = n /\ Flatten[at].columns = FlattenSeq(parts)
      /\ \A i \in DOMAIN own : parts[i] = PartOf(at, own[i])
  BY <1>3, PartsAre
<1>5. PICK g : InRow(g, parts)
  BY <1>4, FlattenSizes
<1>6. SizeOf(g[0]) = 0 /\ \A i \in 1..n : SizeOf(g[i]) = SizeOf(g[i - 1]) + SizeOf(parts[i])
  BY <1>4, <1>5 DEF InRow
<1> HIDE DEF metas, parts
<1> DEFINE T == {i \in Nat : i + 1 <= n => metas[i + 1].offset = SizeOf(g[i])}
<1> HIDE DEF own, n
<1>7. 0 \in T
  <2>1. ASSUME 1 <= n PROVE metas[1].offset = 0
    <3>1. 1 \in DOMAIN own
      BY <1>2, <2>1
    <3> QED
      BY <1>3, <3>1
  <2> QED
    BY <1>6, <2>1
<1>8. ASSUME NEW i \in T PROVE i + 1 \in T
  <2> DEFINE q == i + 1
  <2>1. i \in Nat /\ (q <= n => metas[q].offset = SizeOf(g[i]))
    OBVIOUS
  <2>2. SUFFICES ASSUME q + 1 <= n PROVE metas[q + 1].offset = SizeOf(g[q])
    BY <2>1
  <2>3. q \in 1..n /\ q + 1 \in 1..n /\ q - 1 = i /\ (q + 1) - 1 = q /\ q <= n /\ q + 1 # 1
    BY <1>2, <2>1, <2>2
  <2> HIDE DEF q
  <2>4. metas[q + 1].offset = metas[q].offset + metas[q].count * metas[q].size
    BY <1>2, <1>3, <2>3 DEF After
  <2>5. SizeOf(parts[q]) = metas[q].count * metas[q].size
    BY <1>2, <1>3, <1>4, <2>3
  <2>6. SizeOf(g[q]) = SizeOf(g[i]) + SizeOf(parts[q])
    BY <1>6, <2>3
  <2> QED
    BY <2>1, <2>3, <2>4, <2>5, <2>6
<1>9. \A i \in Nat : i \in T
  <2>1. T \in SUBSET Nat
    OBVIOUS
  <2> HIDE DEF T
  <2> QED
    BY <1>7, <1>8, <2>1, NatSet
<1>10. ASSUME NEW i \in DOMAIN own PROVE metas[i].offset = SizeOf(g[i - 1])
  <2>1. i - 1 \in Nat /\ (i - 1) + 1 = i /\ i <= n
    BY <1>2
  <2>2. i - 1 \in T
    BY <1>9, <2>1
  <2> QED
    BY <2>1, <2>2
<1>11. \A i \in DOMAIN own : /\ parts[i] = PartOf(at, own[i])
                             /\ metas[i].type = own[i].type
                             /\ metas[i].offset = SizeOf(g[i - 1])
                             /\ JsonNames(metas[i]) = CopiesOf(h, own[i])
                             /\ own[i].type \in Leaves =>
                                  /\ Len(parts[i]) # 0
                                  /\ parts[i][1].name = CopiesOf(h, own[i])[1]
  BY <1>3, <1>4, <1>10
<1> QED
  BY <1>4, <1>5, <1>11 DEF Placed, own, n, metas, parts

\* The offsets in the header are those of the record, also behind member
\* messages.
THEOREM MetaMatchesAlways == Spec => []MetaMatchesRecord
<1>1. ASSUME Legal PROVE MetaMatchesRecord
  <2> SUFFICES ASSUME NEW m \in Messages, GetsThrough(m), NoClash(m), Labelled(m),
                      \A k \in Reach[m] \ {m} : \A f \in FieldsOf(k) : ~f.repeated,
                      NEW i \in DOMAIN MetasOf(home[m], m),
                      MetasOf(home[m], m)[i].type \in Leaves
               PROVE  TableMeta(m).meta[JsonNames(MetasOf(home[m], m)[i])[1]].offset
                        = MetasOf(home[m], m)[i].offset
    BY DEF MetaMatchesRecord, MetasOf
  <2> DEFINE at    == <<home[m], m>>
             own   == fields[m]
             c     == Columns(m)
             metas == MetasOf(home[m], m)
             parts == PartsOf(at)
             t     == TableMeta(m)
  <2>1. at \in Pairs /\ at[1] = home[m] /\ at[2] = m
    BY <1>1, LayoutAssumption DEF LayoutAssumption, Legal, Typed, Pairs
  <2>2. Flatten[at].ok /\ c = Flatten[at].columns
    BY DEF GetsThrough, Columns
  <2>3. \A f \in FieldsOf(m) : f.count # NoOption => f.repeated
    BY <1>1, ReachHas DEF Labelled, Legal
  <2>4. IsSeq(own) /\ own \in Seq(Field)
    BY <1>1 DEF Legal, Typed, IsSeq
  <2>5. DOMAIN metas = DOMAIN own
    BY <2>4, MetaIs
  <2> HIDE DEF at
  <2>6. PICK g : Placed(at, g)
    BY <1>1, <2>1, <2>2, <2>3, OffsetsAre
  <2>7. PICK ends : Ends(ends, c, Len(c)) /\ Made(t, c, ends, Len(c))
    BY <1>1, TableIs
  <2>8. AreColumns(c)
    BY <1>1, <2>1, <2>2, FlatColumns DEF FlatOK
  <2>9. \A a, b \in DOMAIN c : c[a].name = c[b].name => a = b
    BY DEF NoClash, ColumnNames, Columns, IsInjective
  <2>10. i \in DOMAIN own /\ i \in 1..Len(own)
    BY <2>4, <2>5, SeqIsTuple
  <2>11. /\ Parts(parts) /\ InRow(g, parts) /\ Len(parts) = Len(own)
         /\ c = FlattenSeq(parts)
         /\ \A j \in DOMAIN own :
              /\ metas[j].type = own[j].type
              /\ metas[j].offset = SizeOf(g[j - 1])
              /\ JsonNames(metas[j]) = CopiesOf(home[m], own[j])
              /\ own[j].type \in Leaves =>
                   /\ Len(parts[j]) # 0
                   /\ parts[j][1].name = CopiesOf(home[m], own[j])[1]
    BY <2>1, <2>2, <2>6 DEF Placed
  <2> HIDE DEF c, own, metas, parts, t
  <2>12. Len(c) \in Nat /\ DOMAIN c = 1..Len(c)
    BY <2>8, SeqIsTuple DEF AreColumns
  <2>13. own[i].type \in Leaves
    BY <2>11, <2>10 DEF metas
  <2>14. Len(parts[i]) # 0 /\ parts[i][1].name = JsonNames(metas[i])[1]
    BY <2>11, <2>10, <2>13
  <2> DEFINE p == Len(g[i - 1])
  <2>15. c = FlattenSeq(parts)
    BY <2>11
  <2>16. i \in 1..Len(parts)
    BY <2>11, <2>10
  <2>17. /\ p \in Nat /\ p + 1 \in 1..Len(c) /\ c[p + 1] = parts[i][1]
         /\ \A e : Sums(e, c) => e[p] = SizeOf(g[i - 1])
    BY <2>11, <2>14, <2>15, <2>16, FirstPlace
  <2> HIDE DEF p
  <2>18. Sums(ends, c)
    BY <2>7 DEF Ends, Sums
  <2>19. t.meta[c[p + 1].name] = Entry(c, ends, p + 1)
    BY <2>7, <2>9, <2>12, <2>17, EntryOf
  <2>20. (p + 1) - 1 = p
    BY <2>17
  <2>21. t.meta[c[p + 1].name].offset = ends[p]
    BY <2>19, <2>20 DEF Entry
  <2>22. ends[p] = metas[i].offset
    BY <2>11, <2>10, <2>17, <2>18
  <2> QED
    BY <2>14, <2>17, <2>21, <2>22 DEF t, metas
<1> QED
  BY <1>1, MessagesAreLegal, PTL

-----------------------------------------------------------------------------
(* The struct of a message and the columns of another version of it.       *)

LEMMA InnerAlike ==
  ASSUME Legal, Distinct, NEW at \in Pairs, Fits(at[1], at[2]), NEW i \in DOMAIN fields[at[2]],
         InnerOf(Flatten, at, fields[at[2]][i]).ok
  PROVE  LET f == fields[at[2]][i]
         IN  Alike(MembersOf(StructLeaves, at[2], f), InnerOf(Flatten, at, f).columns,
                   Sorted(at[2]))
  BY AllAlike, InsideAlike

LEMMA CppNat ==
  ASSUME Typed, NEW file \in DOMAIN Files, NEW name
  PROVE  CppValue(file, name) \in Nat
<1>1. CppValue(file, name) = IF name = NoOption THEN 0 ELSE TheOnly(CppFound(file, name))
  BY DEF CppValue, CppFound, CppEnums, Hidden
<1>2. Visible(file) \subseteq DOMAIN Files
  BY DEF Visible, Dependencies, Typed
<1>3. \A g \in DOMAIN Files : \A rest : CppEnums(g, rest) \subseteq Nat
  BY FoundIsNat DEF CppEnums
<1>4. CppFound(file, name) \in SUBSET Nat
  BY <1>2, <1>3 DEF CppFound
<1> QED
  BY <1>1, <1>4, OnlyIsNat

\* A struct has no member of no bytes.
Full(s) == AreLeaves(s) /\ AreSized(s)

LEMMA SpreadFull ==
  ASSUME NEW copies, IsSeq(copies), NEW s, Full(s)
  PROVE  Full(Spread(copies, s))
<1> DEFINE t == Spread(copies, s)
<1>1. AreLeaves(s) /\ \A j \in DOMAIN s : s[j].size \in Nat \ {0}
  BY DEF Full, AreSized
<1>2. IsSeq(t) /\ \A x \in ToSet(t) : x = Strip(x)
  BY <1>1, SpreadLeaves
<1>3. ASSUME NEW x \in ToSet(t) PROVE x.size \in Nat \ {0}
  <2>1. PICK i \in DOMAIN copies, j \in DOMAIN s : x = Under(copies[i], s[j])
    BY <1>1, <1>3, SpreadIs DEF AreLeaves, Sized
  <2>2. Keeps(s[j])
    BY <1>1, LeavesKeep
  <2> QED
    BY <1>1, <2>1, <2>2 DEF Keeps
<1> HIDE DEF t
<1>4. \A j \in DOMAIN t : t[j] \in ToSet(t)
  BY DEF ToSet
<1>5. Full(t)
  BY <1>2, <1>3, <1>4 DEF Full, AreLeaves, AreSized, Sized
<1> QED
  BY <1>5 DEF t

LEMMA FlattenFull ==
  ASSUME NEW seqs, IsSeq(seqs), \A i \in DOMAIN seqs : Full(seqs[i])
  PROVE  Full(FlattenSeq(seqs))
<1> DEFINE t == FlattenSeq(seqs)
<1>1. \A i \in DOMAIN seqs : IsSeq(seqs[i])
  BY DEF Full, AreLeaves, Sized
<1>2. IsSeq(t) /\ ToSet(t) = UNION {ToSet(seqs[i]) : i \in DOMAIN seqs}
  BY <1>1, Flattened
<1>3. \A i \in DOMAIN seqs : \A x \in ToSet(seqs[i]) : x = Strip(x) /\ x.size \in Nat \ {0}
  BY DEF Full, AreLeaves, AreSized, ToSet
<1> HIDE DEF t
<1>4. \A j \in DOMAIN t : t[j] \in ToSet(t)
  BY DEF ToSet
<1>5. \A j \in DOMAIN t : t[j] = Strip(t[j]) /\ t[j].size \in Nat \ {0}
  BY <1>2, <1>3, <1>4
<1>6. Full(t)
  BY <1>2, <1>5 DEF Full, AreLeaves, AreSized, Sized
<1> QED
  BY <1>6 DEF t

\* Copies by the compiler.
LEMMA CppCopiesSeq ==
  ASSUME Legal, NEW k \in Messages, NEW f
  PROVE  /\ IsSeq(CppCopies(k, f))
         /\ Len(CppCopies(k, f)) = IF f.repeated THEN CppValue(home[k], f.count) ELSE 1
<1> DEFINE n == CppValue(home[k], f.count)
           c == Numbered(f.name, n)
<1>1. home[k] \in DOMAIN Files
  BY LayoutAssumption DEF LayoutAssumption, Legal, Typed
<1>2. n \in Nat
  BY <1>1, CppNat DEF Legal
<1> HIDE DEF n
<1>3. IsTuple(c, n)
  BY DEF IsTuple, Numbered
<1> HIDE DEF c
<1>4. IsSeq(c) /\ Len(c) = n
  BY <1>2, <1>3, TupleIsSeq
<1>5. IsSeq(<<f.name>>) /\ Len(<<f.name>>) = 1
  <2>1. <<f.name>> \in Seq({f.name})
    OBVIOUS
  <2> QED
    BY <2>1 DEF IsSeq
<1> QED
  BY <1>4, <1>5 DEF CppCopies, n, c

LEMMA LeafFull ==
  ASSUME NEW x, x \in Nat \ {0}
  PROVE  Full(<<[name |-> "", size |-> x]>>)
<1> DEFINE e == [name |-> "", size |-> x]
<1>1. e.size \in Nat \ {0} /\ e = Strip(e)
  BY DEF Strip
<1> HIDE DEF e
<1> DEFINE s == <<e>>
<1>2. s \in Seq({e}) /\ DOMAIN s = {1} /\ s[1] = e
  OBVIOUS
<1> HIDE DEF s
<1>3. Full(s)
  BY <1>1, <1>2 DEF Full, AreLeaves, AreSized, Sized, IsSeq
<1> QED
  BY <1>3 DEF s, e

\* The members that the field f of k becomes.
StructPart(k, f) == Spread(CppCopies(k, f), MembersOf(StructLeaves, k, f))

FullAt(h, m) == Fits(h, m) => Full(StructLeaves[m])

LEMMA PartFull ==
  ASSUME Legal, NEW h, NEW k \in Messages, Fits(h, k), NEW i \in DOMAIN fields[k],
         \A j \in Messages : Level[j] < Level[k] => FullAt(h, j)
  PROVE  Full(StructPart(k, fields[k][i]))
<1> DEFINE f == fields[k][i]
<1>1. f \in Field /\ f \in FieldsOf(k) /\ k \in Reach[k]
  BY ReachHas DEF Legal, Typed, FieldsOf, ToSet
<1>2. home[k] \in DOMAIN Files
  BY LayoutAssumption DEF LayoutAssumption, Legal, Typed
<1>3. f.type \in Messages => Level[f.type] < Level[k] /\ Reach[f.type] \subseteq Reach[k]
  BY ReachHas DEF Legal, Nested
<1>4. (f.type = "string" => CppValue(home[k], f.size) # 0) /\ f.type # "bytes"
  BY <1>1 DEF Fits
<1> SUFFICES Full(StructPart(k, f))
  OBVIOUS
<1> HIDE DEF f
<1>5. CASE f.type \in Messages
  <2>1. Fits(h, f.type)
    BY <1>3, <1>5 DEF Fits
  <2>2. Full(StructLeaves[f.type])
    BY <1>3, <1>5, <2>1 DEF FullAt
  <2>3. f.type # "string" /\ f.type # "bytes"
    <3>1. "string" \in Leaves /\ "bytes" \in Leaves /\ Messages \cap Leaves = {}
      BY LayoutAssumption DEF LayoutAssumption, Leaves, Blocks
    <3> QED
      BY <1>5, <3>1
  <2>4. MembersOf(StructLeaves, k, f) = StructLeaves[f.type]
    BY <1>5, <2>3 DEF MembersOf
  <2> QED
    BY <2>2, <2>4, CppCopiesSeq, SpreadFull DEF StructPart
<1>6. CASE f.type \notin Messages
  <2>1. CASE f.type = "string"
    <3> DEFINE x == CppValue(home[k], f.size)
    <3>1. x \in Nat \ {0}
      BY <1>2, <1>4, <2>1, CppNat DEF Legal
    <3>2. MembersOf(StructLeaves, k, f) = <<[name |-> "", size |-> x]>>
      BY <1>6, <2>1 DEF MembersOf
    <3> HIDE DEF x
    <3>3. Full(MembersOf(StructLeaves, k, f))
      BY <3>1, <3>2, LeafFull
    <3> QED
      BY <3>3, CppCopiesSeq, SpreadFull DEF StructPart
  <2>2. CASE f.type # "string"
    <3> DEFINE x == Width[f.type]
    <3>1. x \in Nat \ {0}
      BY <1>1, <1>4, <1>6, <2>2 DEF Field, Leaves, Blocks, Width
    <3>2. MembersOf(StructLeaves, k, f) = <<[name |-> "", size |-> x]>>
      BY <1>4, <1>6, <2>2 DEF MembersOf
    <3> HIDE DEF x
    <3>3. Full(MembersOf(StructLeaves, k, f))
      BY <3>1, <3>2, LeafFull
    <3> QED
      BY <3>3, CppCopiesSeq, SpreadFull DEF StructPart
  <2> QED
    BY <2>1, <2>2
<1> QED
  BY <1>5, <1>6

LEMMA StructFull ==
  ASSUME Legal, Distinct, NEW h
  PROVE  \A m \in Messages : FullAt(h, m)
<1> DEFINE T == {m \in Messages : FullAt(h, m)}
<1>1. ASSUME NEW k \in Messages, \A j \in Messages : Level[j] < Level[k] => j \in T
      PROVE  k \in T
  <2>1. SUFFICES ASSUME Fits(h, k) PROVE Full(StructLeaves[k])
    BY DEF FullAt
  <2>2. \A j \in Messages : Level[j] < Level[k] => FullAt(h, j)
    BY <1>1
  <2> HIDE DEF T
  <2> DEFINE mem == Members(k)
             b   == [i \in DOMAIN mem |-> StructPart(k, mem[i])]
  <2>3. StructLeaves[k] = FlattenSeq(b)
    BY StructIs DEF StructStep, StructPart
  <2>4. IsSeq(mem)
    BY MembersAre
  <2>5. Mapped(b, mem) /\ \A i \in DOMAIN mem : b[i] = StructPart(k, mem[i])
    BY DEF Mapped
  <2> HIDE DEF b
  <2>6. IsSeq(b) /\ DOMAIN b = DOMAIN mem
    BY <2>4, <2>5, MappedIsSeq
  <2>7. \A i \in DOMAIN mem : \E j \in DOMAIN fields[k] : mem[i] = fields[k][j]
    BY MemberIsField
  <2> HIDE DEF mem
  <2>8. \A i \in DOMAIN b : Full(b[i])
    BY <2>1, <2>2, <2>5, <2>6, <2>7, PartFull
  <2> QED
    BY <2>3, <2>6, <2>8, FlattenFull
<1> HIDE DEF T
<1>2. Level \in [Messages -> Nat]
  BY LayoutAssumption DEF LayoutAssumption
<1>3. \A m \in Messages : m \in T
  BY <1>1, <1>2, LevelSet
<1> QED
  BY <1>3 DEF T

\* Sums that are equal, of numbers none of which is larger than its fellow.
LEMMA Squeeze ==
  ASSUME NEW n \in Nat, NEW v, NEW w, \A k \in 1..n : v[k] \in Nat /\ w[k] \in Nat /\ v[k] <= w[k],
         NEW g, NEW h, Adds(g, v, n), Adds(h, w, n), g[n] = h[n]
  PROVE  \A k \in 1..n : v[k] = w[k]
<1> DEFINE Low(k)  == \A i \in 1..k : v[i] = w[i]
           T == {k \in Nat : k <= n => (g[k] <= h[k] /\ (g[k] = h[k] => Low(k)))}
<1>1. (\A k \in 0..n : g[k] \in Nat) /\ (\A k \in 0..n : h[k] \in Nat)
  <2>1. \A k \in 0..n : g[k] \in Nat
    BY AddsNat
  <2>2. \A k \in 0..n : h[k] \in Nat
    BY AddsNat
  <2> QED
    BY <2>1, <2>2
<1>2. 0 \in T
  BY DEF Adds
<1>3. ASSUME NEW k \in T PROVE k + 1 \in T
  <2>1. k \in Nat /\ (k <= n => (g[k] <= h[k] /\ (g[k] = h[k] => Low(k))))
    OBVIOUS
  <2>2. SUFFICES ASSUME k + 1 <= n
                 PROVE  g[k + 1] <= h[k + 1] /\ (g[k + 1] = h[k + 1] => Low(k + 1))
    BY <2>1
  <2>3. k + 1 \in 1..n /\ (k + 1) - 1 = k /\ k <= n /\ k \in 0..n /\ k + 1 \in 0..n
    BY <2>1, <2>2
  <2>4. g[k + 1] = g[k] + v[k + 1] /\ h[k + 1] = h[k] + w[k + 1]
    BY <2>3 DEF Adds
  <2>5. g[k] \in Nat /\ h[k] \in Nat /\ v[k + 1] \in Nat /\ w[k + 1] \in Nat /\ v[k + 1] <= w[k + 1]
    BY <1>1, <2>3
  <2>6. g[k + 1] <= h[k + 1]
    BY <2>1, <2>3, <2>4, <2>5
  <2>7. ASSUME g[k + 1] = h[k + 1] PROVE Low(k + 1)
    <3>1. g[k] = h[k] /\ v[k + 1] = w[k + 1]
      BY <2>1, <2>3, <2>4, <2>5, <2>7
    <3>2. Low(k)
      BY <2>1, <2>3, <3>1
    <3>3. \A i \in 1..(k + 1) : i \in 1..k \/ i = k + 1
      BY <2>1
    <3> QED
      BY <3>1, <3>2, <3>3
  <2> QED
    BY <2>6, <2>7
<1>4. \A k \in Nat : k \in T
  <2>1. T \in SUBSET Nat
    OBVIOUS
  <2> HIDE DEF T
  <2> QED
    BY <1>2, <1>3, <2>1, NatSet
<1> QED
  BY <1>4

LEMMA NoneIsSized == Sized(<<>>) /\ SizeOf(<<>>) = 0 /\ Len(<<>>) = 0
<1> DEFINE e == <<>>
           z == [k \in {0} |-> 0]
<1>1. IsTuple(e, 0) /\ Len(e) = 0
  BY DEF IsTuple
<1>2. IsSeq(e) /\ DOMAIN e = {}
  BY <1>1, TupleIsSeq
<1> HIDE DEF e
<1>3. Sized(e)
  BY <1>2 DEF Sized
<1>4. Sums(z, e) /\ z[0] = 0
  BY <1>1 DEF Sums
<1> HIDE DEF z
<1>5. SizeOf(e) = 0
  BY <1>1, <1>3, <1>4, SizeIs
<1> QED
  BY <1>1, <1>3, <1>5 DEF e

LEMMA EmptyIs ==
  ASSUME NEW s, IsSeq(s), DOMAIN s = {}
  PROVE  s = <<>>
  BY DEF IsSeq

\* What comes after the first n parts is empty.
LEMMA FlattenPadded ==
  ASSUME NEW a, Parts(a), NEW b, Parts(b), Len(a) <= Len(b),
         \A i \in 1..Len(a) : b[i] = a[i],
         \A i \in (Len(a) + 1)..Len(b) : b[i] = <<>>
  PROVE  FlattenSeq(b) = FlattenSeq(a)
<1> DEFINE m == Len(a)
           n == Len(b)
           Same(x, y, k) == x[k] = IF k <= m THEN y[k] ELSE y[m]
<1>1. m \in Nat /\ n \in Nat /\ m <= n
  BY SeqIsTuple DEF Parts
<1>2. PICK g : InRow(g, a)
  BY FlattenSizes
<1>3. PICK h : InRow(h, b)
  BY FlattenSizes
<1>4. (\A i \in 1..m : b[i] = a[i]) /\ \A i \in (m + 1)..n : b[i] = <<>>
  OBVIOUS
<1> HIDE DEF m, n
<1>5. /\ g[0] = <<>> /\ g[m] = FlattenSeq(a) /\ Sized(g[m])
      /\ \A k \in 1..m : g[k] = g[k - 1] \o a[k]
  <2>1. g[0] = <<>> /\ g[m] = FlattenSeq(a) /\ \A k \in 1..m : g[k] = g[k - 1] \o a[k]
    BY <1>2 DEF InRow, m
  <2>2. \A k \in 0..m : Sized(g[k])
    BY <1>2 DEF InRow, m
  <2>3. m \in 0..m
    BY <1>1
  <2> QED
    BY <2>1, <2>2, <2>3
<1>6. /\ h[0] = <<>> /\ h[n] = FlattenSeq(b)
      /\ \A k \in 1..n : h[k] = h[k - 1] \o b[k]
  BY <1>3 DEF InRow, n
<1> DEFINE T == {k \in Nat : k <= n => Same(h, g, k)}
<1>7. 0 \in T
  BY <1>1, <1>5, <1>6
<1>8. ASSUME NEW k \in T PROVE k + 1 \in T
  <2>1. k \in Nat /\ (k <= n => Same(h, g, k))
    OBVIOUS
  <2>2. SUFFICES ASSUME k + 1 <= n PROVE Same(h, g, k + 1)
    BY <2>1
  <2>3. k + 1 \in 1..n /\ (k + 1) - 1 = k /\ k <= n
    BY <1>1, <2>1, <2>2
  <2>4. h[k + 1] = h[k] \o b[k + 1] /\ Same(h, g, k)
    BY <1>6, <2>1, <2>3
  <2>5. CASE k + 1 <= m
    <3>1. k + 1 \in 1..m /\ k <= m
      BY <1>1, <2>1, <2>5
    <3>2. g[k + 1] = g[k] \o a[k + 1] /\ b[k + 1] = a[k + 1] /\ h[k] = g[k]
      BY <1>5, <1>4, <2>3, <2>4, <3>1
    <3> QED
      BY <2>4, <2>5, <3>2
  <2>6. CASE ~(k + 1 <= m)
    <3>1. k + 1 \in (m + 1)..n /\ (k <= m => k = m)
      BY <1>1, <2>1, <2>3, <2>6
    <3>2. b[k + 1] = <<>> /\ h[k] = g[m]
      BY <1>4, <2>4, <3>1
    <3>3. g[m] \o <<>> = g[m]
      <4> DEFINE s == g[m]
      <4>1. PICK E : s \in Seq(E)
        BY <1>5 DEF Sized, IsSeq
      <4> HIDE DEF s
      <4>2. s \o <<>> = s
        BY <4>1
      <4> QED
        BY <4>2 DEF s
    <3> QED
      BY <2>4, <2>6, <3>2, <3>3
  <2> QED
    BY <2>5, <2>6
<1>9. \A k \in Nat : k \in T
  <2>1. T \in SUBSET Nat
    OBVIOUS
  <2> HIDE DEF T
  <2> QED
    BY <1>7, <1>8, <2>1, NatSet
<1>10. Same(h, g, n)
  BY <1>1, <1>9
<1>11. n <= m => n = m
  BY <1>1
<1> QED
  BY <1>5, <1>6, <1>10, <1>11

LEMMA SpreadNothing ==
  ASSUME NEW copies, IsSeq(copies), NEW inner, IsSeq(inner), DOMAIN inner = {}
  PROVE  Spread(copies, inner) = <<>>
<1> DEFINE t == Spread(copies, inner)
<1>1. IsSeq(t) /\ ToSet(t) = {}
  BY SpreadIs
<1> HIDE DEF t
<1>2. DOMAIN t = {}
  BY <1>1 DEF ToSet
<1>3. t = <<>>
  BY <1>1, <1>2, EmptyIs
<1> QED
  BY <1>3 DEF t

\* The field s another version of k has, as far as the meta data tell it from
\* the field f of this one.
Matches(h, k, s, f) ==
  /\ s.name = f.name /\ s.type = f.type
  /\ s.type \notin Messages => LeafSize(k, s) = LeafSize(k, f)
  /\ MetaCount(h, s) = MetaCount(h, f) /\ MetaCount(h, f) # 0
  /\ s.repeated => s.count # NoOption /\ GetEnumValue(h, s.count) # 1
  /\ f.repeated => GetEnumValue(h, f.count) # 1
  /\ f.count # NoOption => f.repeated
  /\ InnerOf(Flatten, <<h, k>>, s).ok

LEMMA PartMatch ==
  ASSUME Legal, Distinct, NEW h \in DOMAIN Files, NEW k \in Messages, Fits(h, k), Sorted(k),
         NEW i \in DOMAIN fields[k], NEW s, Matches(h, k, s, fields[k][i])
  PROVE  LET p == PartOf(<<h, k>>, s)
             b == StructPart(k, fields[k][i])
         IN  /\ Sized(p) /\ Sized(b) /\ SizeOf(p) <= SizeOf(b)
             /\ SizeOf(p) = SizeOf(b) => b = Stripped(p)
<1> DEFINE at == <<h, k>>
           f  == fields[k][i]
           u  == MembersOf(StructLeaves, k, f)
           v  == InnerOf(Flatten, at, f).columns
           c  == CopiesOf(h, s)
           d  == CppCopies(k, f)
           n  == MetaCount(h, f)
<1>1. at \in Pairs /\ at[1] = h /\ at[2] = k
  BY DEF Pairs
<1>2. f \in Field /\ f \in FieldsOf(k) /\ k \in Reach[k]
  BY ReachHas DEF Legal, Typed, FieldsOf, ToSet
<1>3. home[k] \in DOMAIN Files
  BY LayoutAssumption DEF LayoutAssumption, Legal, Typed
<1>4. InnerOf(Flatten, at, s) = InnerOf(Flatten, at, f)
  BY <1>1 DEF Matches, InnerOf, Leaf
<1>5. Alike(u, v, TRUE)
  <2>1. InnerOf(Flatten, at, f).ok
    BY <1>4 DEF Matches
  <2>2. Fits(at[1], at[2]) /\ Sorted(at[2]) /\ i \in DOMAIN fields[at[2]]
    BY <1>1
  <2>3. Alike(u, v, Sorted(k))
    BY <1>1, <2>1, <2>2, InnerAlike
  <2> QED
    BY <2>3 DEF Alike
<1>6. f.repeated => /\ CppValue(home[k], f.count) # 0
                    /\ GetEnumValue(h, f.count) = GetEnumValue(home[k], f.count)
  BY <1>2 DEF Fits
<1>7. f.repeated => f.count # NoOption
  BY <1>6 DEF CppValue
<1>8. f.repeated => n = CppValue(home[k], f.count)
  <2> SUFFICES ASSUME f.repeated PROVE n = CppValue(home[k], f.count)
    OBVIOUS
  <2>1. n = GetEnumValue(h, f.count) /\ n # 0
    BY <1>7 DEF Matches, MetaCount
  <2>2. f.count \in Seq(STRING)
    BY <1>2 DEF Field
  <2> HIDE DEF f, n
  <2>3. GetEnumValue(home[k], f.count) # 0
    BY <1>6, <2>1
  <2> QED
    BY <1>3, <1>6, <2>1, <2>2, <2>3, LookupOf
<1>9. (f.repeated => n # 1) /\ (~f.repeated => n = 1)
  BY <1>7 DEF Matches, MetaCount
<1>10. s.repeated => GetEnumValue(h, s.count) = n /\ n # 1
  BY DEF Matches, MetaCount
<1>11. s.name = f.name
  BY DEF Matches
<1>12. n \in Nat \ {0}
  <2>1. n # 0
    BY DEF Matches
  <2>2. n \in Nat
    BY ValueIsNat DEF MetaCount, Legal
  <2> QED
    BY <2>1, <2>2
<1>13. IsSeq(c) /\ IsSeq(d)
  BY CopiesAre, CppCopiesSeq DEF Legal
<1>14. PartOf(at, s) = Spread(c, v) /\ StructPart(k, f) = Spread(d, u)
  BY <1>1, <1>4 DEF PartOf, StructPart
<1>15. d = IF f.repeated THEN Numbered(f.name, n) ELSE <<f.name>>
  BY <1>8 DEF CppCopies
<1>16. c = IF s.repeated THEN Numbered(f.name, n) ELSE <<f.name>>
  BY <1>10, <1>11 DEF CopiesOf
<1>17. Len(d) = n
  BY <1>8, <1>9, CppCopiesSeq
<1> SUFFICES /\ Sized(Spread(c, v)) /\ Sized(Spread(d, u))
             /\ SizeOf(Spread(c, v)) <= SizeOf(Spread(d, u))
             /\ SizeOf(Spread(c, v)) = SizeOf(Spread(d, u)) => Spread(d, u) = Stripped(Spread(c, v))
  BY <1>14
<1> HIDE DEF at, f, u, v, c, d, n
<1>18. c = d \/ (Len(c) = 1 /\ ~(n = 1))
  <2>1. CASE s.repeated
    BY <1>9, <1>10, <1>15, <1>16, <2>1
  <2>2. CASE ~s.repeated
    <3>1. c = <<f.name>>
      BY <1>16, <2>2
    <3>2. Len(c) = 1
      BY <3>1
    <3> QED
      BY <1>9, <1>15, <3>1, <3>2
  <2> QED
    BY <2>1, <2>2
<1>19. /\ AreLeaves(u) /\ AreColumns(v) /\ AreSized(v) /\ SizeOf(u) = SizeOf(v)
       /\ u = Stripped(v)
  BY <1>5 DEF Alike
<1>20. Sized(u) /\ (\A j \in DOMAIN u : Keeps(u[j])) /\ Sized(v) /\ (\A j \in DOMAIN v : Keeps(v[j]))
  BY <1>19, LeavesKeep, ColumnsKeep
<1> DEFINE t == SizeOf(v)
<1>21. t \in Nat
  BY <1>20, SizeSteps, SizeIs DEF Sized
<1>22. /\ Sized(Spread(d, u)) /\ SizeOf(Spread(d, u)) = n * t
  <2>1. Sized(Spread(d, u)) /\ SizeOf(Spread(d, u)) = SizeOf(Spread(d, v))
    BY <1>13, <1>19, <1>20, SpreadSize
  <2>2. SizeOf(Spread(d, v)) = Len(d) * SizeOf(v)
    BY <1>13, <1>19, SpreadPlace
  <2> QED
    BY <1>17, <2>1, <2>2
<1>23. Sized(Spread(c, v)) /\ SizeOf(Spread(c, v)) = Len(c) * t
  BY <1>13, <1>19, SpreadPlace
<1> HIDE DEF t
<1>24. CASE c = d
  <2>1. Spread(d, u) = Stripped(Spread(c, v))
    BY <1>13, <1>19, <1>24, StripSpread
  <2>2. SizeOf(Spread(c, v)) = SizeOf(Spread(d, u)) /\ n * t \in Int
    BY <1>12, <1>17, <1>21, <1>22, <1>23, <1>24
  <2> QED
    BY <1>22, <1>23, <2>1, <2>2
<1>25. CASE Len(c) = 1 /\ n # 1
  <2>1. n - 2 \in Nat
    BY <1>12, <1>25
  <2>2. n * t = t + t + (n - 2) * t
    BY <1>12, <1>21
  <2>3. (n - 2) * t \in Nat
    BY <1>21, <2>1
  <2>4. SizeOf(Spread(c, v)) = t
    BY <1>21, <1>23, <1>25
  <2> DEFINE q == (n - 2) * t
  <2> HIDE DEF q
  <2>5. SizeOf(Spread(d, u)) = t + t + q /\ q \in Nat
    BY <1>22, <2>2, <2>3 DEF q
  <2>6. SizeOf(Spread(c, v)) <= SizeOf(Spread(d, u))
    BY <1>21, <2>4, <2>5
  <2>7. ASSUME SizeOf(Spread(c, v)) = SizeOf(Spread(d, u))
        PROVE  Spread(d, u) = Stripped(Spread(c, v))
    <3>1. t = 0
      BY <1>21, <2>4, <2>5, <2>7
    <3>2. \A j \in DOMAIN v : v[j].size # 0
      BY <1>19 DEF AreSized
    <3>3. DOMAIN v = {}
      BY <1>20, <3>1, <3>2, SizePositive DEF t
    <3>4. DOMAIN u = {}
      BY <1>19, <3>3 DEF Stripped
    <3>5. Spread(d, u) = <<>> /\ Spread(c, v) = <<>>
      BY <1>13, <1>20, <3>3, <3>4, SpreadNothing DEF Sized
    <3>6. Stripped(<<>>) = <<>>
      BY DEF Stripped
    <3> QED
      BY <3>5, <3>6
  <2> QED
    BY <1>22, <1>23, <2>6, <2>7
<1> QED
  BY <1>18, <1>24, <1>25

\* c is the columns of the fields s, which the meta data do not tell from the
\* first of k, and takes as much as the struct.
MadeLike(h, k, s, c) ==
  /\ IsSeq(s) /\ Len(s) <= Len(fields[k])
  /\ \A i \in DOMAIN s : Matches(h, k, s[i], fields[k][i])
  /\ \E p : /\ Mapped(p, s) /\ \A i \in DOMAIN s : p[i] = PartOf(<<h, k>>, s[i])
            /\ c = FlattenSeq(p)
  /\ SizeOf(c) = SizeOf(StructLeaves[k])

\* Then the struct is made of these columns, whatever other fields k has.
LEMMA SameStruct ==
  ASSUME Legal, Distinct, NEW h \in DOMAIN Files, NEW k \in Messages, Fits(h, k), Sorted(k),
         NEW s, NEW c, MadeLike(h, k, s, c)
  PROVE  StructLeaves[k] = Stripped(c)
<1>0. PICK p : /\ Mapped(p, s) /\ \A i \in DOMAIN s : p[i] = PartOf(<<h, k>>, s[i])
               /\ c = FlattenSeq(p)
  BY DEF MadeLike
<1> DEFINE own == fields[k]
           m == Len(s)
           n == Len(own)
           a == [i \in 1..n |-> IF i <= m THEN p[i] ELSE <<>>]
           b == [i \in DOMAIN own |-> StructPart(k, own[i])]
<1>1. IsSeq(own) /\ own = Members(k) /\ IsSeq(s) /\ m <= n
  BY ReachHas DEF Legal, Typed, IsSeq, Sorted, MadeLike
<1>2. n \in Nat /\ DOMAIN own = 1..n /\ m \in Nat /\ DOMAIN s = 1..m /\ m <= n
  BY <1>1, SeqIsTuple
<1>3. StructLeaves[k] = FlattenSeq(b)
  BY <1>1, StructIs DEF StructStep, StructPart
<1>4. /\ Mapped(p, s) /\ Mapped(b, own) /\ IsTuple(a, n)
      /\ \A i \in 1..m : p[i] = PartOf(<<h, k>>, s[i])
      /\ \A i \in 1..n : b[i] = StructPart(k, own[i])
      /\ \A i \in 1..n : a[i] = IF i <= m THEN p[i] ELSE <<>>
  BY <1>0, <1>2 DEF Mapped, IsTuple
<1>5. \A i \in 1..m : Matches(h, k, s[i], own[i])
  BY <1>2 DEF MadeLike
<1>6. c = FlattenSeq(p) /\ SizeOf(c) = SizeOf(StructLeaves[k])
  BY <1>0 DEF MadeLike
<1> HIDE DEF own, m, n, a, b
<1>7. /\ IsSeq(p) /\ DOMAIN p = 1..m /\ Len(p) = m
      /\ IsSeq(b) /\ DOMAIN b = 1..n /\ Len(b) = n
      /\ IsSeq(a) /\ DOMAIN a = 1..n /\ Len(a) = n
  BY <1>1, <1>2, <1>4, MappedIsSeq, TupleIsSeq DEF m, n
<1>8. ASSUME NEW i \in 1..m
      PROVE  /\ i \in 1..n /\ Sized(p[i]) /\ SizeOf(p[i]) <= SizeOf(b[i])
             /\ SizeOf(p[i]) = SizeOf(b[i]) => b[i] = Stripped(p[i])
  <2>1. i \in 1..n
    BY <1>2
  <2>2. i \in DOMAIN fields[k] /\ Matches(h, k, s[i], fields[k][i])
    BY <1>2, <1>5, <2>1 DEF own
  <2>3. p[i] = PartOf(<<h, k>>, s[i]) /\ b[i] = StructPart(k, fields[k][i])
    BY <1>4, <2>1 DEF own
  <2> QED
    BY <2>1, <2>2, <2>3, PartMatch
<1>9. ASSUME NEW i \in 1..n
      PROVE  Full(b[i])
  <2>1. i \in DOMAIN fields[k] /\ b[i] = StructPart(k, fields[k][i])
    BY <1>2, <1>4 DEF own
  <2> QED
    BY <2>1, PartFull, StructFull
<1>10. \A i \in 1..n : Sized(b[i])
  BY <1>9 DEF Full, AreLeaves
<1>11. ASSUME NEW x, Sized(x) PROVE SizeOf(x) \in Nat
  BY <1>11, SizeSteps, SizeIs DEF Sized
<1>12. ASSUME NEW i \in 1..n
       PROVE  /\ Sized(a[i]) /\ SizeOf(a[i]) \in Nat /\ SizeOf(b[i]) \in Nat
              /\ SizeOf(a[i]) <= SizeOf(b[i])
              /\ SizeOf(a[i]) = SizeOf(b[i]) => b[i] = Stripped(a[i])
  <2>1. SizeOf(b[i]) \in Nat
    BY <1>10, <1>11
  <2>2. CASE i <= m
    <3>1. a[i] = p[i] /\ i \in 1..m
      BY <1>2, <1>4, <2>2
    <3> QED
      BY <1>8, <1>11, <2>1, <3>1
  <2>3. CASE ~(i <= m)
    <3>1. a[i] = <<>>
      BY <1>4, <2>3
    <3>2. Sized(a[i]) /\ SizeOf(a[i]) = 0
      BY <3>1, NoneIsSized
    <3>3. ASSUME SizeOf(b[i]) = 0 PROVE b[i] = Stripped(a[i])
      <4>1. \A j \in DOMAIN b[i] : b[i][j].size # 0
        BY <1>9 DEF Full, AreSized
      <4>2. DOMAIN b[i] = {}
        BY <1>10, <3>3, <4>1, SizePositive
      <4>3. b[i] = <<>>
        BY <1>10, <4>2, EmptyIs DEF Sized
      <4>4. Stripped(<<>>) = <<>>
        BY DEF Stripped
      <4> QED
        BY <3>1, <4>3, <4>4
    <3> QED
      BY <2>1, <3>2, <3>3
  <2> QED
    BY <2>2, <2>3
<1>13. Parts(a) /\ Parts(b) /\ Parts(p)
  BY <1>7, <1>8, <1>10, <1>12 DEF Parts
<1>14. FlattenSeq(a) = FlattenSeq(p)
  <2>1. \A i \in 1..Len(p) : a[i] = p[i]
    BY <1>2, <1>4, <1>7
  <2>2. \A i \in (Len(p) + 1)..Len(a) : a[i] = <<>>
    BY <1>2, <1>4, <1>7
  <2> QED
    BY <1>2, <1>7, <1>13, <2>1, <2>2, FlattenPadded
<1>15. PICK g : /\ g[0] = 0
                /\ \A i \in 1..Len(a) : g[i] = g[i - 1] + SizeOf(a[i])
                /\ g[Len(a)] = SizeOf(FlattenSeq(a))
  BY <1>13, SizeFlatten
<1>16. PICK f : /\ f[0] = 0
                /\ \A i \in 1..Len(b) : f[i] = f[i - 1] + SizeOf(b[i])
                /\ f[Len(b)] = SizeOf(FlattenSeq(b))
  BY <1>13, SizeFlatten
<1> DEFINE v == [i \in 1..n |-> SizeOf(a[i])]
           w == [i \in 1..n |-> SizeOf(b[i])]
<1>17. \A i \in 1..n : v[i] = SizeOf(a[i]) /\ w[i] = SizeOf(b[i])
  OBVIOUS
<1> HIDE DEF v, w
<1>18. Adds(g, v, n) /\ Adds(f, w, n)
  BY <1>7, <1>15, <1>16, <1>17 DEF Adds
<1>19. g[n] = f[n]
  BY <1>3, <1>6, <1>7, <1>14, <1>15, <1>16
<1>20. \A i \in 1..n : v[i] \in Nat /\ w[i] \in Nat /\ v[i] <= w[i]
  BY <1>12, <1>17
<1>21. \A i \in 1..n : v[i] = w[i]
  <2>1. n \in Nat /\ Adds(g, v, n) /\ Adds(f, w, n)
    BY <1>2, <1>18
  <2> QED
    BY ONLY <2>1, <1>19, <1>20, Squeeze, Z3
<1>22. \A i \in 1..n : b[i] = Stripped(a[i])
  BY <1>12, <1>17, <1>21
<1>23. FlattenSeq(b) = Stripped(FlattenSeq(a))
  BY <1>7, <1>12, <1>22, StripFlatten DEF Sized
<1> QED
  BY <1>3, <1>6, <1>14, <1>23

\* Meta data as they follow each other.
InOrder(metas) ==
  /\ IsSeq(metas)
  /\ \A i \in DOMAIN metas :
       /\ metas[i].offset \in Nat /\ metas[i].count * metas[i].size \in Nat \ {0}
       /\ metas[i].offset = IF i = 1 THEN 0 ELSE After(metas[i - 1])

LEMMA InOrderEnds ==
  ASSUME NEW metas, InOrder(metas)
  PROVE  LET n == Len(metas)
         IN  /\ n \in Nat /\ DOMAIN metas = 1..n
             /\ \E ends, c : /\ Ends(ends, c, n)
                             /\ \A i \in 1..n : /\ metas[i].offset = ends[i - 1]
                                                /\ After(metas[i]) = ends[i]
<1> DEFINE n == Len(metas)
           ends == [k \in 0..n |-> IF k = 0 THEN 0 ELSE After(metas[k])]
           c == [k \in 1..n |-> [size |-> metas[k].count * metas[k].size]]
<1>1. n \in Nat /\ DOMAIN metas = 1..n
  BY SeqIsTuple DEF InOrder
<1>2. /\ \A k \in 0..n : ends[k] = IF k = 0 THEN 0 ELSE After(metas[k])
      /\ \A k \in 1..n : c[k].size = metas[k].count * metas[k].size
  OBVIOUS
<1> HIDE DEF n, ends, c
<1>3. ASSUME NEW k \in 1..n
      PROVE  /\ c[k].size \in Nat \ {0} /\ metas[k].offset = ends[k - 1]
             /\ ends[k] = ends[k - 1] + c[k].size /\ ends[k] \in Nat
             /\ After(metas[k]) = ends[k]
  <2>1. /\ metas[k].offset \in Nat /\ metas[k].count * metas[k].size \in Nat \ {0}
        /\ metas[k].offset = IF k = 1 THEN 0 ELSE After(metas[k - 1])
    BY <1>1, <1>3 DEF InOrder
  <2>2. k \in 0..n /\ k - 1 \in 0..n /\ (k = 1 <=> k - 1 = 0) /\ k # 0
    BY <1>1
  <2>3. metas[k].offset = ends[k - 1]
    BY <1>2, <2>1, <2>2
  <2>4. ends[k] = After(metas[k])
    BY <1>2, <2>2
  <2>5. After(metas[k]) = metas[k].offset + c[k].size
    BY <1>2 DEF After
  <2>6. c[k].size \in Nat \ {0}
    BY <1>2, <2>1
  <2> QED
    BY <2>1, <2>3, <2>4, <2>5, <2>6
<1>4. ends[0] = 0
  BY <1>1, <1>2
<1>5. \A k \in 0..n : ends[k] \in Nat
  <2>1. \A k \in 0..n : k = 0 \/ k \in 1..n
    BY <1>1
  <2> QED
    BY <1>3, <1>4, <2>1
<1>6. Ends(ends, c, n)
  BY <1>3, <1>4, <1>5 DEF Ends
<1> QED
  BY <1>1, <1>3, <1>6 DEF n

Like(x, y) == x.offset = y.offset /\ After(x) = After(y)

LEMMA RowIn ==
  ASSUME NEW A, InOrder(A), NEW B, InOrder(B),
         \A i \in DOMAIN A : \E j \in DOMAIN B : Like(A[i], B[j])
  PROVE  \A i \in 1..Len(A) : i \in 1..Len(B) /\ Like(A[i], B[i])
<1> DEFINE m == Len(A)
           n == Len(B)
<1>1. m \in Nat /\ DOMAIN A = 1..m /\ n \in Nat /\ DOMAIN B = 1..n
  BY InOrderEnds
<1>2. PICK ends, c : /\ Ends(ends, c, n)
                     /\ \A i \in 1..n : /\ B[i].offset = ends[i - 1]
                                        /\ After(B[i]) = ends[i]
  BY InOrderEnds
<1> HIDE DEF m, n
<1>3. ASSUME NEW i \in 1..n, NEW j \in 1..n, B[i].offset = B[j].offset PROVE i = j
  <2>1. ends[i - 1] \in Nat /\ Has(ends, i, ends[i - 1])
    BY <1>1, <1>2, FirstByte
  <2>2. Has(ends, j, ends[j - 1])
    BY <1>1, <1>2, FirstByte
  <2>3. ends[i - 1] = ends[j - 1]
    BY <1>2, <1>3
  <2> QED
    BY <1>1, <1>2, <2>1, <2>2, <2>3, OneHas
<1> DEFINE T == {i \in Nat : i \in 1..m => i \in 1..n /\ Like(A[i], B[i])}
<1>4. 0 \in T
  OBVIOUS
<1>5. ASSUME NEW i \in T PROVE i + 1 \in T
  <2>1. i \in Nat /\ (i \in 1..m => i \in 1..n /\ Like(A[i], B[i]))
    OBVIOUS
  <2>2. SUFFICES ASSUME i + 1 \in 1..m PROVE i + 1 \in 1..n /\ Like(A[i + 1], B[i + 1])
    BY <2>1
  <2>3. PICK j \in 1..n : Like(A[i + 1], B[j])
    BY <1>1, <2>2
  <2>4. i + 1 \in 1..n /\ B[i + 1].offset = B[j].offset
    <3>1. CASE i = 0
      <4>1. A[1].offset = 0 /\ i + 1 = 1
        BY <1>1, <2>2, <3>1 DEF InOrder
      <4>2. 1 \in 1..n /\ B[1].offset = 0
        BY <1>1, <2>3 DEF InOrder
      <4> QED
        BY <2>3, <4>1, <4>2 DEF Like
    <3>2. CASE i # 0
      <4>1. i \in 1..m /\ (i + 1) - 1 = i /\ i + 1 # 1
        BY <1>1, <2>1, <2>2, <3>2
      <4>2. i \in 1..n /\ After(A[i]) = ends[i]
        BY <1>2, <2>1, <4>1 DEF Like
      <4>3. A[i + 1].offset = After(A[i])
        BY <1>1, <2>2, <4>1 DEF InOrder
      <4>4. B[j].offset = ends[i] /\ ends[j - 1] = ends[i]
        BY <1>2, <2>3, <4>2, <4>3 DEF Like
      <4>5. i # n
        <5>1. ends[j - 1] < ends[n] /\ ends[j - 1] \in Nat
          BY <1>1, <1>2, FirstByte
        <5> QED
          BY <4>4, <5>1
      <4>6. i + 1 \in 1..n
        BY <1>1, <4>2, <4>5
      <4>7. B[i + 1].offset = ends[i]
        BY <1>2, <4>1, <4>6
      <4> QED
        BY <4>4, <4>6, <4>7
    <3> QED
      BY <3>1, <3>2
  <2>5. i + 1 = j
    BY <1>3, <2>4
  <2> QED
    BY <2>3, <2>4, <2>5
<1>6. \A i \in Nat : i \in T
  <2>1. T \in SUBSET Nat
    OBVIOUS
  <2> HIDE DEF T
  <2> QED
    BY <1>4, <1>5, <2>1, NatSet
<1>7. \A i \in 1..m : i \in 1..n /\ Like(A[i], B[i])
  BY <1>1, <1>6
<1> QED
  BY <1>7 DEF m, n

\* Who has the same offsets has them in the same order.
LEMMA SameRow ==
  ASSUME NEW A, InOrder(A), NEW B, InOrder(B),
         \A i \in DOMAIN A : \E j \in DOMAIN B : Like(A[i], B[j]),
         \A j \in DOMAIN B : \E i \in DOMAIN A : Like(B[j], A[i])
  PROVE  /\ Len(A) = Len(B) /\ Len(A) \in Nat /\ DOMAIN A = 1..Len(A) /\ DOMAIN B = 1..Len(A)
         /\ \A i \in DOMAIN A : \A j \in DOMAIN B : A[i].offset = B[j].offset => i = j
<1> DEFINE m == Len(A)
           n == Len(B)
<1>1. m \in Nat /\ DOMAIN A = 1..m /\ n \in Nat /\ DOMAIN B = 1..n
  BY InOrderEnds
<1>2. PICK ends, c : /\ Ends(ends, c, n)
                     /\ \A i \in 1..n : /\ B[i].offset = ends[i - 1]
                                        /\ After(B[i]) = ends[i]
  BY InOrderEnds
<1>3. \A i \in 1..m : i \in 1..n /\ A[i].offset = B[i].offset
  BY RowIn DEF Like
<1>4. \A i \in 1..n : i \in 1..m
  BY RowIn
<1> HIDE DEF m, n
<1>5. m = n
  BY <1>1, <1>3, <1>4
<1>6. ASSUME NEW i \in 1..n, NEW j \in 1..n, A[i].offset = B[j].offset PROVE i = j
  <2>1. ends[i - 1] \in Nat /\ Has(ends, i, ends[i - 1])
    BY <1>1, <1>2, FirstByte
  <2>2. Has(ends, j, ends[j - 1])
    BY <1>1, <1>2, FirstByte
  <2>3. ends[i - 1] = ends[j - 1]
    BY <1>2, <1>3, <1>5, <1>6
  <2> QED
    BY <1>1, <1>2, <2>1, <2>2, <2>3, OneHas
<1> QED
  BY <1>1, <1>5, <1>6 DEF m, n

LEMMA ReachInside ==
  ASSUME Legal
  PROVE  \A m \in Messages : \A k \in Reach[m] : Reach[k] \subseteq Reach[m]
<1> DEFINE T == {m \in Messages : \A k \in Reach[m] : Reach[k] \subseteq Reach[m]}
<1>1. Level \in [Messages -> Nat]
  BY LayoutAssumption DEF LayoutAssumption
<1>2. ASSUME NEW m \in Messages, \A k \in Messages : Level[k] < Level[m] => k \in T
      PROVE  m \in T
  <2>1. ASSUME NEW k \in Reach[m] PROVE Reach[k] \subseteq Reach[m]
    <3>1. Reach[m] = ReachStep(Reach, m)
      BY ReachIs DEF Legal
    <3>2. CASE k = m
      BY <3>2
    <3>3. CASE k # m
      <4>1. PICK i \in DOMAIN fields[m] : /\ fields[m][i].type \in Messages
                                          /\ k \in Reach[fields[m][i].type]
        BY <2>1, <3>1, <3>3 DEF ReachStep
      <4> DEFINE j == fields[m][i].type
      <4>2. j \in Messages /\ k \in Reach[j] /\ Level[j] < Level[m] /\ Reach[j] \subseteq Reach[m]
        BY <4>1, ReachHas DEF Legal, Nested
      <4> HIDE DEF j
      <4>3. Reach[k] \subseteq Reach[j]
        BY <1>2, <4>2
      <4> QED
        BY <4>2, <4>3
    <3> QED
      BY <3>2, <3>3
  <2> QED
    BY <2>1
<1> HIDE DEF T
<1>3. \A m \in Messages : m \in T
  BY <1>1, <1>2, LevelSet
<1> QED
  BY <1>3 DEF T

\* The messages below m are those of the fields of m and of messages below m.
LEMMA ReachBelow ==
  ASSUME Legal, NEW m \in Messages, NEW k \in Reach[m], NEW i \in DOMAIN fields[k],
         fields[k][i].type \in Messages
  PROVE  fields[k][i].type \in Reach[m] \ {m}
<1> DEFINE j == fields[k][i].type
<1>1. k \in Messages /\ Level[k] <= Level[m] /\ Reach[k] \subseteq Reach[m]
  BY ReachLower, ReachInside
<1>2. j \in Messages /\ Level[j] < Level[k]
  BY <1>1 DEF Legal, Nested
<1>3. Reach[j] \subseteq Reach[k]
  BY <1>1, ReachHas DEF Legal
<1> HIDE DEF j
<1>4. j \in Reach[j]
  BY <1>2, ReachHas DEF Legal
<1>5. Level[j] \in Nat /\ Level[k] \in Nat /\ Level[m] \in Nat
  BY <1>1, <1>2, LayoutAssumption DEF LayoutAssumption
<1> QED
  BY <1>1, <1>2, <1>3, <1>4, <1>5 DEF j

LEMMA TableSize ==
  ASSUME Legal, NEW m \in Messages, GetsThrough(m)
  PROVE  /\ TableMeta(m).size = SizeOf(Columns(m))
         /\ AreColumns(Columns(m)) /\ AreSized(Columns(m))
<1> DEFINE c  == Columns(m)
           at == <<home[m], m>>
<1>1. at \in Pairs
  BY LayoutAssumption DEF LayoutAssumption, Legal, Typed, Pairs
<1>2. AreColumns(c) /\ AreSized(c)
  BY <1>1, FlatColumns DEF FlatOK, GetsThrough, Columns
<1>3. PICK ends : Ends(ends, c, Len(c)) /\ Made(TableMeta(m), c, ends, Len(c))
  BY TableIs
<1> HIDE DEF c, at
<1>4. Sums(ends, c)
  BY <1>3 DEF Ends, Sums
<1>5. Sized(c)
  BY <1>2, ColumnsKeep
<1>6. SizeOf(c) = ends[Len(c)]
  BY <1>4, <1>5, SizeIs
<1> QED
  BY <1>2, <1>3, <1>6 DEF Made, c

\* A member that has the bytes of a column has its name.
LEMMA ColumnAt ==
  ASSUME Legal, NEW m \in Messages, GetsThrough(m), NoClash(m),
         NEW leaves, leaves = Stripped(Columns(m)), NEW j \in DOMAIN leaves
  PROVE  LET meta == TableMeta(m).meta
         IN  {x \in DOMAIN meta : /\ meta[x].offset = SizeOf(SubSeq(leaves, 1, j - 1))
                                  /\ meta[x].size = leaves[j].size} = {leaves[j].name}
<1> DEFINE c == Columns(m)
           n == Len(c)
           t == TableMeta(m)
           at == <<home[m], m>>
<1>1. AreColumns(c) /\ AreSized(c)
  BY TableSize
<1>2. n \in Nat /\ DOMAIN c = 1..n
  BY TableIs
<1>3. PICK ends : Ends(ends, c, n) /\ Made(t, c, ends, n)
  BY TableIs
<1>4. \A a, b \in DOMAIN c : c[a].name = c[b].name => a = b
  BY DEF NoClash, ColumnNames, Columns, IsInjective
<1> HIDE DEF c, n, t, at
<1>5. leaves = Stripped(c)
  BY DEF c
<1>6. AreLeaves(leaves) /\ Len(leaves) = n
  BY <1>1, <1>5, ColumnsKeep DEF n
<1>7. DOMAIN leaves = 1..n /\ \A i \in 1..n : leaves[i].name = c[i].name /\ leaves[i].size = c[i].size
  BY <1>2, <1>5 DEF Stripped, Strip
<1>8. Sums(ends, leaves)
  <2>1. ends[0] = 0 /\ \A k \in 1..n : ends[k] = ends[k - 1] + c[k].size
    BY <1>3 DEF Ends
  <2> QED
    BY <1>6, <1>7, <2>1 DEF Sums
<1>9. j \in 1..n
  BY <1>7
<1>10. SizeOf(SubSeq(leaves, 1, j - 1)) = ends[j - 1]
  BY <1>6, <1>8, <1>9, SizeOfPrefix DEF AreLeaves
<1>11. ASSUME NEW i \in 1..n PROVE t.meta[c[i].name] = Entry(c, ends, i) /\ c[i].name \in DOMAIN t.meta
  <2>1. t.meta[c[i].name] = Entry(c, ends, i)
    BY <1>2, <1>3, <1>4, EntryOf
  <2>2. c[i].name \in DOMAIN t.meta
    BY <1>3 DEF Made
  <2> QED
    BY <2>1, <2>2
<1>12. ASSUME NEW i \in 1..n, ends[i - 1] = ends[j - 1] PROVE i = j
  <2>1. ends[i - 1] \in Nat /\ Has(ends, i, ends[i - 1])
    BY <1>2, <1>3, FirstByte
  <2>2. Has(ends, j, ends[j - 1])
    BY <1>2, <1>3, <1>9, FirstByte
  <2> QED
    BY <1>2, <1>3, <1>9, <1>12, <2>1, <2>2, OneHas
<1>13. \A x \in DOMAIN t.meta : \E i \in 1..n : x = c[i].name
  BY <1>3 DEF Made
<1>14. \A i \in 1..n : t.meta[c[i].name].offset = ends[i - 1] /\ t.meta[c[i].name].size = c[i].size
  <2>1. \A i : Entry(c, ends, i).offset = ends[i - 1] /\ Entry(c, ends, i).size = c[i].size
    BY DEF Entry
  <2> QED
    BY <1>11, <2>1
<1> DEFINE Same(x) == t.meta[x].offset = ends[j - 1] /\ t.meta[x].size = leaves[j].size
<1>15. \A x \in DOMAIN t.meta : Same(x) => x = leaves[j].name
  BY <1>7, <1>9, <1>12, <1>13, <1>14
<1>16. leaves[j].name \in DOMAIN t.meta /\ Same(leaves[j].name)
  BY <1>7, <1>9, <1>11, <1>14
<1>17. {x \in DOMAIN t.meta : Same(x)} = {leaves[j].name}
  BY <1>15, <1>16
<1> QED
  BY <1>10, <1>17 DEF t
=============================================================================
