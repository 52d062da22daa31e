----------------------------- MODULE Recursion -----------------------------
(***************************************************************************)
(* What definitions by recursion are: a function over things with a level, *)
(* and the folds of the community modules.  TLA+ has such a function as    *)
(* the CHOOSE of one that equals its body, of which nothing is known before*)
(* there is one.                                                           *)
(***************************************************************************)
EXTENDS Integers, Sequences, FiniteSetsExt, TLAPS

CONSTANT
  Step(_, _)  \* f[x] is Step(f, x); the fold of s \o <<e>> is Step(the fold of s, e)

\* The definition of f[x] looks at f below x only.
Local(S, Height) ==
  \A f, g : \A x \in S :
    (\A y \in S : Height[y] < Height[x] => f[y] = g[y]) => Step(f, x) = Step(g, x)

\* f is as it is defined, below level n.
Below(S, Height, f, n) == \A x \in S : Height[x] < n => f[x] = Step(f, x)

-----------------------------------------------------------------------------
\* Induction over the natural numbers, for sets.  The modules that instantiate
\* this one prove it (their NatSet), where they have the theorems about
\* well-founded relations; with those in here every instance would carry them.
Induction ==
  \A T \in SUBSET Nat : 0 \in T /\ (\A n \in T : n + 1 \in T) => \A n \in Nat : n \in T

LEMMA NatSet ==
  ASSUME Induction, NEW T \in SUBSET Nat, 0 \in T, \A n \in T : n + 1 \in T
  PROVE  \A n \in Nat : n \in T
  BY DEF Induction

\* What follows for x from what is below it is so everywhere.
LEMMA LevelSet ==
  ASSUME Induction, NEW S, NEW Height \in [S -> Nat], NEW T,
         \A x \in S : (\A y \in S : Height[y] < Height[x] => y \in T) => x \in T
  PROVE  \A x \in S : x \in T
<1> DEFINE U == {n \in Nat : \A x \in S : Height[x] < n => x \in T}
<1>1. 0 \in U
  OBVIOUS
<1>2. ASSUME NEW n \in U PROVE n + 1 \in U
  <2>1. n \in Nat /\ \A x \in S : Height[x] < n => x \in T
    OBVIOUS
  <2>2. ASSUME NEW x \in S, Height[x] < n + 1 PROVE x \in T
    <3>1. \A y \in S : Height[y] < Height[x] => Height[y] < n
      BY <2>1, <2>2
    <3> QED
      BY <2>1, <3>1
  <2> QED
    BY <2>1, <2>2
<1>3. U \in SUBSET Nat
  OBVIOUS
<1>4. \A n \in Nat : n \in U
  <2> HIDE DEF U
  <2> QED
    BY <1>1, <1>2, <1>3, NatSet
<1>5. ASSUME NEW x \in S PROVE x \in T
  <2>1. Height[x] \in Nat /\ Height[x] < Height[x] + 1 /\ Height[x] + 1 \in Nat
    OBVIOUS
  <2> QED
    BY <1>4, <2>1
<1> QED
  BY <1>5

\* Two functions that are as defined below n are the same there.
LEMMA Agree ==
  ASSUME Induction, NEW S, NEW Height \in [S -> Nat], Local(S, Height)
  PROVE  \A n \in Nat : \A f, g : Below(S, Height, f, n) /\ Below(S, Height, g, n) =>
           \A x \in S : Height[x] < n => f[x] = g[x]
<1> DEFINE Same(n) == \A f, g : Below(S, Height, f, n) /\ Below(S, Height, g, n) =>
                        \A x \in S : Height[x] < n => f[x] = g[x]
           T == {n \in Nat : Same(n)}
<1>1. 0 \in T
  OBVIOUS
<1>2. ASSUME NEW n \in T PROVE n + 1 \in T
  <2>1. SUFFICES ASSUME NEW f, NEW g, Below(S, Height, f, n + 1), Below(S, Height, g, n + 1),
                        NEW x \in S, Height[x] < n + 1
                 PROVE  f[x] = g[x]
    OBVIOUS
  <2>2. n \in Nat /\ Height \in [S -> Nat]
    OBVIOUS
  <2>3. Below(S, Height, f, n) /\ Below(S, Height, g, n)
    BY <2>1, <2>2 DEF Below
  <2>4. \A y \in S : Height[y] < n => f[y] = g[y]
    BY <2>3
  <2>5. \A y \in S : Height[y] < Height[x] => f[y] = g[y]
    BY <2>1, <2>2, <2>4
  <2>6. Step(f, x) = Step(g, x)
    BY <2>5 DEF Local
  <2> QED
    BY <2>1, <2>6 DEF Below
<1> HIDE DEF Same
<1>3. \A n \in Nat : n \in T
  BY <1>1, <1>2, NatSet
<1> QED
  BY <1>3 DEF Same

\* There is a function that is as defined below n.
LEMMA Partial ==
  ASSUME Induction, NEW S, NEW Height \in [S -> Nat], Local(S, Height)
  PROVE  \A n \in Nat : \E f : Below(S, Height, f, n)
<1> DEFINE T == {n \in Nat : \E f : Below(S, Height, f, n)}
<1>1. 0 \in T
  BY DEF Below
<1>2. ASSUME NEW n \in T PROVE n + 1 \in T
  <2>1. PICK f : Below(S, Height, f, n)
    OBVIOUS
  <2> DEFINE g == [x \in S |-> Step(f, x)]
  <2>2. \A x \in S : g[x] = Step(f, x)
    OBVIOUS
  <2> HIDE DEF g
  <2>3. \A y \in S : Height[y] < n => f[y] = g[y]
    BY <2>1, <2>2 DEF Below
  <2>4. ASSUME NEW x \in S, Height[x] < n + 1 PROVE g[x] = Step(g, x)
    <3>1. \A y \in S : Height[y] < Height[x] => f[y] = g[y]
      BY <2>3, <2>4
    <3>2. Step(f, x) = Step(g, x)
      BY <3>1 DEF Local
    <3> QED
      BY <2>2, <3>2
  <2>5. Below(S, Height, g, n + 1)
    BY <2>4 DEF Below
  <2> QED
    BY <2>5
<1>3. \A n \in Nat : n \in T
  BY <1>1, <1>2, NatSet
<1> QED
  BY <1>3

\* The function defined by recursion is as it is defined.
LEMMA Defined ==
  ASSUME Induction, NEW S, NEW Height \in [S -> Nat], Local(S, Height)
  PROVE  \E f : f = [x \in S |-> Step(f, x)]
<1> DEFINE P(n) == CHOOSE f : Below(S, Height, f, n)
           F    == [x \in S |-> P(Height[x] + 1)[x]]
<1>1. \A n \in Nat : Below(S, Height, P(n), n)
  BY Partial
<1>2. \A x \in S : F[x] = P(Height[x] + 1)[x]
  OBVIOUS
<1>3. F = [x \in S |-> F[x]]
  OBVIOUS
<1> HIDE DEF P, F
<1>4. ASSUME NEW x \in S PROVE F[x] = Step(F, x)
  <2> DEFINE n == Height[x] + 1
             f == P(n)
  <2>1. n \in Nat /\ Height[x] \in Nat /\ Height[x] < n /\ Below(S, Height, f, n)
    BY <1>1
  <2> HIDE DEF f
  <2>2. ASSUME NEW y \in S, Height[y] < Height[x] PROVE f[y] = F[y]
    <3> DEFINE k == Height[y] + 1
               g == P(k)
    <3>1. k \in Nat /\ Height[y] \in Nat /\ Height[y] < k /\ k <= n /\ Below(S, Height, g, k)
      BY <1>1, <2>2
    <3> HIDE DEF g
    <3>2. Below(S, Height, f, k)
      BY <2>1, <3>1 DEF Below
    <3>3. f[y] = g[y]
      BY <3>1, <3>2, Agree
    <3> QED
      BY <1>2, <3>3 DEF g
  <2>3. Step(f, x) = Step(F, x)
    BY <2>2 DEF Local
  <2>4. f[x] = Step(f, x)
    BY <2>1 DEF Below
  <2> QED
    BY <1>2, <2>3, <2>4 DEF f
<1>5. F = [x \in S |-> Step(F, x)]
  BY <1>3, <1>4
<1> QED
  BY <1>5

-----------------------------------------------------------------------------
(* FoldLeft.                                                               *)

\* The function FoldLeft defines, for the elements of seq at the places s.
FoldOf(f, base, seq, s) ==
  IF s = {} THEN base ELSE Step(f[s \ {Max(s)}], seq[Max(s)])

Fold(base, seq) ==
  (CHOOSE f : f = [s \in SUBSET DOMAIN seq |-> FoldOf(f, base, seq, s)])[DOMAIN seq]

LEMMA MaxOfPrefix ==
  ASSUME NEW n \in Nat, NEW s \in SUBSET (1..(n + 1))
  PROVE  /\ n + 1 \in s => Max(s) = n + 1 /\ s \ {n + 1} \in SUBSET (1..n)
         /\ n + 1 \notin s => s \in SUBSET (1..n)
<1>1. n + 1 \notin s => s \in SUBSET (1..n)
  OBVIOUS
<1>2. ASSUME n + 1 \in s PROVE Max(s) = n + 1 /\ s \ {n + 1} \in SUBSET (1..n)
  <2>1. \A y \in s : n + 1 >= y
    OBVIOUS
  <2>2. ASSUME NEW x \in s, \A y \in s : x >= y PROVE x = n + 1
    BY <1>2, <2>2
  <2>3. Max(s) = n + 1
    BY <1>2, <2>1, <2>2 DEF Max
  <2> QED
    BY <2>3
<1> QED
  BY <1>1, <1>2

LEMMA FoldPartial ==
  ASSUME Induction, NEW base, NEW seq
  PROVE  \A n \in Nat : \E f : \A s \in SUBSET (1..n) : f[s] = FoldOf(f, base, seq, s)
<1> DEFINE Found(n) == \E f : \A s \in SUBSET (1..n) : f[s] = FoldOf(f, base, seq, s)
           T == {n \in Nat : Found(n)}
<1>1. 0 \in T
  <2> DEFINE f == [s \in SUBSET (1..0) |-> base]
  <2>1. \A s \in SUBSET (1..0) : s = {} /\ f[s] = base
    OBVIOUS
  <2> HIDE DEF f
  <2>2. \A s \in SUBSET (1..0) : f[s] = FoldOf(f, base, seq, s)
    BY <2>1 DEF FoldOf
  <2> QED
    BY <2>2
<1>2. ASSUME NEW n \in T PROVE n + 1 \in T
  <2>1. n \in Nat
    OBVIOUS
  <2>2. PICK f : \A s \in SUBSET (1..n) : f[s] = FoldOf(f, base, seq, s)
    OBVIOUS
  <2> DEFINE g == [s \in SUBSET (1..(n + 1)) |->
                     IF n + 1 \in s THEN Step(f[s \ {n + 1}], seq[n + 1]) ELSE f[s]]
  <2>3. \A s \in SUBSET (1..(n + 1)) :
          /\ n + 1 \in s => g[s] = Step(f[s \ {n + 1}], seq[n + 1])
          /\ n + 1 \notin s => g[s] = f[s]
    OBVIOUS
  <2>4. \A s \in SUBSET (1..n) : s \in SUBSET (1..(n + 1)) /\ n + 1 \notin s
    BY <2>1
  <2> HIDE DEF g
  <2>5. \A s \in SUBSET (1..n) : g[s] = f[s]
    BY <2>3, <2>4
  <2>6. ASSUME NEW s \in SUBSET (1..(n + 1)) PROVE g[s] = FoldOf(g, base, seq, s)
    <3>1. CASE n + 1 \in s
      <4>1. Max(s) = n + 1 /\ s \ {n + 1} \in SUBSET (1..n)
        BY <2>1, <3>1, MaxOfPrefix
      <4> QED
        BY <2>3, <2>5, <3>1, <4>1 DEF FoldOf
    <3>2. CASE n + 1 \notin s
      <4>1. s \in SUBSET (1..n)
        BY <2>1, <3>2, MaxOfPrefix
      <4>2. g[s] = FoldOf(f, base, seq, s)
        BY <2>2, <2>5, <4>1
      <4>3. ASSUME s # {} PROVE s \ {Max(s)} \in SUBSET (1..n)
        BY <4>1
      <4> QED
        BY <2>5, <4>2, <4>3 DEF FoldOf
    <3> QED
      BY <3>1, <3>2
  <2> QED
    BY <2>1, <2>6
<1> HIDE DEF Found
<1>3. \A n \in Nat : n \in T
  BY <1>1, <1>2, NatSet
<1> QED
  BY <1>3 DEF Found

\* FoldLeft goes through the sequence from its first element: g[k] is the fold
\* of the first k.
LEMMA FoldLeftIs ==
  ASSUME Induction, NEW E, NEW base, NEW seq \in Seq(E)
  PROVE  \E g : /\ g[0] = base
                /\ \A k \in 1..Len(seq) : g[k] = Step(g[k - 1], seq[k])
                /\ g[Len(seq)] = Fold(base, seq)
<1> DEFINE D    == DOMAIN seq
           F    == CHOOSE f : f = [s \in SUBSET D |-> FoldOf(f, base, seq, s)]
           n    == Len(seq)
<1>1. n \in Nat /\ D = 1..n
  OBVIOUS
<1>2. F = [s \in SUBSET D |-> FoldOf(F, base, seq, s)]
  <2>1. PICK f : \A s \in SUBSET (1..n) : f[s] = FoldOf(f, base, seq, s)
    BY <1>1, FoldPartial
  <2> DEFINE h == [s \in SUBSET (1..n) |-> f[s]]
  <2>2. \A s \in SUBSET (1..n) : h[s] = f[s]
    OBVIOUS
  <2>3. h = [s \in SUBSET (1..n) |-> h[s]]
    OBVIOUS
  <2> HIDE DEF h
  <2>4. \A s \in SUBSET (1..n) : h[s] = FoldOf(h, base, seq, s)
    BY <2>1, <2>2 DEF FoldOf
  <2>5. h = [s \in SUBSET D |-> FoldOf(h, base, seq, s)]
    BY <1>1, <2>3, <2>4
  <2> QED
    BY <2>5
<1>3. F[D] = Fold(base, seq)
  BY DEF Fold
<1> HIDE DEF F
<1>4. \A s \in SUBSET D : F[s] = FoldOf(F, base, seq, s)
  BY <1>2
<1> DEFINE g == [k \in 0..n |-> F[1..k]]
<1>5. \A k \in 0..n : g[k] = F[1..k]
  OBVIOUS
<1>6. g[0] = base
  <2>1. 0 \in 0..n /\ 1..0 = {} /\ {} \in SUBSET D
    BY <1>1
  <2> QED
    BY <1>4, <1>5, <2>1 DEF FoldOf
<1>7. ASSUME NEW k \in 1..n PROVE g[k] = Step(g[k - 1], seq[k])
  <2> HIDE DEF D, n
  <2>1. /\ k \in Nat /\ k - 1 \in Nat /\ (k - 1) + 1 = k /\ k \in 1..k
        /\ k \in 0..n /\ k - 1 \in 0..n
    BY <1>1
  <2>2. Max(1..k) = k
    BY <2>1, MaxOfPrefix
  <2>3. 1..k \in SUBSET D /\ 1..k # {}
    <3>1. 1..k \in SUBSET (1..n)
      BY <1>1
    <3> QED
      BY <1>1, <2>1, <3>1
  <2>4. (1..k) \ {k} = 1..(k - 1)
    BY <2>1
  <2> QED
    BY <1>4, <1>5, <2>1, <2>2, <2>3, <2>4 DEF FoldOf
<1>8. g[n] = F[D]
  BY <1>1, <1>5
<1> QED
  BY <1>3, <1>6, <1>7, <1>8

-----------------------------------------------------------------------------
(* FlattenSeq.                                                             *)

\* As the community modules have it.
Flat(seqs) ==
  IF Len(seqs) = 0 THEN seqs
  ELSE LET flatten[i \in 1..Len(seqs)] ==
             IF i = 1 THEN seqs[i] ELSE flatten[i - 1] \o seqs[i]
       IN  flatten[Len(seqs)]

\* It goes through the sequences: g[k] is the first k in a row.
LEMMA FlattenSteps ==
  ASSUME Induction, NEW E, NEW seqs \in Seq(Seq(E))
  PROVE  \E g : /\ g[0] = <<>>
                /\ \A k \in 1..Len(seqs) : g[k] = g[k - 1] \o seqs[k]
                /\ g[Len(seqs)] = Flat(seqs)
                /\ \A k \in 0..Len(seqs) : g[k] \in Seq(E)
<1> DEFINE n       == Len(seqs)
           Body(f, i) == IF i = 1 THEN seqs[i] ELSE f[i - 1] \o seqs[i]
           Found(k) == \E f : \A i \in 1..k : f[i] = Body(f, i)
           T       == {k \in Nat : Found(k)}
<1>1. n \in Nat /\ \A i \in 1..n : seqs[i] \in Seq(E)
  OBVIOUS
<1>2. 0 \in T
  OBVIOUS
<1>3. ASSUME NEW k \in T PROVE k + 1 \in T
  <2>1. k \in Nat
    OBVIOUS
  <2>2. PICK f : \A i \in 1..k : f[i] = Body(f, i)
    OBVIOUS
  <2> DEFINE h == [i \in 1..(k + 1) |-> IF i = k + 1 THEN Body(f, i) ELSE f[i]]
  <2>3. h[k + 1] = Body(f, k + 1) /\ \A i \in 1..k : h[i] = f[i]
    <3> HIDE DEF Body
    <3>1. k + 1 \in 1..(k + 1) /\ \A i \in 1..k : i \in 1..(k + 1) /\ i # k + 1
      BY <2>1
    <3> QED
      BY <3>1
  <2> HIDE DEF h
  <2>4. ASSUME NEW i \in 1..(k + 1) PROVE h[i] = Body(h, i)
    <3>1. i = k + 1 \/ i \in 1..k
      BY <2>1
    <3>2. i = 1 \/ i - 1 \in 1..k
      BY <2>1
    <3>3. Body(f, i) = Body(h, i)
      BY <2>3, <3>2
    <3> HIDE DEF Body
    <3> QED
      BY <2>2, <2>3, <3>1, <3>3
  <2> QED
    BY <2>1, <2>4
<1>4. Found(n)
  <2> HIDE DEF Found
  <2>1. \A k \in Nat : k \in T
    BY <1>2, <1>3, NatSet
  <2> QED
    BY <1>1, <2>1
<1> DEFINE F == CHOOSE f : f = [i \in 1..n |-> Body(f, i)]
<1>5. F = [i \in 1..n |-> Body(F, i)]
  <2>1. PICK f : \A i \in 1..n : f[i] = Body(f, i)
    BY <1>4
  <2> DEFINE h == [i \in 1..n |-> f[i]]
  <2>2. \A i \in 1..n : h[i] = f[i]
    OBVIOUS
  <2>3. h = [i \in 1..n |-> h[i]]
    OBVIOUS
  <2> HIDE DEF h
  <2>4. ASSUME NEW i \in 1..n PROVE h[i] = Body(h, i)
    <3>1. i = 1 \/ i - 1 \in 1..n
      BY <1>1
    <3> QED
      BY <2>1, <2>2, <3>1
  <2>5. h = [i \in 1..n |-> Body(h, i)]
    BY <2>3, <2>4
  <2> QED
    BY <2>5
<1>6. n # 0 => F[n] = Flat(seqs)
  BY DEF Flat
<1>7. n = 0 => Flat(seqs) = <<>>
  BY DEF Flat
<1> HIDE DEF F
<1>8. \A i \in 1..n : F[i] = Body(F, i)
  BY <1>5
<1> DEFINE g == [k \in 0..n |-> IF k = 0 THEN <<>> ELSE F[k]]
<1>9. g[0] = <<>> /\ \A k \in 1..n : g[k] = F[k]
  BY <1>1
<1>10. g[n] = Flat(seqs)
  BY <1>1, <1>6, <1>7, <1>9
<1> HIDE DEF g, n
<1>11. ASSUME NEW k \in 1..n PROVE g[k] = g[k - 1] \o seqs[k]
  <2>1. CASE k = 1
    <3>1. g[k - 1] = <<>> /\ seqs[k] \in Seq(E)
      BY <1>1, <1>9, <2>1
    <3>2. <<>> \o seqs[k] = seqs[k]
      BY <3>1
    <3> QED
      BY <1>8, <1>9, <2>1, <3>1, <3>2
  <2>2. CASE k # 1
    <3>1. k - 1 \in 1..n
      BY <1>1, <2>2
    <3> QED
      BY <1>8, <1>9, <2>2, <3>1
  <2> QED
    BY <2>1, <2>2
<1>12. \A k \in 0..n : g[k] \in Seq(E)
  <2> DEFINE U == {k \in Nat : k <= n => g[k] \in Seq(E)}
  <2>1. 0 \in U
    <3>1. <<>> \in Seq(E)
      OBVIOUS
    <3> QED
      BY <1>9, <3>1
  <2>2. ASSUME NEW k \in U PROVE k + 1 \in U
    <3>1. k \in Nat /\ (k <= n => g[k] \in Seq(E))
      OBVIOUS
    <3>2. SUFFICES ASSUME k + 1 <= n PROVE g[k + 1] \in Seq(E)
      BY <3>1
    <3>3. k + 1 \in 1..n /\ (k + 1) - 1 = k /\ k <= n
      BY <1>1, <3>1, <3>2
    <3>4. g[k + 1] = g[k] \o seqs[k + 1]
      BY <1>11, <3>3
    <3> QED
      BY <1>1, <3>1, <3>3, <3>4
  <2> HIDE DEF U
  <2>3. \A k \in Nat : k \in U
    <3>1. U \in SUBSET Nat
      BY DEF U
    <3> QED
      BY <2>1, <2>2, <3>1, NatSet
  <2> QED
    BY <1>1, <2>3 DEF U
<1> QED
  BY <1>9, <1>10, <1>11, <1>12 DEF n
=============================================================================
