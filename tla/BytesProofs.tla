---------------------------- MODULE BytesProofs -----------------------------
(***************************************************************************)
(* Proofs about Digest, for any bytes and any sizes of a block and of the  *)
(* length behind it: what update and final compute does not depend on how  *)
(* the bytes were cut.  And about MetaCodec, for any meta data: they come  *)
(* back from their bytes.                                                  *)
(*                                                                         *)
(* The argument about the digest: whatever the calls, a digest that has    *)
(* taken the bytes t has the blocks t is made of in its state and the      *)
(* bytes left over at the beginning of its buffer (Absorbed).              *)
(*                                                                         *)
(* The argument about the meta data: what was written is at its place in   *)
(* the buffer (Has), what is read there is what was written (ReadsWord,    *)
(* ReadsString), and the places of the parts of a list are where their     *)
(* sizes, read one after the other, lead to (Placed, PartsFound).          *)
(***************************************************************************)
EXTENDS Digest, MetaCodec, SequenceTheorems, FiniteSetTheorems, TLAPS

-----------------------------------------------------------------------------
(* The digest.                                                             *)

\* The n bytes of t behind the first ones, and the bytes of q blocks.
Window(t, low, n) == [i \in 1..n |-> t[low + i]]
Begin(q)          == q * BlockSize

\* The k-th block of t, and the first q.
BlockAt(t, k) == SubSeq(t, (k - 1) * BlockSize + 1, k * BlockSize)
Blocks(t, q)  == [k \in 1..q |-> BlockAt(t, k)]

\* A record of the class's members; the buffer has the size of a block.
IsDigest(d) ==
  /\ d = [state |-> d.state, count |-> d.count, finished |-> d.finished,
          buffer |-> d.buffer, digest |-> d.digest]
  /\ d.buffer = [i \in 1..BlockSize |-> d.buffer[i]]

\* t is q blocks and r bytes.  (A name of its own: the prover would put the sum
\* wherever the length is.)
CutInto(t, q, r) == Len(t) = Begin(q) + r

\* The r bytes behind the first q blocks are in the buffer.
Holds(buffer, t, at, r) == \A i \in 1..r : buffer[i] = t[at + i]
Same(buffer, old, r)    == \A i \in 1..r : buffer[i] = old[i]
Kept(buffer, t, q, r)   == \A i \in 1..r : buffer[i] = t[Begin(q) + i]

\* What d keeps of the bytes t, which are q blocks and r bytes.
Absorbed(d, t, q, r) ==
  /\ CutInto(t, q, r)
  /\ IsDigest(d)
  /\ d.count = Len(t)
  /\ d.state = Blocks(t, q)
  /\ Kept(d.buffer, t, q, r)

\* h is a tuple of c members.
IsTuple(h, c) == h = [k \in 1..c |-> h[k]]

-----------------------------------------------------------------------------
(* Arithmetic.                                                             *)

LEMMA DivMod ==
  ASSUME NEW b \in Nat \ {0}, NEW a \in Nat
  PROVE  /\ a \div b \in Nat /\ a % b \in 0..(b - 1)
         /\ a = (a \div b) * b + (a % b)
  OBVIOUS

LEMMA DivModUnique ==
  ASSUME NEW b \in Nat \ {0}, NEW q \in Nat, NEW r \in 0..(b - 1)
  PROVE  /\ q * b + r \in Nat
         /\ (q * b + r) \div b = q /\ (q * b + r) % b = r
<1> DEFINE a == q * b + r
<1>1. q * b \in Nat /\ a \in Nat
  OBVIOUS
<1>2. /\ a \div b \in Nat /\ a % b \in 0..(b - 1)
      /\ a = (a \div b) * b + (a % b)
  BY <1>1, DivMod
<1>3. q < a \div b => q * b + b <= (a \div b) * b
  BY <1>2
<1>4. a \div b < q => (a \div b) * b + b <= q * b
  BY <1>2
<1>5. a \div b = q
  BY <1>1, <1>2, <1>3, <1>4
<1> QED
  BY <1>1, <1>2, <1>5

LEMMA Sizes == /\ BlockSize \in Nat \ {0}
               /\ LengthSize \in Nat \ {0} /\ LengthSize < BlockSize
  BY DigestAssumption DEF DigestAssumption

LEMMA BeginIs == \A q \in Nat : Begin(q) \in Nat
  BY Sizes DEF Begin

LEMMA BeginNext == \A k \in Nat \ {0} : Begin(k - 1) + BlockSize = Begin(k)
  BY Sizes DEF Begin

LEMMA BeginStep ==
  \A q \in Nat : /\ Begin(q) \in Nat /\ Begin(q + 1) \in Nat
                 /\ Begin(q + 1) = Begin(q) + BlockSize
  BY Sizes DEF Begin

LEMMA BeginSum ==
  \A q, k \in Nat : Begin(q + k) = Begin(q) + Begin(k)
  BY Sizes DEF Begin

LEMMA BeginGrows == \A k, q \in Nat : k <= q => Begin(k) <= Begin(q)
<1> SUFFICES ASSUME NEW k \in Nat, NEW q \in Nat, k <= q PROVE Begin(k) <= Begin(q)
  OBVIOUS
<1>1. (q - k) * BlockSize \in Nat
  BY Sizes
<1>2. (q - k) * BlockSize = q * BlockSize - k * BlockSize
  BY Sizes
<1> QED
  BY Sizes, <1>1, <1>2 DEF Begin

-----------------------------------------------------------------------------
(* Blocks.                                                                 *)

LEMMA Slice ==
  ASSUME NEW S, NEW t \in Seq(S), NEW low \in Nat, NEW n \in Nat,
         low + n <= Len(t)
  PROVE  /\ SubSeq(t, low + 1, low + n) \in Seq(S)
         /\ Len(SubSeq(t, low + 1, low + n)) = n
         /\ SubSeq(t, low + 1, low + n) = Window(t, low, n)
<1> DEFINE s == SubSeq(t, low + 1, low + n)
<1>1. \A i \in (low + 1)..(low + n) : t[i] \in S
  BY ElementOfSeq
<1>2. /\ s \in Seq(S)
      /\ Len(s) = IF low + 1 <= low + n THEN (low + n) - (low + 1) + 1 ELSE 0
      /\ \A i \in 1..((low + n) - (low + 1) + 1) : s[i] = t[(low + 1) + i - 1]
  BY <1>1, SubSeqProperties
<1>3. Len(s) = n /\ \A i \in 1..n : s[i] = t[low + i]
  BY <1>2
<1>4. s = [i \in 1..Len(s) |-> s[i]]
  BY <1>2
<1> HIDE DEF s
<1>5. s = Window(t, low, n)
  BY <1>3, <1>4 DEF Window
<1> QED
  BY <1>2, <1>3, <1>5 DEF s

\* Whole blocks and the rest of t.
LEMMA Cut ==
  ASSUME NEW S, NEW t \in Seq(S)
  PROVE  /\ Len(t) \div BlockSize \in Nat
         /\ Len(t) % BlockSize \in 0..(BlockSize - 1)
         /\ Len(t) = Begin(Len(t) \div BlockSize) + (Len(t) % BlockSize)
<1>1. Len(t) \in Nat /\ BlockSize \in Nat \ {0}
  BY Sizes
<1>2. /\ Len(t) \div BlockSize \in Nat
      /\ Len(t) % BlockSize \in 0..(BlockSize - 1)
      /\ Len(t) = (Len(t) \div BlockSize) * BlockSize + (Len(t) % BlockSize)
  BY <1>1, DivMod
<1> QED
  BY <1>1, <1>2 DEF Begin

LEMMA CutIs ==
  ASSUME NEW q \in Nat, NEW r \in 0..(BlockSize - 1), NEW n, n = Begin(q) + r
  PROVE  n \in Nat /\ n \div BlockSize = q /\ n % BlockSize = r
<1>1. BlockSize \in Nat \ {0}
  BY Sizes
<1> QED
  BY <1>1, DivModUnique DEF Begin

LEMMA BlockIs ==
  ASSUME NEW S, NEW t \in Seq(S), NEW k \in Nat \ {0}, Begin(k) <= Len(t)
  PROVE  /\ BlockAt(t, k) \in Seq(S)
         /\ BlockAt(t, k) = Window(t, Begin(k - 1), BlockSize)
<1>1. BlockSize \in Nat
  BY Sizes
<1>2. Begin(k - 1) \in Nat
  BY BeginIs
<1>3. Begin(k - 1) + BlockSize = Begin(k)
  BY BeginNext
<1>4. Begin(k - 1) + BlockSize <= Len(t)
  BY <1>3
<1> DEFINE low == Begin(k - 1)
<1>5. BlockAt(t, k) = SubSeq(t, low + 1, low + BlockSize)
  BY <1>3 DEF BlockAt, Begin
<1> HIDE DEF low
<1>6. low \in Nat /\ low + BlockSize <= Len(t)
  BY <1>2, <1>4 DEF low
<1>7. /\ SubSeq(t, low + 1, low + BlockSize) \in Seq(S)
      /\ SubSeq(t, low + 1, low + BlockSize) = Window(t, low, BlockSize)
  BY <1>1, <1>6, Slice
<1> QED
  BY <1>5, <1>7 DEF low

\* Whole blocks of t are blocks of whatever begins with t.
LEMMA SameBlocks ==
  ASSUME NEW S, NEW t \in Seq(S), NEW u \in Seq(S), NEW q \in Nat,
         Begin(q) <= Len(t), Len(t) <= Len(u),
         \A i \in 1..Len(t) : u[i] = t[i]
  PROVE  Blocks(u, q) = Blocks(t, q)
<1>1. SUFFICES ASSUME NEW k \in 1..q PROVE BlockAt(u, k) = BlockAt(t, k)
  BY DEF Blocks
<1>2. k \in Nat \ {0} /\ k - 1 \in Nat
  OBVIOUS
<1>3. Len(t) \in Nat /\ Len(u) \in Nat
  OBVIOUS
<1>4. Begin(k - 1) \in Nat /\ Begin(k) \in Nat /\ Begin(q) \in Nat
  BY <1>2, BeginIs
<1>5. Begin(k) <= Begin(q)
  BY <1>2, BeginGrows
<1>6. Begin(k - 1) + BlockSize = Begin(k)
  BY <1>2, BeginNext
<1>7. Begin(k) <= Len(t) /\ Begin(k) <= Len(u)
  BY <1>3, <1>4, <1>5
<1>8. BlockAt(t, k) = Window(t, Begin(k - 1), BlockSize)
  BY <1>2, <1>7, BlockIs
<1>9. BlockAt(u, k) = Window(u, Begin(k - 1), BlockSize)
  BY <1>2, <1>7, BlockIs
<1>10. BlockSize \in Nat
  BY Sizes
<1>11. \A i \in 1..BlockSize : Begin(k - 1) + i \in 1..Len(t)
  BY <1>3, <1>4, <1>6, <1>7, <1>10
<1> QED
  BY <1>8, <1>9, <1>11 DEF Window

-----------------------------------------------------------------------------
(* Update.                                                                 *)

\* The bytes of t with those of input behind them.
LEMMA Joined ==
  ASSUME NEW S, NEW t \in Seq(S), NEW input \in Seq(S)
  PROVE  /\ t \o input \in Seq(S)
         /\ Len(t) \in Nat /\ Len(input) \in Nat
         /\ Len(t \o input) = Len(t) + Len(input)
         /\ \A i \in 1..Len(t) : (t \o input)[i] = t[i]
         /\ \A i \in (Len(t) + 1)..(Len(t) + Len(input)) :
              (t \o input)[i] = input[i - Len(t)]
  BY ConcatProperties

\* The members of d after the assignments of Update.
LEMMA Assigned ==
  ASSUME NEW d, IsDigest(d), NEW state, NEW n, NEW buffer,
         NEW e, e = [state |-> state, count |-> n, finished |-> FALSE,
                     buffer |-> buffer, digest |-> d.digest],
         buffer = [i \in 1..BlockSize |-> buffer[i]]
  PROVE  /\ IsDigest(e)
         /\ e.state = state /\ e.count = n /\ e.buffer = buffer /\ ~e.finished
  BY DEF IsDigest

LEMMA PutIs ==
  ASSUME NEW buffer, NEW index, NEW bytes
  PROVE  /\ Put(buffer, index, bytes) =
              [i \in 1..BlockSize |-> Put(buffer, index, bytes)[i]]
         /\ \A i \in 1..BlockSize : Put(buffer, index, bytes)[i] =
              IF i - index \in DOMAIN bytes THEN bytes[i - index] ELSE buffer[i]
  BY DEF Put

\* input behind the r bytes that the buffer keeps of t.
LEMMA PutBehind ==
  ASSUME NEW S, NEW t \in Seq(S), NEW input \in Seq(S), NEW q \in Nat, NEW r \in Nat,
         CutInto(t, q, r), NEW buffer, Kept(buffer, t, q, r),
         r + Len(input) <= BlockSize
  PROVE  Kept(Put(buffer, r, input), t \o input, q, r + Len(input))
<1> USE DEF CutInto
<1> DEFINE n == Len(input)
           u == t \o input
<1>1. n \in Nat /\ Len(t) \in Nat /\ BlockSize \in Nat
  BY Sizes
<1>2. Begin(q) \in Nat
  BY BeginIs
<1>3. /\ \A i \in 1..Len(t) : u[i] = t[i]
      /\ \A i \in (Len(t) + 1)..(Len(t) + n) : u[i] = input[i - Len(t)]
  BY Joined
<1>4. DOMAIN input = 1..n
  OBVIOUS
<1> HIDE DEF n, u
<1>5. SUFFICES ASSUME NEW i \in 1..(r + n)
               PROVE  Put(buffer, r, input)[i] = u[Begin(q) + i]
  BY DEF Kept, n, u
<1>6. i \in 1..BlockSize
  BY <1>1 DEF n
<1>7. Put(buffer, r, input)[i] =
        IF i - r \in DOMAIN input THEN input[i - r] ELSE buffer[i]
  BY <1>6, PutIs
<1>8. CASE i <= r
  <2>1. Put(buffer, r, input)[i] = t[Begin(q) + i]
    BY <1>1, <1>4, <1>7, <1>8 DEF Kept
  <2>2. Begin(q) + i \in 1..Len(t)
    BY <1>1, <1>2, <1>8
  <2> QED
    BY <1>3, <2>1, <2>2
<1>9. CASE i > r
  <2>1. i - r \in 1..n
    BY <1>1, <1>9
  <2>2. (Begin(q) + i) - Len(t) = i - r
    BY <1>2
  <2>3. Begin(q) + i \in (Len(t) + 1)..(Len(t) + n)
    BY <1>1, <1>2, <1>9
  <2>4. u[Begin(q) + i] = input[i - r]
    BY <1>3, <2>2, <2>3
  <2> QED
    BY <1>4, <1>7, <2>1, <2>4
<1> QED
  BY <1>1, <1>8, <1>9

\* A part too small to fill the buffer goes behind what is there.
LEMMA UpdateSmall ==
  ASSUME NEW S, NEW t \in Seq(S), NEW input \in Seq(S), NEW d,
         NEW q \in Nat, NEW r \in 0..(BlockSize - 1),
         Absorbed(d, t, q, r), r + Len(input) < BlockSize
  PROVE  /\ Absorbed(Update(d, input), t \o input, q, r + Len(input))
         /\ Same(Update(d, input).buffer, d.buffer, r)
         /\ ~Update(d, input).finished
<1> DEFINE n == Len(input)
           u == t \o input
           e == Update(d, input)
<1>1. /\ BlockSize \in Nat \ {0} /\ n \in Nat /\ Len(t) \in Nat /\ r \in Nat
  BY Sizes
<1>2. Begin(q) \in Nat
  BY BeginIs
<1>3. /\ CutInto(t, q, r) /\ IsDigest(d) /\ d.count = Len(t) /\ d.state = Blocks(t, q)
      /\ Kept(d.buffer, t, q, r)
  BY DEF Absorbed
<1>4. d.count % BlockSize = r
  BY <1>3, CutIs DEF CutInto
<1>5. e = [state |-> d.state, count |-> d.count + n, finished |-> FALSE,
           buffer |-> Put(d.buffer, r, input), digest |-> d.digest]
  <2>1. ~FillsBlock(n, BlockSize - r)
    BY <1>1 DEF FillsBlock
  <2>2. e = [[d EXCEPT !.finished = FALSE, !.count = @ + n]
               EXCEPT !.buffer = Put(@, r, input)]
    BY <1>4, <2>1 DEF Update
  <2> HIDE DEF e
  <2>3. d = [state |-> d.state, count |-> d.count, finished |-> d.finished,
             buffer |-> d.buffer, digest |-> d.digest]
    BY <1>3 DEF IsDigest
  <2> QED
    BY <2>2, <2>3
<1>6. u \in Seq(S) /\ Len(u) = Len(t) + n /\ \A i \in 1..Len(t) : u[i] = t[i]
  BY Joined
<1>7. Kept(Put(d.buffer, r, input), u, q, r + n)
  BY <1>1, <1>3, PutBehind
<1> HIDE DEF n, u, e
<1>8. /\ IsDigest(e) /\ e.state = d.state /\ e.count = d.count + n
      /\ e.buffer = Put(d.buffer, r, input) /\ ~e.finished
  BY <1>3, <1>5, Assigned, PutIs
<1>9. Blocks(u, q) = Blocks(t, q)
  <2>1. Begin(q) <= Len(t) /\ Len(t) <= Len(u)
    BY <1>1, <1>2, <1>3, <1>6 DEF CutInto
  <2> QED
    BY <1>6, <2>1, SameBlocks
<1>10. CutInto(u, q, r + n)
  BY <1>1, <1>2, <1>3, <1>6 DEF CutInto
<1>11. Absorbed(e, u, q, r + n)
  BY <1>3, <1>6, <1>7, <1>8, <1>9, <1>10 DEF Absorbed
<1>12. Same(e.buffer, d.buffer, r)
  <2>1. ASSUME NEW i \in 1..r PROVE Put(d.buffer, r, input)[i] = d.buffer[i]
    <3>1. i \in 1..BlockSize /\ i - r \notin 1..n
      BY <1>1
    <3>2. DOMAIN input = 1..n
      BY DEF n
    <3> QED
      BY <3>1, <3>2, PutIs
  <2> QED
    BY <1>8, <2>1 DEF Same
<1> QED
  BY <1>8, <1>11, <1>12 DEF e, u, n

\* The bytes of input are those of t \o input behind t.
LEMMA WindowOfInput ==
  ASSUME NEW S, NEW t \in Seq(S), NEW input \in Seq(S),
         NEW low \in Nat, NEW at \in Nat, NEW n \in Nat,
         at = Len(t) + low, low + n <= Len(input)
  PROVE  Window(t \o input, at, n) = Window(input, low, n)
<1> DEFINE u == t \o input
<1>1. /\ Len(t) \in Nat /\ Len(input) \in Nat
      /\ \A i \in (Len(t) + 1)..(Len(t) + Len(input)) : u[i] = input[i - Len(t)]
  BY Joined
<1> HIDE DEF u
<1>2. SUFFICES ASSUME NEW i \in 1..n PROVE u[at + i] = input[low + i]
  BY DEF Window, u
<1>3. at + i \in (Len(t) + 1)..(Len(t) + Len(input))
  BY <1>1
<1>4. (at + i) - Len(t) = low + i
  BY <1>1
<1> QED
  BY <1>1, <1>3, <1>4

LEMMA TupleIsSeq ==
  ASSUME NEW R, NEW c \in Nat, NEW h, IsTuple(h, c), \A k \in 1..c : h[k] \in R
  PROVE  h \in Seq(R) /\ Len(h) = c
  BY DEF IsTuple

\* h is f and g, or f, x and g, in a row.
IsConcat(h, f, g) ==
  /\ IsTuple(h, Len(f) + Len(g))
  /\ \A k \in 1..Len(f) : h[k] = f[k]
  /\ \A k \in (Len(f) + 1)..(Len(f) + Len(g)) : h[k] = g[k - Len(f)]

IsConcat3(h, f, x, g) ==
  /\ IsTuple(h, Len(f) + 1 + Len(g))
  /\ \A k \in 1..Len(f) : h[k] = f[k]
  /\ h[Len(f) + 1] = x
  /\ \A k \in (Len(f) + 2)..(Len(f) + 1 + Len(g)) : h[k] = g[k - (Len(f) + 1)]

LEMMA ConcatIs ==
  ASSUME NEW R, NEW f \in Seq(R), NEW g \in Seq(R), NEW h, IsConcat(h, f, g)
  PROVE  f \o g = h
<1> DEFINE s == f \o g
<1>1. /\ s \in Seq(R) /\ Len(f) \in Nat /\ Len(g) \in Nat /\ Len(s) = Len(f) + Len(g)
      /\ \A k \in 1..Len(f) : s[k] = f[k]
      /\ \A k \in (Len(f) + 1)..(Len(f) + Len(g)) : s[k] = g[k - Len(f)]
  BY Joined
<1> HIDE DEF s
<1>2. s = [k \in 1..Len(s) |-> s[k]]
  BY <1>1
<1>3. \A k \in 1..(Len(f) + Len(g)) : s[k] = h[k]
  BY <1>1 DEF IsConcat
<1>4. s = h
  BY <1>1, <1>2, <1>3 DEF IsTuple, IsConcat
<1> QED
  BY <1>4 DEF s

LEMMA ConcatIs3 ==
  ASSUME NEW R, NEW f \in Seq(R), NEW x \in R, NEW g \in Seq(R),
         NEW h, IsConcat3(h, f, x, g)
  PROVE  f \o <<x>> \o g = h
<1> DEFINE one == <<x>>
           e   == f \o one
<1>1. one \in Seq(R) /\ Len(one) = 1 /\ one[1] = x
  OBVIOUS
<1> HIDE DEF one
<1>2. /\ e \in Seq(R) /\ Len(f) \in Nat /\ Len(g) \in Nat
      /\ Len(e) = Len(f) + Len(one)
      /\ \A k \in 1..Len(f) : e[k] = f[k]
      /\ \A k \in (Len(f) + 1)..(Len(f) + Len(one)) : e[k] = one[k - Len(f)]
  BY <1>1, Joined
<1> HIDE DEF e
<1>3. Len(f) \in Nat /\ Len(g) \in Nat /\ Len(e) = Len(f) + 1
  BY <1>1, <1>2
<1>4. e[Len(f) + 1] = x
  <2>1. Len(f) + 1 \in (Len(f) + 1)..(Len(f) + Len(one)) /\ (Len(f) + 1) - Len(f) = 1
    BY <1>1, <1>2
  <2> QED
    BY <1>1, <1>2, <2>1
<1>5. \A k \in 1..Len(e) : h[k] = e[k]
  BY <1>2, <1>3, <1>4 DEF IsConcat3
<1>6. IsConcat(h, e, g)
  <2>1. Len(e) + Len(g) = Len(f) + 1 + Len(g) /\ Len(e) + 1 = Len(f) + 2
    BY <1>3
  <2>2. \A k \in (Len(e) + 1)..(Len(e) + Len(g)) : h[k] = g[k - Len(e)]
    BY <1>3, <2>1 DEF IsConcat3
  <2> QED
    BY <1>5, <2>1, <2>2 DEF IsConcat, IsConcat3
<1> QED
  BY <1>2, <1>6, ConcatIs DEF e, one

\* n bytes fill the block that has r bytes, then so many more, and some are left.
Fills(r, n, more, left) == r + n = BlockSize + Begin(more) + left

InputStart(r, more) == BlockSize - r + Begin(more)

LEMMA Lengths ==
  ASSUME NEW q \in Nat, NEW r \in 0..(BlockSize - 1), NEW more \in Nat,
         NEW left \in 0..(BlockSize - 1), NEW n \in Nat,
         Fills(r, n, more, left)
  PROVE  /\ n >= BlockSize - r
         /\ n - (BlockSize - r) = Begin(more) + left
         /\ Begin(q + 1) = Begin(q) + BlockSize
         /\ Begin(q + 1 + more) = Begin(q) + BlockSize + Begin(more)
         /\ Begin(q) + r + n = Begin(q + 1 + more) + left
         /\ Begin(q + 1 + more) \in Nat /\ InputStart(r, more) \in Nat
         /\ InputStart(r, more) + left = n
         /\ Begin(q + 1 + more) = (Begin(q) + r) + InputStart(r, more)
<1> DEFINE whole == Begin(more)
           begin == Begin(q)
           end   == Begin(q + 1 + more)
<1>1. /\ BlockSize \in Nat \ {0} /\ begin \in Nat /\ whole \in Nat /\ end \in Nat
  BY Sizes, BeginIs
<1>2. r + n = BlockSize + whole + left
  BY DEF Fills
<1>3. Begin(q + 1) = begin + BlockSize
  BY BeginNext
<1>4. end = Begin(q + 1) + whole
  BY BeginSum
<1> HIDE DEF whole, begin, end
<1>5. n - (BlockSize - r) = whole + left /\ n >= BlockSize - r
  BY <1>1, <1>2
<1>6. end = begin + BlockSize + whole
  BY <1>1, <1>3, <1>4
<1>7. begin + r + n = end + left
  BY <1>1, <1>2, <1>6
<1>8. InputStart(r, more) = BlockSize - r + whole
  BY DEF InputStart, whole
<1>9. InputStart(r, more) \in Nat /\ InputStart(r, more) + left = n
  BY <1>1, <1>2, <1>8
<1>10. end = (begin + r) + InputStart(r, more)
  BY <1>1, <1>6, <1>8
<1> QED
  BY <1>1, <1>3, <1>5, <1>6, <1>7, <1>9, <1>10 DEF whole, begin, end

\* What Update puts together in the buffer is the next block.
LEMMA FirstIs ==
  ASSUME NEW S, NEW t \in Seq(S), NEW input \in Seq(S),
         NEW q \in Nat, NEW r \in 0..(BlockSize - 1), CutInto(t, q, r),
         NEW buffer, Kept(buffer, t, q, r), r + Len(input) >= BlockSize
  PROVE  Put(buffer, r, SubSeq(input, 1, BlockSize - r)) = BlockAt(t \o input, q + 1)
<1> USE DEF CutInto
<1> DEFINE n       == Len(input)
           u       == t \o input
           partLen == BlockSize - r
           part    == SubSeq(input, 1, partLen)
           v       == t \o part
           first   == Put(buffer, r, part)
<1>1. /\ BlockSize \in Nat \ {0} /\ n \in Nat /\ Len(t) \in Nat /\ r \in Nat
      /\ partLen \in Nat /\ partLen <= n /\ r + partLen = BlockSize
  BY Sizes
<1>2. Begin(q) \in Nat /\ Begin(q + 1) \in Nat /\ Begin(q + 1) = Begin(q) + BlockSize
  BY BeginStep
<1>3. /\ part \in Seq(S) /\ Len(part) = partLen
      /\ part = Window(input, 0, partLen)
  <2>1. /\ SubSeq(input, 0 + 1, 0 + partLen) \in Seq(S)
        /\ Len(SubSeq(input, 0 + 1, 0 + partLen)) = partLen
        /\ SubSeq(input, 0 + 1, 0 + partLen) = Window(input, 0, partLen)
    BY <1>1, Slice
  <2>2. 0 + 1 = 1 /\ 0 + partLen = partLen
    BY <1>1
  <2> QED
    BY <2>1, <2>2
<1>4. /\ u \in Seq(S) /\ Len(u) = Len(t) + n
      /\ \A i \in 1..Len(t) : u[i] = t[i]
      /\ \A i \in (Len(t) + 1)..(Len(t) + n) : u[i] = input[i - Len(t)]
  BY Joined
<1> HIDE DEF part
<1>5. /\ \A i \in 1..Len(t) : v[i] = t[i]
      /\ \A i \in (Len(t) + 1)..(Len(t) + Len(part)) : v[i] = part[i - Len(t)]
  BY <1>3, Joined
<1>6. Kept(first, v, q, BlockSize)
  <2>1. r + Len(part) = BlockSize
    BY <1>1, <1>3
  <2>2. r + Len(part) <= BlockSize
    BY <1>1, <2>1
  <2>3. Kept(Put(buffer, r, part), t \o part, q, r + Len(part))
    BY <1>1, <1>3, <2>2, PutBehind
  <2> QED
    BY <2>1, <2>3
<1> HIDE DEF u, v, n, partLen
<1>7. \A i \in 1..BlockSize : v[Begin(q) + i] = u[Begin(q) + i]
  <2> SUFFICES ASSUME NEW i \in 1..BlockSize PROVE v[Begin(q) + i] = u[Begin(q) + i]
    OBVIOUS
  <2> DEFINE j == Begin(q) + i
  <2>1. j \in Nat /\ j >= 1
    BY <1>1, <1>2
  <2>2. CASE j <= Len(t)
    BY <1>1, <1>4, <1>5, <2>1, <2>2
  <2>3. CASE j > Len(t)
    <3>1. j <= Len(t) + partLen
      <4>1. Len(t) + partLen = Begin(q) + (r + partLen)
        BY <1>1, <1>2
      <4> QED
        BY <1>1, <1>2, <4>1
    <3>2. j - Len(t) \in 1..partLen
      BY <1>1, <2>1, <2>3, <3>1
    <3> HIDE DEF j
    <3>3. /\ j \in (Len(t) + 1)..(Len(t) + Len(part))
          /\ j \in (Len(t) + 1)..(Len(t) + n)
      BY <1>1, <1>3, <2>1, <2>3, <3>1
    <3>4. v[j] = part[j - Len(t)]
      BY <1>5, <3>3
    <3>5. u[j] = input[j - Len(t)]
      BY <1>4, <3>3
    <3>6. part[j - Len(t)] = input[0 + (j - Len(t))]
      BY <1>3, <3>2 DEF Window
    <3>7. 0 + (j - Len(t)) = j - Len(t)
      BY <3>2
    <3> QED
      BY <3>4, <3>5, <3>6, <3>7 DEF j
  <2> QED
    BY <1>1, <2>1, <2>2, <2>3
<1>8. \A i \in 1..BlockSize : first[i] = u[Begin(q) + i]
  <2> HIDE DEF first
  <2> QED
    BY <1>6, <1>7 DEF Kept
<1>9. first = [i \in 1..BlockSize |-> first[i]]
  BY PutIs
<1>10. first = Window(u, Begin(q), BlockSize)
  <2> HIDE DEF first
  <2> QED
    BY <1>8, <1>9 DEF Window
<1>11. BlockAt(u, q + 1) = Window(u, Begin(q), BlockSize)
  <2>1. Begin(q + 1) <= Len(u)
    <3>1. Len(u) = Begin(q) + (r + n)
      BY <1>1, <1>2, <1>4
    <3> QED
      BY <1>1, <1>2, <3>1 DEF n
  <2>2. q + 1 \in Nat \ {0} /\ (q + 1) - 1 = q
    OBVIOUS
  <2>3. BlockAt(u, q + 1) = Window(u, Begin((q + 1) - 1), BlockSize)
    BY <1>4, <2>1, <2>2, BlockIs
  <2> QED
    BY <2>2, <2>3
<1> QED
  BY <1>10, <1>11 DEF u, part, partLen

\* A piece of input is the piece of t \o input as much further on.
Piece(input, low, m) == SubSeq(input, low + 1, low + m)

LEMMA PieceIsSeq ==
  ASSUME NEW S, NEW input \in Seq(S), NEW low \in Nat, NEW m \in Nat,
         low + m <= Len(input)
  PROVE  Piece(input, low, m) \in Seq(S) /\ Len(Piece(input, low, m)) = m
<1>1. /\ SubSeq(input, low + 1, low + m) \in Seq(S)
      /\ Len(SubSeq(input, low + 1, low + m)) = m
      /\ SubSeq(input, low + 1, low + m) = Window(input, low, m)
  BY Slice
<1> QED
  BY <1>1 DEF Piece

LEMMA PieceIs ==
  ASSUME NEW S, NEW t \in Seq(S), NEW input \in Seq(S), NEW low \in Nat, NEW m \in Nat,
         low + m <= Len(input), NEW at \in Nat, at = Len(t) + low
  PROVE  /\ Piece(input, low, m) \in Seq(S)
         /\ Len(Piece(input, low, m)) = m
         /\ Piece(input, low, m) = Window(t \o input, at, m)
<1>1. /\ SubSeq(input, low + 1, low + m) \in Seq(S)
      /\ Len(SubSeq(input, low + 1, low + m)) = m
      /\ SubSeq(input, low + 1, low + m) = Window(input, low, m)
  BY Slice
<1>2. Window(t \o input, at, m) = Window(input, low, m)
  BY WindowOfInput
<1> QED
  BY <1>1, <1>2 DEF Piece

\* The blocks that Update takes from input itself are the next ones.
LEMMA PartIs ==
  ASSUME NEW S, NEW t \in Seq(S), NEW input \in Seq(S),
         NEW q \in Nat, NEW r \in 0..(BlockSize - 1), CutInto(t, q, r),
         NEW k \in Nat \ {0}, (BlockSize - r) + Begin(k) <= Len(input)
  PROVE  SubSeq(input, BlockSize - r + (k - 1) * BlockSize + 1,
                       BlockSize - r + k * BlockSize)
           = BlockAt(t \o input, q + 1 + k)
<1> DEFINE n       == Len(input)
           u       == t \o input
           partLen == BlockSize - r
           begin   == Begin(q)
           before  == Begin(k - 1)
           low     == partLen + before
           at      == Begin(q + k)
<1>1. /\ BlockSize \in Nat \ {0} /\ n \in Nat /\ Len(t) \in Nat /\ r \in Nat
      /\ partLen \in Nat /\ r + partLen = BlockSize
  BY Sizes
<1>2. k - 1 \in Nat /\ q + k \in Nat /\ q + 1 + k \in Nat \ {0}
      /\ (q + 1 + k) - 1 = q + k
  OBVIOUS
<1>3. /\ begin \in Nat /\ before \in Nat /\ at \in Nat /\ Begin(k) \in Nat
      /\ Begin(q + 1 + k) \in Nat
  BY <1>2, BeginIs
<1>4. before + BlockSize = Begin(k)
  BY BeginNext
<1>5. at = begin + Begin(k)
  BY BeginSum
<1>6. at + BlockSize = Begin(q + 1 + k)
  <2>1. Begin((q + 1 + k) - 1) + BlockSize = Begin(q + 1 + k)
    BY <1>2, BeginNext
  <2> QED
    BY <1>2, <2>1
<1> HIDE DEF n, u, begin, before, at
<1>7. low \in Nat /\ low + BlockSize <= n /\ low + BlockSize = partLen + Begin(k)
  BY <1>1, <1>3, <1>4 DEF n
<1>8. at = Len(t) + low
  <2>1. Len(t) = begin + r
    BY DEF begin, CutInto
  <2>2. r + low = BlockSize + before
    BY <1>1, <1>3
  <2> HIDE DEF low
  <2>3. Len(t) + low = begin + (r + low)
    BY <1>1, <1>3, <1>7, <2>1
  <2>4. at = begin + (BlockSize + before)
    BY <1>1, <1>3, <1>4, <1>5
  <2> QED
    BY <2>2, <2>3, <2>4
<1>9. Begin(q + 1 + k) <= Len(u)
  <2>1. Len(u) = Len(t) + n
    BY Joined DEF u, n
  <2> HIDE DEF low
  <2>2. Begin(q + 1 + k) = Len(t) + (low + BlockSize)
    BY <1>1, <1>3, <1>6, <1>7, <1>8
  <2>3. low + BlockSize \in Nat
    BY <1>1, <1>7
  <2> QED
    BY <1>1, <1>7, <2>1, <2>2, <2>3
<1> HIDE DEF low
<1>10. Piece(input, low, BlockSize) = Window(u, at, BlockSize)
  <2>1. low + BlockSize <= Len(input)
    BY <1>7 DEF n
  <2> QED
    BY <1>1, <1>3, <1>7, <1>8, <2>1, PieceIs DEF u
<1>11. BlockAt(u, q + 1 + k) = Window(u, at, BlockSize)
  <2>1. u \in Seq(S)
    BY Joined DEF u
  <2>2. BlockAt(u, q + 1 + k) = Window(u, Begin((q + 1 + k) - 1), BlockSize)
    BY <1>2, <1>9, <2>1, BlockIs
  <2> QED
    BY <1>2, <2>2 DEF at
<1>12. SubSeq(input, BlockSize - r + (k - 1) * BlockSize + 1, BlockSize - r + k * BlockSize)
         = Piece(input, low, BlockSize)
  <2>1. low + BlockSize = BlockSize - r + k * BlockSize
    BY <1>7 DEF Begin
  <2>2. low = BlockSize - r + (k - 1) * BlockSize
    BY DEF low, before, Begin
  <2> QED
    BY <2>1, <2>2 DEF Piece
<1> QED
  BY <1>10, <1>11, <1>12 DEF u

\* at is as far behind the beginning of t \o input as start of that of input.
Behind(at, t, start) == at = Len(t) + start

\* What is left of input is at the beginning of the buffer.
LEMMA RestIs ==
  ASSUME NEW S, NEW t \in Seq(S), NEW input \in Seq(S),
         NEW start \in Nat, NEW left \in 0..(BlockSize - 1), start + left <= Len(input),
         NEW at \in Nat, Behind(at, t, start), NEW buffer
  PROVE  Holds(Put(buffer, 0, Piece(input, start, left)), t \o input, at, left)
<1> DEFINE rest == Piece(input, start, left)
<1>1. left \in Nat /\ BlockSize \in Nat
  BY Sizes
<1>2. /\ rest \in Seq(S) /\ Len(rest) = left
      /\ rest = Window(t \o input, at, left)
  BY <1>1, PieceIs DEF Behind
<1> HIDE DEF rest
<1>3. DOMAIN rest = 1..left
  BY <1>2
<1>4. ASSUME NEW i \in 1..left
      PROVE  Put(buffer, 0, rest)[i] = (t \o input)[at + i]
  <2>1. i \in 1..BlockSize /\ i - 0 = i
    BY <1>1
  <2>2. Put(buffer, 0, rest)[i] =
          IF i - 0 \in DOMAIN rest THEN rest[i - 0] ELSE buffer[i]
    BY <2>1, PutIs
  <2>3. rest[i] = (t \o input)[at + i]
    BY <1>2 DEF Window
  <2> QED
    BY <1>3, <2>1, <2>2, <2>3
<1> QED
  BY <1>4 DEF rest, Holds

\* The block that Update completes in the buffer, and those of input itself.
First(buffer, input, r)  == Put(buffer, r, SubSeq(input, 1, BlockSize - r))
InputBlock(input, r, k)        == SubSeq(input, BlockSize - r + (k - 1) * BlockSize + 1,
                                          BlockSize - r + k * BlockSize)
InputBlocks(input, r, more)    == [k \in 1..more |-> InputBlock(input, r, k)]

\* Behind the blocks of t they are the blocks of t \o input.
LEMMA StateIs ==
  ASSUME NEW S, NEW t \in Seq(S), NEW input \in Seq(S),
         NEW q \in Nat, NEW r \in 0..(BlockSize - 1), CutInto(t, q, r),
         NEW buffer, Kept(buffer, t, q, r),
         NEW more \in Nat, NEW left \in 0..(BlockSize - 1),
         Fills(r, Len(input), more, left)
  PROVE  Blocks(t, q) \o <<First(buffer, input, r)>> \o InputBlocks(input, r, more)
           = Blocks(t \o input, q + 1 + more)
<1> DEFINE u      == t \o input
           first  == First(buffer, input, r)
           parts  == InputBlocks(input, r, more)
           before == Blocks(t, q)
           after  == Blocks(u, q + 1 + more)
<1>1. /\ BlockSize \in Nat \ {0} /\ Len(input) \in Nat /\ r \in Nat
  BY Sizes
<1>2. /\ Len(input) >= BlockSize - r
      /\ Len(input) - (BlockSize - r) = Begin(more) + left
  BY <1>1, Lengths
<1>3. first = BlockAt(u, q + 1)
  <2>1. r + Len(input) >= BlockSize
    BY <1>1, <1>2
  <2> QED
    BY <2>1, FirstIs DEF First
<1>4. ASSUME NEW k \in 1..more PROVE InputBlock(input, r, k) = BlockAt(u, q + 1 + k)
  <2>1. k \in Nat \ {0} /\ k <= more
    OBVIOUS
  <2>2. Begin(k) \in Nat /\ Begin(more) \in Nat
    BY <2>1, BeginIs
  <2>3. Begin(k) <= Begin(more)
    BY <2>1, BeginGrows
  <2>4. (BlockSize - r) + Begin(k) <= Len(input)
    BY <1>1, <1>2, <2>2, <2>3
  <2> QED
    BY <2>1, <2>4, PartIs DEF InputBlock
<1>5. /\ u \in Seq(S) /\ Len(t) \in Nat /\ Len(u) = Len(t) + Len(input)
      /\ \A i \in 1..Len(t) : u[i] = t[i]
  BY Joined
<1>6. Blocks(u, q) = before
  <2>1. Begin(q) <= Len(t)
    BY <1>1, BeginIs DEF CutInto
  <2>2. Len(t) <= Len(u)
    BY <1>1, <1>5
  <2> QED
    BY <1>5, <2>1, <2>2, SameBlocks
<1> HIDE DEF u, first
<1>7. /\ IsTuple(before, q)
      /\ \A k \in 1..q : before[k] = BlockAt(u, k)
      /\ IsTuple(parts, more)
      /\ \A k \in 1..more : parts[k] = BlockAt(u, q + 1 + k)
      /\ IsTuple(after, q + 1 + more)
      /\ \A k \in 1..(q + 1 + more) : after[k] = BlockAt(u, k)
  BY <1>4, <1>6 DEF IsTuple, Blocks, InputBlocks
<1> DEFINE R == {BlockAt(u, k) : k \in Nat}
<1>8. \A k \in Nat : BlockAt(u, k) \in R
  OBVIOUS
<1> HIDE DEF before, parts, after, R
<1>9. before \in Seq(R) /\ Len(before) = q
  <2>1. \A k \in 1..q : before[k] \in R
    BY <1>7, <1>8
  <2> QED
    BY <1>7, <2>1, TupleIsSeq
<1>10. parts \in Seq(R) /\ Len(parts) = more
  <2>1. \A k \in 1..more : q + 1 + k \in Nat
    OBVIOUS
  <2>2. \A k \in 1..more : parts[k] \in R
    BY <1>7, <1>8, <2>1
  <2> QED
    BY <1>7, <2>2, TupleIsSeq
<1>11. first \in R
  BY <1>3, <1>8
<1>12. IsConcat3(after, before, first, parts)
  <2>1. \A k \in 1..q : after[k] = before[k]
    BY <1>7
  <2>2. after[q + 1] = first
    BY <1>3, <1>7
  <2>3. ASSUME NEW k \in (q + 2)..(q + 1 + more)
        PROVE  after[k] = parts[k - (q + 1)]
    <3>1. k - (q + 1) \in 1..more /\ q + 1 + (k - (q + 1)) = k
      OBVIOUS
    <3>2. parts[k - (q + 1)] = BlockAt(u, q + 1 + (k - (q + 1)))
      BY <1>7, <3>1
    <3>3. after[k] = BlockAt(u, k)
      BY <1>7
    <3> QED
      BY <3>1, <3>2, <3>3
  <2> QED
    BY <1>7, <1>9, <1>10, <2>1, <2>2, <2>3 DEF IsConcat3
<1>13. before \o <<first>> \o parts = after
  BY <1>9, <1>10, <1>11, <1>12, ConcatIs3
<1> QED
  BY <1>13 DEF before, first, parts, after, u

\* A part that fills the buffer is cut into blocks; the bytes left over go to
\* the beginning of the buffer.
LEMMA UpdateLarge ==
  ASSUME NEW S, NEW t \in Seq(S), NEW input \in Seq(S), NEW d,
         NEW q \in Nat, NEW r \in 0..(BlockSize - 1),
         Absorbed(d, t, q, r),
         NEW more \in Nat, NEW left \in 0..(BlockSize - 1),
         Fills(r, Len(input), more, left)
  PROVE  /\ Absorbed(Update(d, input), t \o input, q + 1 + more, left)
         /\ ~Update(d, input).finished
         /\ left = 0 => Same(Update(d, input).buffer, d.buffer, r)
<1> DEFINE n       == Len(input)
           u       == t \o input
           e       == Update(d, input)
           partLen == BlockSize - r
           first   == First(d.buffer, input, r)
           parts   == InputBlocks(input, r, more)
           start   == InputStart(r, more)
           rest    == SubSeq(input, start + 1, n)
<1>1. /\ BlockSize \in Nat \ {0} /\ n \in Nat /\ Len(t) \in Nat /\ r \in Nat
      /\ left \in Nat /\ partLen \in Nat
  BY Sizes
<1>2. Begin(q) \in Nat /\ Begin(more) \in Nat
  BY BeginIs
<1>3. /\ CutInto(t, q, r) /\ IsDigest(d) /\ d.count = Len(t) /\ d.state = Blocks(t, q)
      /\ Kept(d.buffer, t, q, r)
  BY DEF Absorbed
<1>4. d.count % BlockSize = r
  BY <1>3, CutIs DEF CutInto
<1> DEFINE whole == Begin(more)
<1>5. /\ n >= partLen
      /\ n - partLen = whole + left
      /\ Begin(q + 1) = Begin(q) + BlockSize
      /\ Begin(q + 1 + more) = Begin(q) + BlockSize + whole
      /\ Begin(q) + r + n = Begin(q + 1 + more) + left
  BY <1>1, Lengths
<1>6. (n - partLen) \div BlockSize = more
  BY <1>5, CutIs
<1> HIDE DEF n, whole
<1>7. FillsBlock(n, partLen)
  BY <1>5 DEF FillsBlock
<1>8. e = [state |-> d.state \o <<first>> \o parts, count |-> d.count + n,
           finished |-> FALSE, buffer |-> Put(first, 0, rest), digest |-> d.digest]
  <2>1. e = [[d EXCEPT !.finished = FALSE, !.count = @ + n]
               EXCEPT !.state = @ \o <<first>> \o parts, !.buffer = Put(first, 0, rest)]
    BY <1>4, <1>6, <1>7 DEF Update, InputStart, Begin, First, InputBlock, InputBlocks, n, whole
  <2> HIDE DEF e, first, parts, rest
  <2>2. d = [state |-> d.state, count |-> d.count, finished |-> d.finished,
             buffer |-> d.buffer, digest |-> d.digest]
    BY <1>3 DEF IsDigest
  <2> QED
    BY <2>1, <2>2
<1>9. /\ u \in Seq(S) /\ Len(u) = Len(t) + n
      /\ \A i \in 1..Len(t) : u[i] = t[i]
  BY Joined DEF n
<1> HIDE DEF u
<1>10. CutInto(u, q + 1 + more, left)
  <2>1. Len(t) = Begin(q) + r
    BY <1>3 DEF CutInto
  <2> QED
    BY <1>5, <1>9, <2>1 DEF CutInto
<1>11. d.state \o <<first>> \o parts = Blocks(u, q + 1 + more)
  BY <1>3, StateIs DEF u
<1>12. start \in Nat /\ start + left = n
  <2>1. Fills(r, n, more, left)
    BY DEF n
  <2> QED
    BY <1>1, <2>1, Lengths
<1>13. start + left <= Len(input)
  BY <1>1, <1>12 DEF n
<1>14. rest = Piece(input, start, left)
  <2> HIDE DEF start
  <2> QED
    BY <1>12 DEF Piece
<1>15. Kept(Put(first, 0, rest), u, q + 1 + more, left)
  <2> DEFINE at == Begin(q + 1 + more)
  <2>1. at \in Nat
    BY <1>1, Lengths DEF n
  <2>2. at = (Begin(q) + r) + start
    BY <1>1, Lengths DEF n
  <2>3. Behind(at, t, start)
    BY <1>3, <2>2 DEF CutInto, Behind
  <2> HIDE DEF at, start, first
  <2>4. Holds(Put(first, 0, Piece(input, start, left)), u, at, left)
    BY <1>12, <1>13, <2>1, <2>3, RestIs DEF u
  <2> QED
    BY <1>14, <2>4 DEF Kept, Holds, at
<1>16. left = 0 => Same(Put(first, 0, rest), d.buffer, r)
  <2> SUFFICES ASSUME left = 0, NEW i \in 1..r
               PROVE  Put(first, 0, rest)[i] = d.buffer[i]
    BY DEF Same
  <2> DEFINE head == SubSeq(input, 1, partLen)
  <2>1. i \in 1..BlockSize /\ i - 0 = i /\ i - r <= 0 /\ i - r \in Int
    BY <1>1
  <2>2. DOMAIN rest = {}
    <3> DEFINE piece == Piece(input, start, left)
    <3> HIDE DEF start
    <3>1. piece \in Seq(S) /\ Len(piece) = left
      BY <1>1, <1>12, <1>13, PieceIsSeq
    <3> HIDE DEF piece
    <3>2. DOMAIN piece = {}
      BY <3>1
    <3> QED
      BY <1>14, <3>2 DEF piece
  <2>3. \A k \in DOMAIN head : k >= 1
    <3>1. 0 + partLen <= Len(input) /\ 0 + 1 = 1 /\ 0 + partLen = partLen
      BY <1>1, <1>5 DEF n
    <3> HIDE DEF partLen
    <3>2. head \in Seq(S)
      <4>1. Piece(input, 0, partLen) \in Seq(S)
        BY <1>1, <3>1, PieceIsSeq
      <4> QED
        BY <3>1, <4>1 DEF Piece
    <3> HIDE DEF head
    <3> QED
      BY <3>2
  <2>4. first = Put(d.buffer, r, head)
    BY DEF First
  <2> HIDE DEF first, rest, head
  <2>5. i - r \notin DOMAIN head
    BY <2>1, <2>3
  <2>6. first[i] = d.buffer[i]
    BY <2>1, <2>4, <2>5, PutIs
  <2> QED
    BY <2>1, <2>2, <2>6, PutIs
<1>17. /\ IsDigest(e) /\ e.state = d.state \o <<first>> \o parts
       /\ e.count = d.count + n
       /\ e.buffer = Put(first, 0, rest) /\ ~e.finished
  <2> HIDE DEF e, first, parts, rest
  <2> QED
    BY <1>3, <1>8, Assigned, PutIs
<1> HIDE DEF e, first, parts, rest
<1>18. Absorbed(e, u, q + 1 + more, left)
  BY <1>3, <1>9, <1>10, <1>11, <1>15, <1>17 DEF Absorbed
<1> QED
  BY <1>16, <1>17, <1>18 DEF e, u

\* The pieces of Update in one: what was absorbed, and that is whole blocks and
\* less than a block.
LEMMA UpdateAbsorbs ==
  ASSUME NEW S, NEW t \in Seq(S), NEW input \in Seq(S), NEW d,
         NEW q \in Nat, NEW r \in 0..(BlockSize - 1), Absorbed(d, t, q, r)
  PROVE  /\ ~Update(d, input).finished
         /\ \E p \in Nat, s \in 0..(BlockSize - 1) :
              Absorbed(Update(d, input), t \o input, p, s)
<1> DEFINE n    == Len(input)
           more == (n + r - BlockSize) \div BlockSize
           left == (n + r - BlockSize) % BlockSize
<1>1. n \in Nat /\ r \in Nat /\ BlockSize \in Nat \ {0}
  BY Sizes
<1>2. CASE r + n < BlockSize
  <2>1. r + n \in 0..(BlockSize - 1)
    BY <1>1, <1>2
  <2> QED
    BY <1>2, <2>1, UpdateSmall
<1>3. CASE ~(r + n < BlockSize)
  <2> DEFINE a == n + r - BlockSize
  <2>1. a \in Nat /\ r + n = BlockSize + a
    BY <1>1, <1>3
  <2> HIDE DEF a
  <2>2. /\ a \div BlockSize \in Nat /\ a % BlockSize \in 0..(BlockSize - 1)
        /\ a = (a \div BlockSize) * BlockSize + (a % BlockSize)
    BY <1>1, <2>1, DivMod
  <2>3. Fills(r, n, a \div BlockSize, a % BlockSize)
    <3> DEFINE m == a \div BlockSize
               l == a % BlockSize
               b == m * BlockSize
    <3>1. m \in Nat /\ l \in Nat /\ a = b + l
      BY <2>2
    <3>2. Begin(m) = b
      BY DEF Begin
    <3> HIDE DEF m, l
    <3>3. b \in Nat
      BY <1>1, <3>1
    <3> HIDE DEF b, n
    <3>4. r + n = BlockSize + b + l
      BY <1>1, <2>1, <3>1, <3>3
    <3> QED
      BY <3>2, <3>4 DEF Fills, m, l, n
  <2>4. q + 1 + (a \div BlockSize) \in Nat
    BY <2>2
  <2> QED
    BY <2>2, <2>3, <2>4, UpdateLarge
<1> QED
  BY <1>2, <1>3

-----------------------------------------------------------------------------
(* Final.                                                                  *)

LEMMA Wider ==
  ASSUME NEW S, NEW W, S \subseteq W, NEW t \in Seq(S)
  PROVE  t \in Seq(W)
  OBVIOUS

LEMMA ResetAbsorbs == Absorbed(Reset, <<>>, 0, 0) /\ ~Reset.finished
<1>1. Begin(0) = 0
  BY Sizes DEF Begin
<1>2. CutInto(<<>>, 0, 0)
  BY <1>1 DEF CutInto
<1>3. Blocks(<<>>, 0) = <<>>
  BY DEF Blocks
<1>4. IsDigest(Reset)
  BY DEF IsDigest, Reset
<1>5. Kept(Reset.buffer, <<>>, 0, 0)
  BY DEF Kept
<1> QED
  BY <1>2, <1>3, <1>4, <1>5 DEF Absorbed, Reset

\* The bytes that Final adds.
LEMMA PadLenIs ==
  ASSUME NEW r \in 0..(BlockSize - 1)
  PROVE  /\ PadLen(r) \in Nat
         /\ r < BlockSize - LengthSize => r + PadLen(r) = BlockSize - LengthSize
  BY Sizes DEF PadLen

Tail1(t) == Padding(PadLen(Len(t) % BlockSize))
Tail2(t) == Bits(Len(t))
Full(t)  == t \o Tail1(t) \o Tail2(t)
AllBytes(t, S) ==
  S \cup {Tail1(t)[i] : i \in DOMAIN Tail1(t)} \cup {Tail2(t)[i] : i \in DOMAIN Tail2(t)}

LEMMA TailsAre ==
  ASSUME NEW S, NEW t \in Seq(S), NEW q \in Nat, NEW r \in 0..(BlockSize - 1),
         CutInto(t, q, r)
  PROVE  /\ t \in Seq(AllBytes(t, S))
         /\ Tail1(t) \in Seq(AllBytes(t, S)) /\ Len(Tail1(t)) = PadLen(r)
         /\ Tail2(t) \in Seq(AllBytes(t, S)) /\ Len(Tail2(t)) = LengthSize
         /\ Len(t) % BlockSize = r
<1>1. Len(t) % BlockSize = r
  BY CutIs DEF CutInto
<1> DEFINE W  == AllBytes(t, S)
           t1 == Tail1(t)
           t2 == Tail2(t)
<1>2. IsTuple(t1, PadLen(r)) /\ DOMAIN t1 = 1..PadLen(r)
  BY <1>1 DEF IsTuple, Tail1, Padding
<1>3. IsTuple(t2, LengthSize) /\ DOMAIN t2 = 1..LengthSize
  BY DEF IsTuple, Tail2, Bits
<1> HIDE DEF t1, t2
<1>4. /\ S \subseteq W
      /\ \A i \in DOMAIN t1 : t1[i] \in W
      /\ \A i \in DOMAIN t2 : t2[i] \in W
  BY DEF AllBytes, t1, t2
<1> HIDE DEF W
<1>5. t \in Seq(W)
  BY <1>4, Wider
<1>6. t1 \in Seq(W) /\ Len(t1) = PadLen(r)
  BY <1>2, <1>4, PadLenIs, TupleIsSeq
<1>7. t2 \in Seq(W) /\ Len(t2) = LengthSize
  BY <1>3, <1>4, Sizes, TupleIsSeq
<1> QED
  BY <1>1, <1>5, <1>6, <1>7 DEF W, t1, t2

\* The blocks of the bytes with what Final adds are what RFC 1321 asks for.
LEMMA ReferenceIs ==
  ASSUME NEW t, NEW q \in Nat, NEW r \in 0..(BlockSize - 1), CutInto(Full(t), q, r)
  PROVE  Blocks(Full(t), q) = Reference(t)
<1> DEFINE full == Full(t)
<1>1. Len(full) \div BlockSize = q
  BY CutIs DEF CutInto
<1>2. Reference(t) = [k \in 1..(Len(full) \div BlockSize) |->
                        SubSeq(full, (k - 1) * BlockSize + 1, k * BlockSize)]
  BY DEF Reference, Full, Tail1, Tail2
<1> HIDE DEF full
<1>3. Reference(t) = [k \in 1..q |-> SubSeq(full, (k - 1) * BlockSize + 1, k * BlockSize)]
  BY <1>1, <1>2
<1> QED
  BY <1>3 DEF Blocks, BlockAt, full

\* The digest is the reference's; state and count are what they were.
LEMMA FinalIs ==
  ASSUME NEW S, NEW t \in Seq(S), NEW d, NEW q \in Nat, NEW r \in 0..(BlockSize - 1),
         Absorbed(d, t, q, r)
  PROVE  /\ Final(d).digest = Reference(t) /\ ~Final(d).finished
         /\ r < BlockSize - LengthSize => Absorbed(Final(d), t, q, r)
<1> DEFINE t1 == Tail1(t)
           t2 == Tail2(t)
           W  == AllBytes(t, S)
           d1 == Update(d, t1)
           d2 == Update(d1, t2)
<1>1. /\ CutInto(t, q, r) /\ IsDigest(d) /\ d.count = Len(t) /\ d.state = Blocks(t, q)
      /\ Kept(d.buffer, t, q, r)
  BY DEF Absorbed
<1>2. /\ t \in Seq(W)
      /\ t1 \in Seq(W) /\ Len(t1) = PadLen(r)
      /\ t2 \in Seq(W) /\ Len(t2) = LengthSize
      /\ Len(t) % BlockSize = r
  BY <1>1, TailsAre
<1>3. Final(d) = [d2 EXCEPT !.digest = d2.state, !.state = d.state, !.count = d.count]
  BY <1>1 DEF Final, Tail1, Tail2
<1> HIDE DEF t1, t2, W, d1, d2
<1>4. PICK q1 \in Nat, r1 \in 0..(BlockSize - 1) : Absorbed(d1, t \o t1, q1, r1)
  BY <1>2, UpdateAbsorbs DEF d1
<1>5. t \o t1 \in Seq(W)
  BY <1>2, Joined
<1>6. PICK q2 \in Nat, r2 \in 0..(BlockSize - 1) : Absorbed(d2, (t \o t1) \o t2, q2, r2)
  BY <1>2, <1>4, <1>5, UpdateAbsorbs DEF d2
<1>7. ~d2.finished
  BY <1>2, <1>4, <1>5, UpdateAbsorbs DEF d2
<1>8. Full(t) = (t \o t1) \o t2
  BY DEF Full, t1, t2
<1>9. /\ IsDigest(d2) /\ CutInto(Full(t), q2, r2) /\ d2.state = Blocks(Full(t), q2)
  BY <1>6, <1>8 DEF Absorbed
<1>10. d2.state = Reference(t)
  BY <1>9, ReferenceIs
<1>11. Final(d) = [state |-> d.state, count |-> d.count, finished |-> d2.finished,
                   buffer |-> d2.buffer, digest |-> d2.state]
  BY <1>3, <1>9 DEF IsDigest
<1>12. Final(d).digest = Reference(t) /\ ~Final(d).finished
  BY <1>7, <1>10, <1>11
<1>13. ASSUME r < BlockSize - LengthSize
       PROVE  Absorbed(Final(d), t, q, r)
  <2> DEFINE s == BlockSize - LengthSize
  <2>1. /\ s \in 0..(BlockSize - 1) /\ r + PadLen(r) = s /\ r <= s
        /\ s + LengthSize = BlockSize
    BY <1>13, Sizes, PadLenIs
  <2>2. r + Len(t1) < BlockSize /\ r + Len(t1) = s
    BY <1>2, <2>1
  <2>3. Absorbed(d1, t \o t1, q, s) /\ Same(d1.buffer, d.buffer, r)
    BY <1>2, <2>2, UpdateSmall DEF d1
  <2>4. Fills(s, Len(t2), 0, 0)
    <3>1. Begin(0) = 0
      BY Sizes DEF Begin
    <3>2. s + LengthSize = BlockSize + 0 + 0
      BY <2>1, Sizes
    <3> QED
      BY <1>2, <3>1, <3>2 DEF Fills
  <2> HIDE DEF s
  <2>5. Same(d2.buffer, d1.buffer, s)
    <3>1. 0 \in Nat /\ 0 \in 0..(BlockSize - 1)
      BY Sizes
    <3>2. t2 \in Seq(W)
      BY <1>2
    <3> QED
      BY <1>5, <2>1, <2>3, <2>4, <3>1, <3>2, UpdateLarge DEF d2
  <2>6. Kept(d2.buffer, t, q, r)
    BY <1>1, <2>1, <2>3, <2>5 DEF Kept, Same
  <2>7. IsDigest(Final(d)) /\ Final(d).state = d.state /\ Final(d).count = d.count
    BY <1>9, <1>11 DEF IsDigest
  <2>8. Final(d).buffer = d2.buffer
    BY <1>11
  <2> QED
    BY <1>1, <2>6, <2>7, <2>8 DEF Absorbed
<1> QED
  BY <1>12, <1>13

\* digest() of a digest that nobody asked since the last update.
LEMMA FinishIs ==
  ASSUME NEW S, NEW t \in Seq(S), NEW d, NEW q \in Nat, NEW r \in 0..(BlockSize - 1),
         Absorbed(d, t, q, r), ~d.finished
  PROVE  /\ Finish(d).digest = Reference(t)
         /\ r < BlockSize - LengthSize => Absorbed(Finish(d), t, q, r)
<1> DEFINE e == [d EXCEPT !.finished = TRUE]
<1>1. e = [state |-> d.state, count |-> d.count, finished |-> TRUE,
           buffer |-> d.buffer, digest |-> d.digest]
  <2>1. d = [state |-> d.state, count |-> d.count, finished |-> d.finished,
             buffer |-> d.buffer, digest |-> d.digest]
    BY DEF Absorbed, IsDigest
  <2>2. e = [d EXCEPT !.finished = TRUE]
    OBVIOUS
  <2> HIDE DEF e
  <2> QED
    BY <2>1, <2>2
<1>2. Finish(d) = Final(e)
  BY DEF Finish
<1> HIDE DEF e
<1>3. Absorbed(e, t, q, r)
  BY <1>1 DEF Absorbed, IsDigest
<1> QED
  BY <1>2, <1>3, FinalIs

-----------------------------------------------------------------------------
(* Theorems.                                                               *)

\* One update of a digest that was just reset.
LEMMA FirstUpdate ==
  ASSUME NEW S, NEW bytes \in Seq(S)
  PROVE  /\ ~Update(Reset, bytes).finished
         /\ \E q \in Nat, r \in 0..(BlockSize - 1) :
              Absorbed(Update(Reset, bytes), bytes, q, r)
<1> DEFINE none == <<>>
           d    == Reset
<1>1. none \in Seq(S) /\ none \o bytes = bytes
  BY ConcatEmptySeq, EmptySeq
<1>2. Absorbed(d, none, 0, 0)
  BY ResetAbsorbs
<1>3. 0 \in Nat /\ 0 \in 0..(BlockSize - 1)
  BY Sizes
<1> HIDE DEF none, d
<1>4. /\ ~Update(d, bytes).finished
      /\ \E q \in Nat, r \in 0..(BlockSize - 1) :
           Absorbed(Update(d, bytes), none \o bytes, q, r)
  BY <1>1, <1>2, <1>3, UpdateAbsorbs
<1> QED
  BY <1>1, <1>4 DEF d

\* The next call always finds what the calls before it left: whatever bytes
\* update gets, the class has taken them all, in their order, and has whole
\* blocks of them in its state.  MD5::update, md5.cpp line 180.
THEOREM UpdateTakesAll ==
  ASSUME NEW S, NEW t \in Seq(S), NEW input \in Seq(S), NEW d,
         \E q \in Nat, r \in 0..(BlockSize - 1) : Absorbed(d, t, q, r)
  PROVE  \E q \in Nat, r \in 0..(BlockSize - 1) :
           Absorbed(Update(d, input), t \o input, q, r)
  BY UpdateAbsorbs

\* One update gives the digest of RFC 1321.  MD5::final, md5.cpp line 211.
THEOREM MD5IsReference ==
  ASSUME NEW S, NEW bytes \in Seq(S)
  PROVE  MD5(bytes) = Reference(bytes)
<1> DEFINE d == Update(Reset, bytes)
<1>1. PICK q \in Nat, r \in 0..(BlockSize - 1) : Absorbed(d, bytes, q, r)
  BY FirstUpdate
<1>2. ~d.finished
  BY FirstUpdate
<1> HIDE DEF d
<1>3. Finish(d).digest = Reference(bytes)
  BY <1>1, <1>2, FinishIs
<1> QED
  BY <1>3 DEF d, MD5

\* What final hands to the blocks: the bytes, a 128, zeros and the length; of
\* whole blocks, at least one.
LEMMA FullIs ==
  ASSUME NEW S, NEW t \in Seq(S)
  PROVE  LET p == PadLen(Len(t) % BlockSize)
             n == Len(t)
         IN  /\ p \in Nat \ {0} /\ n \in Nat
             /\ \E q \in Nat \ {0} :
                  /\ Len(Full(t)) = Begin(q) /\ n + p + LengthSize = Begin(q)
                  /\ Reference(t) = Blocks(Full(t), q)
             /\ \E W : Full(t) \in Seq(W)
             /\ \A i \in 1..n : Full(t)[i] = t[i]
             /\ Full(t)[n + 1] = <<"#", 128>>
             /\ \A i \in (n + 2)..(n + p) : Full(t)[i] = <<"#", 0>>
<1> DEFINE q  == Len(t) \div BlockSize
           r  == Len(t) % BlockSize
           p  == PadLen(r)
           n  == Len(t)
           t1 == Tail1(t)
           t2 == Tail2(t)
           W  == AllBytes(t, S)
           u  == t \o t1
<1>1. q \in Nat /\ r \in 0..(BlockSize - 1) /\ n = Begin(q) + r
  BY Cut
<1>2. /\ t \in Seq(W) /\ t1 \in Seq(W) /\ Len(t1) = p
      /\ t2 \in Seq(W) /\ Len(t2) = LengthSize
  BY <1>1, TailsAre DEF CutInto
<1>3. Full(t) = u \o t2
  BY DEF Full
<1>4. \A i \in 1..p : t1[i] = <<"#", IF i = 1 THEN 128 ELSE 0>>
  BY DEF Tail1, Padding
<1>5. /\ p \in Nat \ {0}
      /\ \/ r + p + LengthSize = BlockSize
         \/ r + p + LengthSize = BlockSize + BlockSize
  BY <1>1, Sizes DEF PadLen
<1> HIDE DEF q, r, p, t1, t2, W
<1>6. /\ u \in Seq(W) /\ n \in Nat /\ Len(u) = n + p
      /\ \A i \in 1..n : u[i] = t[i]
      /\ \A i \in (n + 1)..(n + p) : u[i] = t1[i - n]
  BY <1>2, Joined
<1> HIDE DEF u, n
<1>7. /\ Full(t) \in Seq(W) /\ Len(Full(t)) = (n + p) + LengthSize
      /\ \A i \in 1..(n + p) : Full(t)[i] = u[i]
  <2> DEFINE v == u \o t2
  <2>1. /\ v \in Seq(W) /\ Len(v) = Len(u) + Len(t2)
        /\ \A i \in 1..Len(u) : v[i] = u[i]
    <3>1. u \in Seq(W) /\ t2 \in Seq(W)
      BY <1>2, <1>6
    <3> QED
      BY <3>1, Joined
  <2>2. Full(t) = v
    BY <1>3
  <2> HIDE DEF v
  <2>3. v \in Seq(W) /\ Len(v) = (n + p) + LengthSize /\ \A i \in 1..(n + p) : v[i] = u[i]
    BY <1>2, <1>6, <2>1
  <2> QED
    BY <2>2, <2>3, Zenon
<1>8. \A i \in 1..n : Full(t)[i] = t[i]
  BY <1>5, <1>6, <1>7
<1>9. Full(t)[n + 1] = <<"#", 128>>
  <2>1. n + 1 \in 1..(n + p) /\ n + 1 \in (n + 1)..(n + p) /\ (n + 1) - n = 1 /\ 1 \in 1..p
    BY <1>5, <1>6
  <2>2. Full(t)[n + 1] = t1[1]
    BY <1>6, <1>7, <2>1
  <2> QED
    BY <1>4, <2>1, <2>2
<1>10. ASSUME NEW i \in (n + 2)..(n + p) PROVE Full(t)[i] = <<"#", 0>>
  <2>1. i \in 1..(n + p) /\ i \in (n + 1)..(n + p) /\ i - n \in 1..p /\ i - n # 1
    BY <1>5, <1>6
  <2>2. Full(t)[i] = t1[i - n]
    BY <1>6, <1>7, <2>1
  <2> QED
    BY <1>4, <2>1, <2>2
<1>11. \E b \in Nat \ {0} : n + p + LengthSize = Begin(b)
  <2>1. Begin(q) \in Nat /\ BlockSize \in Nat \ {0} /\ LengthSize \in Nat /\ r \in Nat
    BY <1>1, Sizes, BeginIs
  <2>2. /\ q + 1 \in Nat \ {0} /\ q + 2 \in Nat \ {0}
        /\ Begin(q + 1) = Begin(q) + BlockSize
    <3>1. q + 1 \in Nat \ {0} /\ q + 2 \in Nat \ {0}
      BY <1>1
    <3>2. Begin(q + 1) = Begin(q) + BlockSize
      BY <1>1, BeginStep
    <3> QED
      BY <3>1, <3>2
  <2>3. Begin(q + 2) = Begin(q) + BlockSize + BlockSize
    <3>1. q + 1 \in Nat /\ (q + 1) + 1 = q + 2
      BY <1>1
    <3>2. Begin((q + 1) + 1) = Begin(q + 1) + BlockSize
      BY <3>1, BeginStep
    <3> QED
      BY <2>2, <3>1, <3>2
  <2>4. CASE r + p + LengthSize = BlockSize
    <3>1. n + p + LengthSize = Begin(q) + (r + p + LengthSize)
      BY <1>1, <1>5, <2>1
    <3>2. n + p + LengthSize = Begin(q + 1)
      BY <2>2, <2>4, <3>1
    <3> QED
      BY <2>2, <3>2
  <2>5. CASE r + p + LengthSize = BlockSize + BlockSize
    <3>1. n + p + LengthSize = Begin(q + 2)
      BY <1>1, <1>5, <2>1, <2>3, <2>5
    <3> QED
      BY <2>2, <3>1
  <2> QED
    BY <1>5, <2>4, <2>5
<1>12. PICK b \in Nat \ {0} : n + p + LengthSize = Begin(b)
  BY <1>11
<1>13. Len(Full(t)) = Begin(b)
  BY <1>7, <1>12
<1>14. CutInto(Full(t), b, 0) /\ 0 \in 0..(BlockSize - 1)
  <2>1. Begin(b) \in Nat
    BY BeginIs
  <2> QED
    BY <1>13, <2>1, Sizes DEF CutInto
<1>15. Reference(t) = Blocks(Full(t), b)
  BY <1>14, ReferenceIs
<1> QED
  BY <1>5, <1>6, <1>7, <1>8, <1>9, <1>10, <1>12, <1>13, <1>15 DEF n, p, r

\* Blocks that are equal are of equal bytes.
LEMMA BlocksTell ==
  ASSUME NEW S, NEW W, NEW t \in Seq(S), NEW u \in Seq(W), NEW q \in Nat,
         Len(t) = Begin(q), Len(u) = Begin(q), Blocks(t, q) = Blocks(u, q),
         NEW i \in 1..Begin(q)
  PROVE  t[i] = u[i]
<1> DEFINE k == ((i - 1) \div BlockSize) + 1
           j == ((i - 1) % BlockSize) + 1
<1>1. BlockSize \in Nat \ {0} /\ Begin(q) \in Nat /\ i - 1 \in Nat
  BY Sizes, BeginIs
<1>2. /\ k - 1 \in Nat /\ j \in 1..BlockSize /\ i = (k - 1) * BlockSize + j /\ k \in Nat \ {0}
  <2>1. /\ (i - 1) \div BlockSize \in Nat /\ (i - 1) % BlockSize \in 0..(BlockSize - 1)
        /\ i - 1 = ((i - 1) \div BlockSize) * BlockSize + ((i - 1) % BlockSize)
    BY <1>1, DivMod
  <2> DEFINE x == (i - 1) \div BlockSize
             y == (i - 1) % BlockSize
             z == x * BlockSize
  <2>2. z \in Nat /\ x \in Nat /\ y \in 0..(BlockSize - 1) /\ i - 1 = z + y
    BY <1>1, <2>1
  <2>3. (k - 1) * BlockSize = z
    BY <2>2
  <2> HIDE DEF x, y, z
  <2>4. k = x + 1 /\ j = y + 1
    BY DEF x, y
  <2> HIDE DEF k, j
  <2> QED
    BY <1>1, <2>2, <2>3, <2>4
<1> HIDE DEF k, j
<1>3. i = Begin(k - 1) + j
  BY <1>2 DEF Begin
<1>4. k <= q
  <2>1. SUFFICES ASSUME ~(k <= q) PROVE FALSE
    OBVIOUS
  <2>2. q <= k - 1
    BY <1>2, <2>1
  <2>3. Begin(q) <= Begin(k - 1) /\ Begin(k - 1) \in Nat
    BY <1>2, <2>2, BeginGrows, BeginIs
  <2> QED
    BY <1>1, <1>2, <1>3, <2>3
<1>5. k \in 1..q
  BY <1>2, <1>4
<1>6. Begin(k) <= Begin(q)
  BY <1>2, <1>4, BeginGrows
<1>7. BlockAt(t, k) = Window(t, Begin(k - 1), BlockSize)
  BY <1>2, <1>6, BlockIs
<1>8. BlockAt(u, k) = Window(u, Begin(k - 1), BlockSize)
  BY <1>2, <1>6, BlockIs
<1>9. BlockAt(t, k) = BlockAt(u, k)
  <2>1. Blocks(t, q)[k] = BlockAt(t, k) /\ Blocks(u, q)[k] = BlockAt(u, k)
    BY <1>5 DEF Blocks
  <2> QED
    BY <2>1
<1>10. /\ Window(t, Begin(k - 1), BlockSize)[j] = t[Begin(k - 1) + j]
       /\ Window(u, Begin(k - 1), BlockSize)[j] = u[Begin(k - 1) + j]
  BY <1>2 DEF Window
<1> QED
  BY <1>3, <1>7, <1>8, <1>9, <1>10

\* Whatever the sizes: the padding alone tells where the bytes end.
LEMMA PaddingTells ==
  ASSUME NEW S, NEW t \in Seq(S), NEW u \in Seq(S), Reference(t) = Reference(u)
  PROVE  Len(t) <= Len(u) /\ \A i \in 1..Len(t) : i <= Len(u) => t[i] = u[i]
<1> DEFINE n == Len(t)
           m == Len(u)
           p == PadLen(Len(t) % BlockSize)
           o == PadLen(Len(u) % BlockSize)
           f == Full(t)
           g == Full(u)
<1>1. PICK q \in Nat \ {0} : /\ Len(f) = Begin(q) /\ n + p + LengthSize = Begin(q)
                             /\ Reference(t) = Blocks(f, q)
  BY FullIs
<1>2. PICK k \in Nat \ {0} : /\ Len(g) = Begin(k) /\ m + o + LengthSize = Begin(k)
                             /\ Reference(u) = Blocks(g, k)
  BY FullIs
<1>3. /\ p \in Nat \ {0} /\ n \in Nat
      /\ \A i \in 1..n : f[i] = t[i]
      /\ f[n + 1] = <<"#", 128>>
      /\ \A i \in (n + 2)..(n + p) : f[i] = <<"#", 0>>
  BY FullIs
<1>4. /\ o \in Nat \ {0} /\ m \in Nat
      /\ \A i \in 1..m : g[i] = u[i]
      /\ g[m + 1] = <<"#", 128>>
      /\ \A i \in (m + 2)..(m + o) : g[i] = <<"#", 0>>
  BY FullIs
<1>5. PICK W : f \in Seq(W)
  BY FullIs
<1>6. PICK V : g \in Seq(V)
  BY FullIs
<1> HIDE DEF n, m, p, o, f, g
<1>7. q = k
  <2>1. DOMAIN Blocks(f, q) = 1..q /\ DOMAIN Blocks(g, k) = 1..k
    BY DEF Blocks
  <2>2. 1..q = 1..k
    BY <1>1, <1>2, <2>1
  <2>3. q \in 1..q /\ k \in 1..k
    OBVIOUS
  <2>4. q \in 1..k /\ k \in 1..q
    BY <2>2, <2>3
  <2> QED
    BY <2>4
<1>8. \A i \in 1..Begin(q) : f[i] = g[i]
  <2>1. Len(g) = Begin(q) /\ Blocks(f, q) = Blocks(g, q) /\ q \in Nat
    BY <1>1, <1>2, <1>7
  <2> QED
    BY <1>1, <1>5, <1>6, <2>1, BlocksTell
<1>9. n + p = m + o /\ LengthSize \in Nat /\ Begin(q) \in Nat
  <2>1. LengthSize \in Nat /\ Begin(q) \in Nat
    BY Sizes, BeginIs
  <2> QED
    BY <1>1, <1>2, <1>3, <1>4, <1>7, <2>1
<1>10. n <= m
  <2>1. SUFFICES ASSUME n > m PROVE FALSE
    BY <1>3, <1>4
  <2>2. n + 1 \in (m + 2)..(m + o) /\ n + 1 \in 1..Begin(q)
    BY <1>1, <1>3, <1>4, <1>9, <2>1
  <2>3. f[n + 1] = g[n + 1] /\ g[n + 1] = <<"#", 0>>
    BY <1>4, <1>8, <2>2
  <2> QED
    BY <1>3, <2>3
<1>11. ASSUME NEW i \in 1..n, i <= m PROVE t[i] = u[i]
  <2>1. i \in 1..m /\ i \in 1..Begin(q)
    BY <1>1, <1>3, <1>4, <1>9, <1>11
  <2> QED
    BY <1>3, <1>4, <1>8, <2>1
<1> QED
  BY <1>10, <1>11 DEF n, m

\* Different bytes have different digests, as far as MD5 tells different blocks
\* apart; and the digest of nothing is not empty.  MD5::final, md5.cpp line 211.
THEOREM DigestTells ==
  ASSUME NEW S, NEW t \in Seq(S), NEW u \in Seq(S)
  PROVE  MD5(t) # <<>> /\ (MD5(t) = MD5(u) => t = u)
<1>1. MD5(t) = Reference(t) /\ MD5(u) = Reference(u)
  BY MD5IsReference
<1>2. Reference(t) # <<>>
  <2>1. PICK q \in Nat \ {0} : Reference(t) = Blocks(Full(t), q)
    BY FullIs
  <2>2. DOMAIN Reference(t) = 1..q /\ 1 \in 1..q
    BY <2>1 DEF Blocks
  <2>3. DOMAIN <<>> = {}
    OBVIOUS
  <2> QED
    BY <2>2, <2>3
<1>3. ASSUME Reference(t) = Reference(u) PROVE t = u
  <2>1. Len(t) <= Len(u) /\ \A i \in 1..Len(t) : i <= Len(u) => t[i] = u[i]
    BY <1>3, PaddingTells
  <2>2. Len(u) <= Len(t)
    BY <1>3, PaddingTells
  <2>3. Len(t) \in Nat /\ Len(u) \in Nat
    OBVIOUS
  <2>4. Len(t) = Len(u)
    BY <2>1, <2>2, <2>3
  <2>5. \A i \in 1..Len(t) : t[i] = u[i]
    BY <2>1, <2>4
  <2> QED
    BY <2>4, <2>5
<1> QED
  BY <1>1, <1>2, <1>3

\* The digest of bytes that were cut at n.
LEMMA TwoUpdates ==
  ASSUME NEW S, NEW t \in Seq(S), NEW input \in Seq(S), NEW d,
         NEW q \in Nat, NEW r \in 0..(BlockSize - 1), Absorbed(d, t, q, r)
  PROVE  Finish(Update(d, input)).digest = Reference(t \o input)
<1> DEFINE u == t \o input
           e == Update(d, input)
<1>1. ~e.finished /\ u \in Seq(S)
  BY UpdateAbsorbs, Joined
<1>2. PICK p \in Nat, s \in 0..(BlockSize - 1) : Absorbed(e, u, p, s)
  BY UpdateAbsorbs
<1> HIDE DEF u, e
<1>3. Finish(e).digest = Reference(u)
  BY <1>1, <1>2, FinishIs
<1> QED
  BY <1>3 DEF u, e

\* Whatever the bytes and wherever they are cut, the digest is RFC 1321's; and it
\* may be asked for at the cut when the padding fits the block that is begun
\* there.  Final writes over the rest of the buffer and restores only the
\* state and the count.
THEOREM AnyCuts ==
  ASSUME NEW S, NEW bytes \in Seq(S)
  PROVE  CutsAgree(bytes)
<1> SUFFICES ASSUME NEW n \in 0..Len(bytes)
             PROVE  LET first == Update(Reset, SubSeq(bytes, 1, n))
                        rest  == SubSeq(bytes, n + 1, Len(bytes))
                    IN  /\ Finish(Update(first, rest)).digest = Reference(bytes)
                        /\ n % BlockSize < BlockSize - LengthSize
                             => Finish(Update(Finish(first), rest)).digest
                                  = Reference(bytes)
  BY DEF CutsAgree
<1> DEFINE t     == SubSeq(bytes, 1, n)
           rest  == SubSeq(bytes, n + 1, Len(bytes))
           first == Update(Reset, t)
<1>1. t \in Seq(S) /\ Len(t) = n /\ rest \in Seq(S) /\ t \o rest = bytes
  <2>1. /\ n \in Nat /\ Len(bytes) \in Nat /\ n <= Len(bytes)
        /\ 1 \in 1..(Len(bytes) + 1) /\ n \in (1 - 1)..Len(bytes)
        /\ Len(bytes) \in n..Len(bytes) /\ n + 1 \in Int
    OBVIOUS
  <2>2. t \in Seq(S) /\ Len(t) = n
    BY <2>1, SubSeqProperties
  <2>3. rest \in Seq(S)
    BY <2>1, SubSeqProperties
  <2>4. t \o rest = SubSeq(bytes, 1, Len(bytes))
    BY <2>1, ConcatAdjacentSubSeq, Zenon
  <2> QED
    BY <2>2, <2>3, <2>4, SubSeqFull
<1>2. /\ ~first.finished
      /\ \E q \in Nat, r \in 0..(BlockSize - 1) : Absorbed(first, t, q, r)
  BY <1>1, FirstUpdate
<1> HIDE DEF t, rest, first
<1>3. PICK q \in Nat, r \in 0..(BlockSize - 1) : Absorbed(first, t, q, r)
  BY <1>2
<1>4. n % BlockSize = r
  BY <1>1, <1>3, CutIs DEF Absorbed, CutInto
<1>5. Finish(Update(first, rest)).digest = Reference(bytes)
  BY <1>1, <1>3, TwoUpdates
<1>6. ASSUME r < BlockSize - LengthSize
      PROVE  Finish(Update(Finish(first), rest)).digest = Reference(bytes)
  <2>1. Absorbed(Finish(first), t, q, r)
    BY <1>1, <1>2, <1>3, <1>6, FinishIs
  <2> QED
    BY <1>1, <2>1, TwoUpdates
<1> QED
  BY <1>4, <1>5, <1>6 DEF t, rest, first

-----------------------------------------------------------------------------
(* The meta data as bytes.                                                 *)

Byte == (STRING \cup {"#"}) \X Nat
Zero == <<"#", 0>>

\* What an int32 holds, as far as sizes and numbers go that are not negative.
Word == {v \in Nat : v <= 4294967295}

\* Bytes behind which a terminator ends the reading.
Name == {t \in Seq(Byte) : \A i \in DOMAIN t : t[i] # Zero}

\* s is in the buffer from i on.
Has(buffer, i, s) ==
  /\ i \in Nat \ {0}
  /\ i + Len(s) <= Len(buffer) + 1
  /\ \A k \in 1..Len(s) : buffer[i + k - 1] = s[k]

LEMMA DigitsOf ==
  ASSUME NEW v \in Word
  PROVE  v = (v % 256) + ((v \div 256) % 256) * 256 + ((v \div 65536) % 256) * 65536
               + ((v \div 16777216) % 256) * 16777216
<1> DEFINE a == v \div 256
           b == v \div 65536
           c == v \div 16777216
<1>1. v \in Nat /\ v <= 4294967295
  BY SMT DEF Word
<1>2. v = 256 * a + (v % 256) /\ a \in Nat
  BY <1>1, SMT
<1>3. b = a \div 256 /\ b \in Nat
  BY <1>1, SMT
<1>4. c = b \div 256 /\ c \in Nat /\ c <= 255
  BY <1>1, SMT
<1> HIDE DEF a, b, c
<1>5. a = 256 * b + (a % 256)
  BY <1>2, <1>3, SMT
<1>6. b = 256 * c + (b % 256)
  BY <1>3, <1>4, SMT
<1>7. c % 256 = c
  BY <1>4, SMT
<1>8. v = (v % 256) + (a % 256) * 256 + (b % 256) * 65536 + (c % 256) * 16777216
  <2> DEFINE x == v % 256
             y == a % 256
             z == b % 256
  <2>1. x \in Nat /\ y \in Nat /\ z \in Nat
    BY <1>1, <1>2, <1>3, SMT
  <2> HIDE DEF x, y, z
  <2>2. v = 256 * a + x /\ a = 256 * b + y /\ b = 256 * c + z
    BY <1>2, <1>5, <1>6, SMT DEF x, y, z
  <2>3. v = x + y * 256 + z * 65536 + c * 16777216
    BY <1>1, <1>2, <1>3, <1>4, <2>1, <2>2, SMT
  <2> QED
    BY <1>7, <2>3, SMT DEF x, y, z
<1> QED
  BY <1>8, SMT DEF a, b, c

LEMMA WordIs ==
  ASSUME NEW v \in Nat
  PROVE  /\ WriteInt32(v) \in Seq(Byte) /\ Len(WriteInt32(v)) = 4
         /\ \A k \in 1..4 : WriteInt32(v)[k] = <<"#", (v \div Weight[k]) % 256>>
<1> DEFINE d(k) == (v \div Weight[k]) % 256
           w    == [k \in 1..4 |-> <<"#", d(k)>>]
<1>1. w = WriteInt32(v)
  BY SMT DEF WriteInt32
<1>2. \A k \in 1..4 : d(k) \in Nat
  <2>1. \A k \in 1..4 : Weight[k] \in Nat \ {0}
    BY SMT DEF Weight
  <2>2. \A x \in Nat \ {0} : (v \div x) % 256 \in Nat
    BY SMT
  <2> QED
    BY <2>1, <2>2, SMT DEF d
<1> HIDE DEF d
<1>3. \A k \in 1..4 : <<"#", d(k)>> \in Byte
  BY <1>2, SMT DEF Byte
<1> HIDE DEF Byte
<1>4. w \in Seq(Byte) /\ Len(w) = 4 /\ \A k \in 1..4 : w[k] = <<"#", d(k)>>
  BY <1>3, SMT
<1> HIDE DEF w
<1> QED
  BY <1>1, <1>4, SMT DEF d

LEMMA HasAt ==
  ASSUME NEW buffer \in Seq(Byte), NEW i, NEW s \in Seq(Byte), Has(buffer, i, s),
         NEW k \in 1..Len(s)
  PROVE  i + k - 1 \in DOMAIN buffer /\ At(buffer, i + k - 1) = s[k]
<1>1. Len(s) \in Nat /\ Len(buffer) \in Nat /\ DOMAIN buffer = 1..Len(buffer)
  OBVIOUS
<1>2. i + k - 1 \in 1..Len(buffer)
  BY <1>1 DEF Has
<1>3. i + k - 1 \in DOMAIN buffer
  BY <1>1, <1>2
<1> QED
  BY <1>3 DEF At, Has

LEMMA ReadsWord ==
  ASSUME NEW buffer \in Seq(Byte), NEW i, NEW v \in Word, Has(buffer, i, WriteInt32(v))
  PROVE  ReadInt32(buffer, i) = v
<1> DEFINE s    == WriteInt32(v)
           d(k) == (v \div Weight[k]) % 256
<1>1. s \in Seq(Byte) /\ Len(s) = 4 /\ \A k \in 1..4 : s[k] = <<"#", d(k)>>
  <2>1. v \in Nat
    BY SMT DEF Word
  <2> QED
    BY <2>1, WordIs
<1> HIDE DEF s, d
<1>2. \A k \in 1..4 : At(buffer, i + k - 1) = s[k]
  <2>1. Has(buffer, i, s)
    BY DEF s
  <2> QED
    BY <1>1, <2>1, HasAt
<1>3. \A k \in 1..4 : At(buffer, i + k - 1)[2] = d(k)
  BY <1>1, <1>2
<1>4. ReadInt32(buffer, i) = d(1) * Weight[1] + d(2) * Weight[2] + d(3) * Weight[3]
                               + d(4) * Weight[4]
  BY <1>3 DEF ReadInt32
<1>5. /\ d(1) = v % 256 /\ d(2) = (v \div 256) % 256
      /\ d(3) = (v \div 65536) % 256 /\ d(4) = (v \div 16777216) % 256
  <2>1. v \in Int /\ v \div 1 = v
    BY SMT DEF Word
  <2> QED
    BY <2>1, SMT DEF d, Weight
<1>6. Weight[1] = 1 /\ Weight[2] = 256 /\ Weight[3] = 65536 /\ Weight[4] = 16777216
  BY SMT DEF Weight
<1>7. v % 256 \in Int
  BY SMT DEF Word
<1>8. ReadInt32(buffer, i)
        = (v % 256) + ((v \div 256) % 256) * 256 + ((v \div 65536) % 256) * 65536
            + ((v \div 16777216) % 256) * 16777216
  BY <1>4, <1>5, <1>6, <1>7, SMT
<1> QED
  BY <1>8, DigitsOf, SMT

LEMMA HasConcat ==
  ASSUME NEW buffer \in Seq(Byte), NEW i, NEW s \in Seq(Byte), NEW t \in Seq(Byte),
         Has(buffer, i, s \o t)
  PROVE  Has(buffer, i, s) /\ Has(buffer, i + Len(s), t)
<1> DEFINE u == s \o t
           m == Len(s)
           n == Len(t)
<1>1. m \in Nat /\ n \in Nat /\ Len(buffer) \in Nat
  OBVIOUS
<1>2. /\ Len(u) = m + n
      /\ \A k \in 1..(m + n) : u[k] = IF k <= m THEN s[k] ELSE t[k - m]
  BY ConcatProperties
<1>3. Has(buffer, i, u)
  OBVIOUS
<1> HIDE DEF u, m, n
<1>4. /\ i \in Nat \ {0} /\ i + (m + n) <= Len(buffer) + 1
      /\ \A k \in 1..(m + n) : buffer[i + k - 1] = u[k]
  BY <1>2, <1>3 DEF Has
<1>5. \A k \in 1..m : buffer[i + k - 1] = s[k]
  <2> SUFFICES ASSUME NEW k \in 1..m PROVE buffer[i + k - 1] = s[k]
    OBVIOUS
  <2>1. k \in 1..(m + n) /\ k <= m
    BY <1>1
  <2> QED
    BY <1>2, <1>4, <2>1
<1>6. \A k \in 1..n : buffer[(i + m) + k - 1] = t[k]
  <2> SUFFICES ASSUME NEW k \in 1..n PROVE buffer[(i + m) + k - 1] = t[k]
    OBVIOUS
  <2>1. m + k \in 1..(m + n) /\ ~(m + k <= m) /\ (m + k) - m = k
    BY <1>1
  <2>2. i + (m + k) - 1 = (i + m) + k - 1
    BY <1>1, <1>4
  <2> QED
    BY <1>2, <1>4, <2>1, <2>2
<1>7. Has(buffer, i, s)
  BY <1>1, <1>4, <1>5 DEF Has, m
<1>8. Has(buffer, i + m, t)
  BY <1>1, <1>4, <1>6 DEF Has, n
<1> QED
  BY <1>7, <1>8 DEF m

\* The text of a name can be written.
LEMMA TextIsName ==
  ASSUME NEW s \in STRING, Len(s) \in Nat
  PROVE  Text(s) \in Name /\ Len(Text(s)) = Len(s)
<1> DEFINE n == Len(s)
           t == [i \in 1..n |-> <<s, i>>]
<1>1. n \in Nat
  OBVIOUS
<1>2. Text(s) = t
  BY DEF Text
<1> HIDE DEF n
<1>3. \A i \in 1..n : <<s, i>> \in Byte
  BY <1>1 DEF Byte
<1>4. \A i \in 1..n : <<s, i>> # Zero
  BY <1>1 DEF Zero
<1> HIDE DEF Byte, Zero
<1>5. IsTuple(t, n) /\ DOMAIN t = 1..n /\ \A i \in 1..n : t[i] = <<s, i>>
  BY DEF IsTuple
<1> HIDE DEF t
<1>6. \A i \in 1..n : t[i] \in Byte
  BY <1>3, <1>5
<1>7. t \in Seq(Byte) /\ Len(t) = n
  BY <1>1, <1>5, <1>6, TupleIsSeq
<1> QED
  BY <1>2, <1>4, <1>5, <1>7 DEF Name, n

\* A text is the text of one name only.
LEMMA TextIsOf ==
  ASSUME NEW s \in STRING, NEW z \in STRING, Len(s) \in Nat \ {0}, Len(z) \in Nat \ {0},
         Text(s) = Text(z)
  PROVE  s = z
<1> DEFINE n == Len(s)
           k == Len(z)
<1>1. n \in Nat \ {0} /\ k \in Nat \ {0}
  BY Zenon
<1>2. \A i \in 1..n : Text(s)[i] = <<s, i>>
  BY DEF Text
<1>3. \A i \in 1..k : Text(z)[i] = <<z, i>>
  BY DEF Text
<1> HIDE DEF n, k
<1>4. 1 \in 1..n /\ 1 \in 1..k
  BY <1>1
<1>5. <<s, 1>> = <<z, 1>>
  BY <1>2, <1>3, <1>4
<1> QED
  BY <1>5

LEMMA StringIs ==
  ASSUME NEW t \in Name
  PROVE  /\ t \in Seq(Byte) /\ Len(t) \in Nat
         /\ WriteString(t) \in Seq(Byte) /\ Len(WriteString(t)) = Len(t) + 1
<1>1. t \in Seq(Byte) /\ Zero \in Byte
  BY DEF Name, Byte, Zero
<1>2. WriteString(t) = Append(t, Zero)
  BY DEF WriteString, Zero
<1> HIDE DEF Byte, Zero
<1> QED
  BY <1>1, <1>2, AppendProperties

\* The terminator is found, and not before the end of the text.
LEMMA ReadsString ==
  ASSUME NEW buffer \in Seq(Byte), NEW i, NEW t \in Name, Has(buffer, i, WriteString(t))
  PROVE  ReadString(buffer, i) = t
<1> DEFINE s == WriteString(t)
           n == Len(t)
           e == i + n
           OK(j) == /\ At(buffer, j) = Zero
                    /\ \A k \in i..(j - 1) : At(buffer, k) # Zero
<1>1. /\ t \in Seq(Byte) /\ n \in Nat /\ s \in Seq(Byte) /\ Len(s) = n + 1
      /\ Len(buffer) \in Nat /\ \A k \in 1..n : t[k] # Zero
  BY StringIs DEF Name
<1>2. s[n + 1] = Zero /\ \A k \in 1..n : s[k] = t[k]
  <2>1. s = Append(t, Zero)
    BY DEF WriteString, Zero
  <2> HIDE DEF s, n
  <2>2. Append(t, Zero)[Len(t) + 1] = Zero /\ \A k \in 1..Len(t) : Append(t, Zero)[k] = t[k]
    BY <1>1
  <2> QED
    BY <2>1, <2>2 DEF n
<1>3. Has(buffer, i, s)
  OBVIOUS
<1> HIDE DEF s, n
<1>4. i \in Nat \ {0} /\ i + (n + 1) <= Len(buffer) + 1
  BY <1>1, <1>3 DEF Has
<1>5. At(buffer, e) = Zero
  <2>1. n + 1 \in 1..Len(s) /\ i + (n + 1) - 1 = e
    BY <1>1, <1>4
  <2> QED
    BY <1>1, <1>2, <1>3, <2>1, HasAt
<1>6. ASSUME NEW k \in i..(e - 1)
      PROVE  At(buffer, k) = t[k - i + 1] /\ At(buffer, k) # Zero
  <2> DEFINE j == k - i + 1
  <2>1. j \in 1..n /\ j \in 1..Len(s) /\ i + j - 1 = k
    BY <1>1, <1>4
  <2> HIDE DEF j
  <2>2. At(buffer, i + j - 1) = s[j]
    BY <1>1, <1>3, <2>1, HasAt
  <2> QED
    BY <1>1, <1>2, <2>1, <2>2 DEF j
<1>7. e \in i..(Len(buffer) + 1) /\ OK(e)
  BY <1>1, <1>4, <1>5, <1>6
<1>8. ASSUME NEW j \in i..(Len(buffer) + 1), OK(j) PROVE j = e
  <2>1. j < e => FALSE
    <3>1. SUFFICES ASSUME j < e PROVE FALSE
      OBVIOUS
    <3>2. j \in i..(e - 1)
      BY <1>1, <1>4, <3>1
    <3> QED
      BY <1>6, <1>8, <3>2
  <2>2. j > e => FALSE
    <3>1. SUFFICES ASSUME j > e PROVE FALSE
      OBVIOUS
    <3>2. e \in i..(j - 1)
      BY <1>1, <1>4, <3>1
    <3> QED
      BY <1>5, <1>8, <3>2
  <2> QED
    BY <1>1, <1>4, <2>1, <2>2
<1>9. (CHOOSE j \in i..(Len(buffer) + 1) : OK(j)) = e
  <2> HIDE DEF OK, e
  <2> QED
    BY <1>7, <1>8
<1>10. ReadString(buffer, i) = SubSeq(buffer, i, e - 1)
  BY <1>9 DEF ReadString, Zero
<1>11. SubSeq(buffer, i, e - 1) = t
  <2> DEFINE r == SubSeq(buffer, i, e - 1)
  <2>1. /\ i \in 1..(Len(buffer) + 1) /\ e - 1 \in (i - 1)..Len(buffer)
        /\ (e - 1) - i + 1 = n
    BY <1>1, <1>4
  <2>2. /\ r \in Seq(Byte) /\ Len(r) = n
        /\ \A k \in 1..n : r[k] = buffer[i + k - 1]
    BY <2>1, SubSeqProperties
  <2> HIDE DEF r, e
  <2>3. \A k \in 1..n : buffer[i + k - 1] = s[k]
    <3>1. \A k \in 1..Len(s) : buffer[i + k - 1] = s[k]
      BY <1>3 DEF Has
    <3>2. \A k \in 1..n : k \in 1..Len(s)
      BY <1>1
    <3> QED
      BY <3>1, <3>2
  <2>4. \A k \in 1..n : r[k] = t[k]
    BY <1>2, <2>2, <2>3
  <2> QED
    BY <1>1, <2>2, <2>4, SeqEqual DEF n, r
<1> QED
  BY <1>10, <1>11

-----------------------------------------------------------------------------
(* One part after the other.                                               *)

AddPart(total, size) == total + 4 + size

\* Induction over the natural numbers, for sets.
LEMMA NatSet ==
  ASSUME NEW T \in SUBSET Nat, 0 \in T, \A n \in T : n + 1 \in T
  PROVE  \A n \in Nat : n \in T
<1> DEFINE Out == Nat \ T
<1>1. SUFFICES ASSUME Out # {} PROVE FALSE
  OBVIOUS
<1>2. PICK x \in Out : \A y \in Out : ~(<<y, x>> \in OpToRel(<, Nat))
  BY <1>1, NatLessThanWellFounded, WFMin
<1>3. \A y \in Out : ~(y < x)
  BY <1>2 DEF OpToRel
<1>4. x \in Nat /\ x # 0
  OBVIOUS
<1>5. x - 1 \in Nat /\ x - 1 < x /\ (x - 1) + 1 = x
  BY <1>4
<1> QED
  BY <1>3, <1>5

Steps == INSTANCE Recursion WITH Step <- AddPart

\* What follows for x from what is below it is so everywhere.
LEMMA LevelSet ==
  ASSUME NEW S, NEW Height \in [S -> Nat], NEW T,
         \A x \in S : (\A y \in S : Height[y] < Height[x] => y \in T) => x \in T
  PROVE  \A x \in S : x \in T
<1>1. Steps!Induction
  BY NatSet DEF Steps!Induction
<1> QED
  BY <1>1, Steps!LevelSet

LEMMA TotalSteps ==
  ASSUME NEW n \in Nat, NEW sizes \in [1..n -> Nat]
  PROVE  \E h : /\ h[0] = 0 /\ h[n] = Total(sizes)
                /\ \A k \in 1..n : h[k] = h[k - 1] + 4 + sizes[k]
<1>1. \A base, seq : FoldLeft(AddPart, base, seq) = Steps!Fold(base, seq)
  BY DEF FoldLeft, MapThenFoldSet, Max, Steps!Fold, Steps!FoldOf, Steps!Max
<1>2. Total(sizes) = FoldLeft(AddPart, 0, sizes)
  BY DEF Total, AddPart
<1>3. sizes \in Seq(Nat) /\ Len(sizes) = n
  OBVIOUS
<1>4. PICK h : /\ h[0] = 0
               /\ \A k \in 1..Len(sizes) : h[k] = AddPart(h[k - 1], sizes[k])
               /\ h[Len(sizes)] = Steps!Fold(0, sizes)
  BY <1>3, NatSet, Steps!FoldLeftIs DEF Steps!Induction
<1> QED
  BY <1>1, <1>2, <1>3, <1>4 DEF AddPart

LEMMA PartBytesIs ==
  ASSUME NEW bytes \in Seq(Byte)
  PROVE  /\ Part(Len(bytes), bytes) = WriteInt32(Len(bytes)) \o bytes
         /\ Part(Len(bytes), bytes) \in Seq(Byte)
         /\ Len(Part(Len(bytes), bytes)) = 4 + Len(bytes)
<1> DEFINE n == Len(bytes)
           w == WriteInt32(n)
<1>1. n \in Nat /\ w \in Seq(Byte) /\ Len(w) = 4
  BY WordIs
<1>2. [i \in 1..n |-> At(bytes, i)] = bytes
  <2>1. bytes = [i \in 1..n |-> bytes[i]] /\ DOMAIN bytes = 1..n
    OBVIOUS
  <2>2. \A i \in 1..n : At(bytes, i) = bytes[i]
    BY <2>1 DEF At
  <2> QED
    BY <2>1, <2>2
<1>3. Part(n, bytes) = w \o bytes
  BY <1>2 DEF Part
<1> HIDE DEF w, n
<1>4. w \o bytes \in Seq(Byte) /\ Len(w \o bytes) = 4 + n
  <2>1. bytes \in Seq(Byte) /\ Len(bytes) = n
    BY DEF n
  <2>2. w \o bytes \in Seq(Byte) /\ Len(w \o bytes) = Len(w) + Len(bytes)
    BY <1>1, <2>1, ConcatProperties, Zenon
  <2> QED
    BY <1>1, <2>1, <2>2
<1> QED
  BY <1>3, <1>4 DEF w, n

\* n parts, one for each of these bytes.
PartsOf(n, bytes) == [k \in 1..n |-> Part(Len(bytes[k]), bytes[k])]
SizesOf(n, bytes) == [k \in 1..n |-> Len(bytes[k])]

\* They follow each other: g[k] is the first k of them.
LEMMA PartsFollow ==
  ASSUME NEW n \in Nat, NEW bytes \in [1..n -> Seq(Byte)]
  PROVE  \E g : /\ g[0] = <<>> /\ g[n] = FlattenSeq(PartsOf(n, bytes))
                /\ \A k \in 0..n : g[k] \in Seq(Byte)
                /\ \A k \in 1..n : g[k] = g[k - 1] \o Part(Len(bytes[k]), bytes[k])
<1> DEFINE parts == PartsOf(n, bytes)
<1>1. \A k \in 1..n : Part(Len(bytes[k]), bytes[k]) \in Seq(Byte)
  BY PartBytesIs
<1>2. parts \in Seq(Seq(Byte)) /\ Len(parts) = n
  <2> DEFINE E == Seq(Byte)
             p(k) == Part(Len(bytes[k]), bytes[k])
  <2>1. \A k \in 1..n : p(k) \in E
    BY <1>1
  <2> HIDE DEF E, p
  <2>2. [k \in 1..n |-> p(k)] \in Seq(E) /\ Len([k \in 1..n |-> p(k)]) = n
    BY <2>1
  <2> QED
    BY <2>2 DEF p, E, PartsOf
<1>3. \A k \in 1..n : parts[k] = Part(Len(bytes[k]), bytes[k])
  BY DEF PartsOf
<1> HIDE DEF parts
<1>4. \A seqs : FlattenSeq(seqs) = Steps!Flat(seqs)
  BY DEF FlattenSeq, Steps!Flat
<1>5. PICK g : /\ g[0] = <<>>
               /\ \A k \in 1..Len(parts) : g[k] = g[k - 1] \o parts[k]
               /\ g[Len(parts)] = Steps!Flat(parts)
               /\ \A k \in 0..Len(parts) : g[k] \in Seq(Byte)
  <2>1. \E g : /\ g[0] = <<>>
               /\ \A k \in 1..Len(parts) : g[k] = g[k - 1] \o parts[k]
               /\ g[Len(parts)] = Steps!Flat(parts)
               /\ \A k \in 0..Len(parts) : g[k] \in Seq(Byte)
    BY <1>2, NatSet, Steps!FlattenSteps DEF Steps!Induction
  <2> QED
    BY <2>1
<1> QED
  BY <1>2, <1>3, <1>4, <1>5 DEF parts

\* What the parts take together.
LEMMA PartsTake ==
  ASSUME NEW n \in Nat, NEW bytes \in [1..n -> Seq(Byte)], NEW g,
         g[0] = <<>>, \A k \in 0..n : g[k] \in Seq(Byte),
         \A k \in 1..n : g[k] = g[k - 1] \o Part(Len(bytes[k]), bytes[k])
  PROVE  /\ \A k \in 0..n : Len(g[k]) \in Nat
         /\ \A k \in 1..n : Len(g[k]) = Len(g[k - 1]) + 4 + Len(bytes[k])
         /\ Len(g[n]) = Total(SizesOf(n, bytes))
         /\ \A k \in 1..n : Len(g[k]) <= Len(g[n])
<1> DEFINE size(k) == Len(bytes[k])
           len(k)  == Len(g[k])
<1>1. \A k \in 1..n : size(k) \in Nat
  OBVIOUS
<1>2. \A k \in 0..n : len(k) \in Nat
  OBVIOUS
<1>3. ASSUME NEW k \in 1..n PROVE len(k) = len(k - 1) + 4 + size(k)
  <2> DEFINE p == Part(Len(bytes[k]), bytes[k])
  <2>0. k - 1 \in 0..n
    OBVIOUS
  <2>1. g[k] = g[k - 1] \o p
    BY Zenon
  <2>2. p \in Seq(Byte) /\ Len(p) = 4 + size(k)
    BY PartBytesIs
  <2>3. g[k - 1] \in Seq(Byte)
    BY <2>0
  <2> HIDE DEF p
  <2>4. Len(g[k - 1] \o p) = Len(g[k - 1]) + Len(p)
    BY <2>2, <2>3, ConcatProperties, Zenon
  <2>5. len(k) = len(k - 1) + Len(p)
    BY <2>1, <2>4, Zenon
  <2>6. size(k) \in Nat /\ len(k - 1) \in Nat
    BY <1>1, <1>2, <2>0
  <2>7. Len(p) = 4 + size(k)
    BY <2>2
  <2> HIDE DEF size, len
  <2> QED
    BY <2>5, <2>6, <2>7
<1>4. len(0) = 0
  BY EmptySeq
<1>5. SizesOf(n, bytes) = [k \in 1..n |-> size(k)]
  BY DEF SizesOf
<1> DEFINE sizes == [k \in 1..n |-> size(k)]
<1>6. sizes \in [1..n -> Nat] /\ \A k \in 1..n : sizes[k] = size(k)
  BY <1>1
<1> HIDE DEF size, len, sizes
<1>7. PICK h : /\ h[0] = 0 /\ h[n] = Total(sizes)
               /\ \A k \in 1..n : h[k] = h[k - 1] + 4 + sizes[k]
  BY <1>6, TotalSteps
<1> DEFINE T == {k \in Nat : k <= n => len(k) = h[k]}
           U == {d \in Nat : d <= n => \A k \in (n - d)..n : len(n - d) <= len(k)}
<1>8. ASSUME NEW k \in T PROVE k + 1 \in T
  <2>1. k \in Nat /\ k + 1 \in Nat /\ (k <= n => len(k) = h[k])
    OBVIOUS
  <2>2. ASSUME k + 1 <= n PROVE len(k + 1) = h[k + 1]
    <3>1. k \in Nat /\ k + 1 \in Nat
      BY <2>1, Zenon
    <3>2. k <= n /\ k + 1 \in 1..n /\ (k + 1) - 1 = k
      BY <2>2, <3>1
    <3>3. len(k) = h[k]
      BY <2>1, <3>2, Zenon
    <3>4. len(k + 1) = len(k) + 4 + size(k + 1) /\ h[k + 1] = h[k] + 4 + sizes[k + 1]
      BY <1>3, <1>7, <3>2, Zenon
    <3> QED
      BY <1>6, <3>2, <3>3, <3>4, Zenon
  <2> QED
    BY <2>1, <2>2
<1>9. len(n) = h[n]
  <2>1. 0 \in T /\ T \in SUBSET Nat
    BY <1>4, <1>7
  <2> HIDE DEF T
  <2>2. n \in T
    BY <1>8, <2>1, NatSet
  <2> QED
    BY <2>2 DEF T
<1>10. ASSUME NEW d \in U PROVE d + 1 \in U
  <2>1. SUFFICES ASSUME d + 1 <= n, NEW k \in (n - (d + 1))..n
                 PROVE  len(n - (d + 1)) <= len(k)
    OBVIOUS
  <2>2. n - d \in 1..n /\ (n - d) - 1 = n - (d + 1) /\ n - (d + 1) \in 0..n
    BY <2>1
  <2>3. len(n - d) = len(n - (d + 1)) + 4 + size(n - d)
    BY <1>3, <2>2
  <2>4. CASE k = n - (d + 1)
    BY <1>2, <2>2, <2>4
  <2>5. CASE k # n - (d + 1)
    <3>1. k \in (n - d)..n /\ k \in 0..n
      BY <2>1, <2>5
    <3>2. len(n - d) <= len(k)
      BY <2>1, <3>1
    <3> QED
      BY <1>1, <1>2, <2>2, <2>3, <3>1, <3>2
  <2> QED
    BY <2>4, <2>5
<1>11. ASSUME NEW k \in 1..n PROVE len(k) <= len(n)
  <2>0. n - 0 = n /\ \A j \in n..n : j = n
    OBVIOUS
  <2>1. 0 \in U /\ U \in SUBSET Nat
    <3>1. len(n) \in Nat /\ len(n) <= len(n)
      BY <1>2
    <3>2. 0 \in U
      BY <2>0, <3>1
    <3>3. U \in SUBSET Nat
      OBVIOUS
    <3> QED
      BY <3>2, <3>3
  <2> HIDE DEF U
  <2>2. \A d \in Nat : d \in U
    BY <1>10, <2>1, NatSet
  <2>3. n - k \in Nat /\ n - k <= n /\ n - (n - k) = k /\ n \in k..n
    OBVIOUS
  <2>4. n - k \in U
    BY <2>2, <2>3
  <2> QED
    BY <2>3, <2>4 DEF U
<1> QED
  BY <1>2, <1>3, <1>5, <1>7, <1>9, <1>11 DEF size, len, sizes

LEMMA PackedIs ==
  ASSUME NEW n \in Nat, NEW bytes \in [1..n -> Seq(Byte)]
  PROVE  /\ FlattenSeq(PartsOf(n, bytes)) \in Seq(Byte)
         /\ Len(FlattenSeq(PartsOf(n, bytes))) = Total(SizesOf(n, bytes))
         /\ Total(SizesOf(n, bytes)) \in Nat
         /\ \A k \in 1..n : Len(bytes[k]) <= Total(SizesOf(n, bytes))
<1>1. PICK g : /\ g[0] = <<>> /\ g[n] = FlattenSeq(PartsOf(n, bytes))
               /\ \A k \in 0..n : g[k] \in Seq(Byte)
               /\ \A k \in 1..n : g[k] = g[k - 1] \o Part(Len(bytes[k]), bytes[k])
  BY PartsFollow
<1> DEFINE len(k) == Len(g[k])
<1>2. /\ \A k \in 0..n : len(k) \in Nat
      /\ \A k \in 1..n : len(k) = len(k - 1) + 4 + Len(bytes[k])
      /\ len(n) = Total(SizesOf(n, bytes))
      /\ \A k \in 1..n : len(k) <= len(n)
  BY <1>1, PartsTake
<1>3. g[n] \in Seq(Byte) /\ len(n) \in Nat
  BY <1>1, <1>2
<1>4. len(n) = Len(FlattenSeq(PartsOf(n, bytes)))
  BY <1>1
<1>5. \A k \in 1..n : Len(bytes[k]) \in Nat
  OBVIOUS
<1> HIDE DEF len
<1>6. ASSUME NEW k \in 1..n PROVE Len(bytes[k]) <= len(n)
  <2>1. k - 1 \in 0..n /\ k \in 0..n
    OBVIOUS
  <2> QED
    BY <1>2, <1>3, <1>5, <2>1
<1> QED
  BY <1>1, <1>2, <1>3, <1>4, <1>6

\* The parts are in the buffer from i to before end, each of them at its place.
Placed(buffer, n, bytes, i, at, end) ==
  /\ at[0] = i /\ at[n] = end
  /\ \A k \in 0..n : at[k] \in Nat \ {0}
  /\ \A k \in 1..n : /\ at[k] = at[k - 1] + 4 + Len(bytes[k])
                     /\ Has(buffer, at[k - 1], WriteInt32(Len(bytes[k])))
                     /\ Has(buffer, at[k - 1] + 4, bytes[k])

LEMMA PackedAt ==
  ASSUME NEW n \in Nat, NEW bytes \in [1..n -> Seq(Byte)],
         NEW buffer \in Seq(Byte), NEW i, Has(buffer, i, FlattenSeq(PartsOf(n, bytes)))
  PROVE  \E at : Placed(buffer, n, bytes, i, at, i + Total(SizesOf(n, bytes)))
<1>1. PICK g : /\ g[0] = <<>> /\ g[n] = FlattenSeq(PartsOf(n, bytes))
               /\ \A k \in 0..n : g[k] \in Seq(Byte)
               /\ \A k \in 1..n : g[k] = g[k - 1] \o Part(Len(bytes[k]), bytes[k])
  BY PartsFollow
<1> DEFINE size(k) == Len(bytes[k])
           len(k)  == Len(g[k])
           part(k) == Part(Len(bytes[k]), bytes[k])
           word(k) == WriteInt32(Len(bytes[k]))
           total   == Total(SizesOf(n, bytes))
           at      == [k \in 0..n |-> i + len(k)]
<1>2. /\ \A k \in 0..n : len(k) \in Nat
      /\ \A k \in 1..n : len(k) = len(k - 1) + 4 + size(k)
      /\ len(n) = total
  BY <1>1, PartsTake
<1>3. len(0) = 0
  BY <1>1, EmptySeq
<1>4. i \in Nat \ {0}
  BY DEF Has
<1>5. ASSUME NEW k \in 1..n
      PROVE  /\ size(k) \in Nat /\ part(k) \in Seq(Byte) /\ bytes[k] \in Seq(Byte)
             /\ part(k) = word(k) \o bytes[k] /\ word(k) \in Seq(Byte) /\ Len(word(k)) = 4
  <2>1. bytes[k] \in Seq(Byte) /\ size(k) \in Nat
    OBVIOUS
  <2> QED
    BY <2>1, PartBytesIs, WordIs
<1>6. \A k \in 1..n : g[k] = g[k - 1] \o part(k)
  BY <1>1
<1> HIDE DEF part
<1>7. ASSUME NEW k \in 1..n, Has(buffer, i, g[k])
      PROVE  /\ Has(buffer, i, g[k - 1])
             /\ Has(buffer, i + len(k - 1), part(k))
  <2>1. k - 1 \in 0..n
    OBVIOUS
  <2>2. g[k - 1] \in Seq(Byte)
    BY <1>1, <2>1
  <2>3. Has(buffer, i, g[k - 1] \o part(k))
    BY <1>6, <1>7
  <2> QED
    BY <1>5, <2>2, <2>3, HasConcat
<1> DEFINE U == {d \in Nat : d <= n => Has(buffer, i, g[n - d])}
<1>8. ASSUME NEW d \in U PROVE d + 1 \in U
  <2>1. SUFFICES ASSUME d + 1 <= n PROVE Has(buffer, i, g[n - (d + 1)])
    OBVIOUS
  <2>2. n - d \in 1..n /\ (n - d) - 1 = n - (d + 1)
    BY <2>1
  <2>3. Has(buffer, i, g[n - d])
    BY <2>1
  <2> QED
    BY <1>7, <2>2, <2>3
<1>9. ASSUME NEW k \in 0..n PROVE Has(buffer, i, g[k])
  <2>1. 0 \in U /\ U \in SUBSET Nat
    BY <1>1
  <2> HIDE DEF U
  <2>2. \A d \in Nat : d \in U
    BY <1>8, <2>1, NatSet
  <2>3. n - k \in Nat /\ n - k <= n /\ n - (n - k) = k
    OBVIOUS
  <2>4. n - k \in U
    BY <2>2, <2>3
  <2> QED
    BY <2>3, <2>4 DEF U
<1>10. \A k \in 0..n : at[k] = i + len(k)
  OBVIOUS
<1> HIDE DEF at, U
<1>11. ASSUME NEW k \in 1..n
       PROVE  /\ at[k] = at[k - 1] + 4 + size(k)
              /\ Has(buffer, at[k - 1], word(k))
              /\ Has(buffer, at[k - 1] + 4, bytes[k])
  <2>1. k \in 0..n /\ k - 1 \in 0..n
    OBVIOUS
  <2>2. Has(buffer, i + len(k - 1), part(k))
    BY <1>7, <1>9, <2>1
  <2>3. Has(buffer, i + len(k - 1), word(k) \o bytes[k])
    BY <1>5, <2>2
  <2> DEFINE j == i + len(k - 1)
  <2> HIDE DEF word, j
  <2>4. Has(buffer, j, word(k)) /\ Has(buffer, j + Len(word(k)), bytes[k])
    BY <1>5, <2>3, HasConcat DEF j
  <2>5. at[k - 1] = j /\ Len(word(k)) = 4
    BY <1>5, <1>10, <2>1 DEF j
  <2>6. at[k] = at[k - 1] + 4 + size(k)
    <3>1. at[k] = i + len(k) /\ at[k - 1] = i + len(k - 1)
      BY <1>10, <2>1
    <3>2. len(k) = len(k - 1) + 4 + size(k) /\ len(k - 1) \in Nat /\ size(k) \in Nat
      BY <1>2, <1>5, <2>1
    <3> HIDE DEF len, size
    <3> QED
      BY <1>4, <3>1, <3>2
  <2> QED
    BY <2>4, <2>5, <2>6
<1>12. at[0] = i /\ at[n] = i + total /\ \A k \in 0..n : at[k] \in Nat \ {0}
  <2> HIDE DEF len, size, total
  <2>1. 0 \in 0..n /\ n \in 0..n
    OBVIOUS
  <2> QED
    BY <1>2, <1>3, <1>4, <1>10, <2>1
<1> QED
  BY <1>11, <1>12 DEF Placed, size, word, total

-----------------------------------------------------------------------------
(* Starts is what its definition says.                                     *)

LEMMA NumberRead ==
  ASSUME NEW buffer \in Seq(Byte), NEW j \in Nat
  PROVE  ReadInt32(buffer, j) \in Nat
<1>1. \A i : At(buffer, i)[2] \in Nat
  <2> SUFFICES ASSUME NEW i PROVE At(buffer, i)[2] \in Nat
    OBVIOUS
  <2>1. CASE i \in DOMAIN buffer
    <3>1. buffer[i] \in Byte
      BY <2>1
    <3>2. buffer[i][2] \in Nat
      BY <3>1, SMT DEF Byte
    <3> QED
      BY <2>1, <3>2 DEF At
  <2>2. CASE i \notin DOMAIN buffer
    BY <2>2 DEF At
  <2> QED
    BY <2>1, <2>2
<1>2. \A k \in 1..4 : Weight[k] \in Nat
  BY SMT DEF Weight
<1> DEFINE w(k) == At(buffer, j + k - 1)[2] * Weight[k]
<1>3. \A a, b \in Nat : a * b \in Nat
  OBVIOUS
<1>4. \A k \in 1..4 : w(k) \in Nat
  BY <1>1, <1>2, <1>3
<1>5. ReadInt32(buffer, j) = w(1) + w(2) + w(3) + w(4)
  BY DEF ReadInt32
<1> HIDE DEF w
<1> QED
  BY <1>4, <1>5

\* The definition of From, for every buffer and end at once.
StartStep(F, x) ==
  IF x[3] >= x[2] THEN {x[3]}
  ELSE {x[3]} \cup F[<<x[1], x[2], x[3] + 4 + ReadInt32(x[1], x[3])>>]

Starting == INSTANCE Recursion WITH Step <- StartStep

IsStarts(F, buffer, end) ==
  F = [j \in Nat |->
         IF j >= end THEN {j} ELSE {j} \cup F[j + 4 + ReadInt32(buffer, j)]]

LEMMA StartsExist ==
  ASSUME NEW buffer \in Seq(Byte), NEW end \in Nat
  PROVE  \E F : IsStarts(F, buffer, end)
<1> DEFINE next(j) == j + 4 + ReadInt32(buffer, j)
           S       == {<<buffer, end, j>> : j \in Nat}
           Height  == [x \in S |-> IF x[3] >= end THEN 0 ELSE end - x[3]]
<1>1. ASSUME NEW j \in Nat PROVE next(j) \in Nat /\ j < next(j)
  <2>1. ReadInt32(buffer, j) \in Nat
    BY NumberRead
  <2> QED
    BY <2>1
<1>2. /\ \A x \in S : /\ x[1] = buffer /\ x[2] = end /\ x[3] \in Nat
                      /\ x = <<buffer, end, x[3]>>
      /\ \A j \in Nat : <<buffer, end, j>> \in S
  OBVIOUS
<1> HIDE DEF S
<1>3. Height \in [S -> Nat]
  <2>1. ASSUME NEW x \in S PROVE (IF x[3] >= end THEN 0 ELSE end - x[3]) \in Nat
    <3>1. x[3] \in Nat
      BY <1>2
    <3> QED
      BY <3>1
  <2> QED
    BY <2>1
<1>4. \A x \in S : Height[x] = IF x[3] >= end THEN 0 ELSE end - x[3]
  OBVIOUS
<1> HIDE DEF Height
<1>5. Starting!Local(S, Height)
  <2>1. SUFFICES ASSUME NEW f, NEW g, NEW x \in S,
                        \A y \in S : Height[y] < Height[x] => f[y] = g[y]
                 PROVE  StartStep(f, x) = StartStep(g, x)
    BY DEF Starting!Local
  <2>2. x[1] = buffer /\ x[2] = end /\ x[3] \in Nat
    BY <1>2
  <2> DEFINE j == x[3]
             y == <<buffer, end, next(j)>>
  <2>3. CASE j >= end
    BY <2>2, <2>3 DEF StartStep
  <2>4. CASE ~(j >= end)
    <3>1. next(j) \in Nat /\ j < next(j) /\ y \in S
      BY <1>1, <1>2, <2>2
    <3>2. y[3] = next(j)
      OBVIOUS
    <3>3. Height[x] = end - j
      BY <1>4, <2>4
    <3>4. Height[y] = IF next(j) >= end THEN 0 ELSE end - next(j)
      BY <1>4, <3>1, <3>2
    <3>5. Height[y] < Height[x]
      <4> HIDE DEF next, j, y
      <4>1. j \in Nat
        BY <2>2 DEF j
      <4> QED
        BY <2>4, <3>1, <3>3, <3>4, <4>1
    <3>6. f[y] = g[y]
      BY <2>1, <3>1, <3>5
    <3> QED
      BY <2>2, <2>4, <3>6 DEF StartStep
  <2> QED
    BY <2>3, <2>4
<1>6. PICK f : f = [x \in S |-> StartStep(f, x)]
  BY <1>3, <1>5, NatSet, Starting!Defined DEF Starting!Induction
<1> DEFINE F == [j \in Nat |-> f[<<buffer, end, j>>]]
<1>7. ASSUME NEW j \in Nat
      PROVE  F[j] = IF j >= end THEN {j} ELSE {j} \cup F[next(j)]
  <2> DEFINE x == <<buffer, end, j>>
  <2>1. x \in S /\ x[1] = buffer /\ x[2] = end /\ x[3] = j /\ next(j) \in Nat
    BY <1>1, <1>2
  <2>2. F[j] = f[x] /\ F[next(j)] = f[<<buffer, end, next(j)>>]
    BY <2>1
  <2>3. f[x] = StartStep(f, x)
    BY <1>6, <2>1
  <2> HIDE DEF F, x
  <2> QED
    BY <2>1, <2>2, <2>3 DEF StartStep
<1>8. F = [j \in Nat |-> F[j]]
  OBVIOUS
<1> HIDE DEF F
<1>9. F = [j \in Nat |-> IF j >= end THEN {j} ELSE {j} \cup F[next(j)]]
  BY <1>7, <1>8
<1> QED
  BY <1>9 DEF IsStarts

LEMMA StartsAre ==
  ASSUME NEW buffer \in Seq(Byte), NEW end \in Nat
  PROVE  \A j \in Nat : Starts(buffer, j, end) =
           IF j >= end THEN {j}
           ELSE {j} \cup Starts(buffer, j + 4 + ReadInt32(buffer, j), end)
<1> DEFINE F == CHOOSE G : IsStarts(G, buffer, end)
<1>1. IsStarts(F, buffer, end)
  BY StartsExist
<1>2. \A i : Starts(buffer, i, end) = F[i]
  BY DEF Starts, IsStarts
<1> HIDE DEF F
<1>3. \A j \in Nat : F[j] = IF j >= end THEN {j}
                            ELSE {j} \cup F[j + 4 + ReadInt32(buffer, j)]
  BY <1>1 DEF IsStarts
<1> QED
  BY <1>2, <1>3

\* Where parts are read, and where they begin.
Found(buffer, i, end) == {j \in Starts(buffer, i, end) : j < end}
Begins(at, n)         == {at[k - 1] : k \in 1..n}

\* The parts are found where they are, and nothing else is.
LEMMA PartsFound ==
  ASSUME NEW n \in Nat, NEW bytes \in [1..n -> Seq(Byte)], NEW buffer \in Seq(Byte),
         NEW i, NEW at, NEW end, Placed(buffer, n, bytes, i, at, end),
         \A k \in 1..n : Len(bytes[k]) \in Word
  PROVE  /\ Max(Starts(buffer, i, end)) = end
         /\ Found(buffer, i, end) = Begins(at, n)
         /\ \A k \in 1..n : ReadInt32(buffer, at[k - 1]) = Len(bytes[k])
<1> DEFINE size(k) == Len(bytes[k])
           from(j) == Starts(buffer, j, end)
<1>1. ASSUME NEW k \in 1..n PROVE ReadInt32(buffer, at[k - 1]) = size(k)
  <2>1. Has(buffer, at[k - 1], WriteInt32(size(k))) /\ size(k) \in Word
    BY DEF Placed
  <2> QED
    BY <2>1, ReadsWord
<1>2. /\ at[0] = i /\ at[n] = end /\ \A k \in 0..n : at[k] \in Nat
      /\ \A k \in 1..n : at[k] = at[k - 1] + 4 + size(k)
  BY DEF Placed
<1>3. end \in Nat
  BY <1>2
<1>4. \A k \in 1..n : size(k) \in Nat
  OBVIOUS
<1>5. \A j \in Nat : from(j) = IF j >= end THEN {j}
                               ELSE {j} \cup from(j + 4 + ReadInt32(buffer, j))
  BY <1>3, StartsAre
<1> HIDE DEF size, from
<1> DEFINE Before(d) == /\ at[n - d] <= end
                        /\ d > 0 => at[n - d] < end
                        /\ from(at[n - d]) = {at[k] : k \in (n - d)..n}
           U == {d \in Nat : d <= n => Before(d)}
<1>6. Before(0)
  <2>1. n - 0 = n /\ n..n = {n} /\ end >= end /\ end <= end
    BY <1>3
  <2>2. from(at[n]) = {end}
    BY <1>2, <1>3, <1>5, <2>1
  <2>3. {at[k] : k \in n..n} = {end}
    BY <1>2, <2>1
  <2> QED
    BY <1>2, <2>1, <2>2, <2>3
<1>7. ASSUME NEW d \in U PROVE d + 1 \in U
  <2>1. SUFFICES ASSUME d + 1 <= n PROVE Before(d + 1)
    OBVIOUS
  <2> DEFINE k == n - d
  <2>2. k \in 1..n /\ k - 1 = n - (d + 1) /\ k - 1 \in 0..n /\ k \in 0..n
    BY <2>1
  <2>3. at[k] <= end /\ from(at[k]) = {at[m] : m \in k..n}
    BY <2>1
  <2>4. at[k] = at[k - 1] + 4 + size(k) /\ ReadInt32(buffer, at[k - 1]) = size(k)
    BY <1>1, <1>2, <2>2
  <2>5. at[k - 1] \in Nat /\ at[k] \in Nat /\ size(k) \in Nat
    BY <1>2, <1>4, <2>2
  <2> HIDE DEF k, U
  <2>6. at[k - 1] < end /\ ~(at[k - 1] >= end)
    BY <1>3, <2>3, <2>4, <2>5
  <2>7. from(at[k - 1]) = {at[k - 1]} \cup from(at[k])
    BY <1>5, <2>4, <2>5, <2>6
  <2>8. (k - 1)..n = {k - 1} \cup (k..n)
    BY <2>2
  <2>9. {at[m] : m \in (k - 1)..n} = {at[k - 1]} \cup {at[m] : m \in k..n}
    BY <2>8
  <2>10. from(at[k - 1]) = {at[m] : m \in (k - 1)..n}
    BY <2>3, <2>7, <2>9
  <2>11. at[k - 1] <= end
    BY <1>3, <2>5, <2>6
  <2> QED
    BY <2>2, <2>6, <2>10, <2>11
<1>8. \A d \in Nat : d <= n => Before(d)
  <2>1. 0 \in U /\ U \in SUBSET Nat
    <3> HIDE DEF Before
    <3> QED
      BY <1>6
  <2> HIDE DEF Before
  <2>2. \A d \in Nat : d \in U
    <3> HIDE DEF U
    <3> QED
      BY <1>7, <2>1, NatSet
  <2> QED
    BY <2>2
<1>9. \A k \in 0..(n - 1) : at[k] < end
  <2> SUFFICES ASSUME NEW k \in 0..(n - 1) PROVE at[k] < end
    OBVIOUS
  <2>1. n - k \in Nat /\ n - k <= n /\ n - k > 0 /\ n - (n - k) = k
    OBVIOUS
  <2>2. Before(n - k)
    BY <1>8, <2>1
  <2> QED
    BY <2>1, <2>2
<1>10. from(i) = {at[k] : k \in 0..n}
  <2>1. n \in Nat /\ n <= n /\ n - n = 0
    OBVIOUS
  <2>2. Before(n)
    BY <1>8, <2>1
  <2> QED
    BY <1>2, <2>1, <2>2
<1>11. {j \in from(i) : j < end} = {at[k - 1] : k \in 1..n}
  <2>1. ASSUME NEW j \in from(i), j < end PROVE \E k \in 1..n : j = at[k - 1]
    <3>1. PICK k \in 0..n : j = at[k]
      BY <1>10, <2>1
    <3>2. k # n
      BY <1>2, <1>3, <2>1, <3>1
    <3>3. k + 1 \in 1..n /\ (k + 1) - 1 = k
      BY <3>2
    <3> QED
      BY <3>1, <3>3
  <2>2. ASSUME NEW k \in 1..n PROVE at[k - 1] \in from(i) /\ at[k - 1] < end
    <3>1. k - 1 \in 0..n /\ k - 1 \in 0..(n - 1)
      OBVIOUS
    <3> QED
      BY <1>9, <1>10, <3>1
  <2> QED
    BY <2>1, <2>2
<1>12. Max(from(i)) = end
  <2>1. end \in from(i)
    <3>1. n \in 0..n
      OBVIOUS
    <3> QED
      BY <1>2, <1>10, <3>1
  <2>2. ASSUME NEW j \in from(i) PROVE j \in Nat /\ end >= j
    <3>1. PICK k \in 0..n : j = at[k]
      BY <1>10
    <3>2. k = n \/ k \in 0..(n - 1)
      OBVIOUS
    <3> QED
      BY <1>2, <1>3, <1>9, <3>1, <3>2
  <2>3. ASSUME NEW x \in from(i), \A y \in from(i) : x >= y PROVE x = end
    BY <1>3, <2>1, <2>2, <2>3
  <2> QED
    BY <2>1, <2>2, <2>3 DEF Max
<1> QED
  BY <1>1, <1>11, <1>12 DEF size, from, Found, Begins

-----------------------------------------------------------------------------
(* A field of a message and a value of an enum.                            *)

FieldMetas == [name : Name, size : Nat, offset : Nat, count : Nat, type : Name]
ValueMetas == [name : Name, value : Nat]

\* An int32 holds the numbers.
FieldFits(f) == f.size \in Word /\ f.offset \in Word /\ f.count \in Word
ValueFits(v) == v.value \in Word

LEMMA Joined2 ==
  ASSUME NEW s \in Seq(Byte), NEW t \in Seq(Byte)
  PROVE  s \o t \in Seq(Byte) /\ Len(s \o t) = Len(s) + Len(t)
  BY ConcatProperties, Zenon

LEMMA ValueIs ==
  ASSUME NEW v \in ValueMetas
  PROVE  /\ ValueBytes(v) \in Seq(Byte) /\ Len(ValueBytes(v)) = ValueSize(v)
         /\ ValueSize(v) \in Nat
<1> DEFINE w == WriteInt32(v.value)
           t == WriteString(v.name)
<1>1. v.value \in Nat /\ v.name \in Name
  BY DEF ValueMetas
<1>2. w \in Seq(Byte) /\ Len(w) = 4
  BY <1>1, WordIs
<1>3. t \in Seq(Byte) /\ Len(t) = Len(v.name) + 1 /\ Len(v.name) \in Nat
  BY <1>1, StringIs
<1>4. ValueBytes(v) = w \o t
  BY DEF ValueBytes
<1>5. ValueSize(v) = Len(v.name) + 1 + 4
  BY DEF ValueSize
<1> HIDE DEF w, t
<1>6. w \o t \in Seq(Byte) /\ Len(w \o t) = Len(w) + Len(t)
  BY <1>2, <1>3, Joined2
<1> QED
  BY <1>2, <1>3, <1>4, <1>5, <1>6

LEMMA ReadsValue ==
  ASSUME NEW v \in ValueMetas, ValueFits(v), NEW buffer \in Seq(Byte), NEW i,
         Has(buffer, i, ValueBytes(v))
  PROVE  ReadValue(buffer, i, ValueSize(v)) = {v}
<1> DEFINE w == WriteInt32(v.value)
           t == WriteString(v.name)
<1>1. /\ v.value \in Word /\ v.value \in Nat /\ v.name \in Name
      /\ v = [name |-> v.name, value |-> v.value]
  BY DEF ValueMetas, ValueFits
<1>2. w \in Seq(Byte) /\ Len(w) = 4
  BY <1>1, WordIs
<1>3. t \in Seq(Byte)
  BY <1>1, StringIs
<1>4. Has(buffer, i, w \o t)
  BY DEF ValueBytes
<1> HIDE DEF w, t
<1>5. Has(buffer, i, w) /\ Has(buffer, i + 4, t)
  BY <1>2, <1>3, <1>4, HasConcat
<1>6. ReadInt32(buffer, i) = v.value
  BY <1>1, <1>5, ReadsWord DEF w
<1>7. ReadString(buffer, i + 4) = v.name
  BY <1>1, <1>5, ReadsString DEF t
<1>8. [value |-> ReadInt32(buffer, i), name |-> ReadString(buffer, i + 4)] = v
  BY <1>1, <1>6, <1>7
<1> QED
  BY <1>8 DEF ReadValue

LEMMA FieldIs ==
  ASSUME NEW f \in FieldMetas
  PROVE  /\ FieldBytes(f) \in Seq(Byte) /\ Len(FieldBytes(f)) = FieldSize(f)
         /\ FieldSize(f) \in Nat
<1> DEFINE a == WriteInt32(f.size)
           b == WriteInt32(f.offset)
           c == WriteInt32(f.count)
           s == WriteString(f.name)
           t == WriteString(f.type)
<1>1. /\ f.size \in Nat /\ f.offset \in Nat /\ f.count \in Nat
      /\ f.name \in Name /\ f.type \in Name
  BY DEF FieldMetas
<1>2. /\ a \in Seq(Byte) /\ Len(a) = 4 /\ b \in Seq(Byte) /\ Len(b) = 4
      /\ c \in Seq(Byte) /\ Len(c) = 4
  BY <1>1, WordIs
<1>3. /\ s \in Seq(Byte) /\ Len(s) = Len(f.name) + 1 /\ Len(f.name) \in Nat
      /\ t \in Seq(Byte) /\ Len(t) = Len(f.type) + 1 /\ Len(f.type) \in Nat
  BY <1>1, StringIs
<1>4. FieldBytes(f) = a \o b \o c \o s \o t
  BY DEF FieldBytes
<1>5. FieldSize(f) = Len(f.name) + 1 + 12 + Len(f.type) + 1
  BY DEF FieldSize
<1> HIDE DEF a, b, c, s, t
<1>6. a \o b \in Seq(Byte) /\ Len(a \o b) = Len(a) + Len(b)
  BY <1>2, Joined2
<1>7. a \o b \o c \in Seq(Byte) /\ Len(a \o b \o c) = Len(a \o b) + Len(c)
  BY <1>2, <1>6, Joined2
<1>8. a \o b \o c \o s \in Seq(Byte) /\ Len(a \o b \o c \o s) = Len(a \o b \o c) + Len(s)
  BY <1>3, <1>7, Joined2
<1>9. /\ a \o b \o c \o s \o t \in Seq(Byte)
      /\ Len(a \o b \o c \o s \o t) = Len(a \o b \o c \o s) + Len(t)
  BY <1>3, <1>8, Joined2
<1>10. Len(FieldBytes(f)) = Len(f.name) + 1 + 12 + Len(f.type) + 1
  <2> DEFINE l2 == Len(a \o b)
             l3 == Len(a \o b \o c)
             l4 == Len(a \o b \o c \o s)
             l5 == Len(a \o b \o c \o s \o t)
             n  == Len(f.name)
             m  == Len(f.type)
  <2>1. /\ l2 = 4 + 4 /\ l3 = l2 + 4 /\ l4 = l3 + (n + 1) /\ l5 = l4 + (m + 1)
    BY <1>2, <1>3, <1>6, <1>7, <1>8, <1>9, Zenon
  <2>2. Len(FieldBytes(f)) = l5
    BY <1>4
  <2>3. n \in Nat /\ m \in Nat
    BY <1>3
  <2> HIDE DEF l2, l3, l4, l5, n, m
  <2>4. l5 = n + 1 + 12 + m + 1
    BY <2>1, <2>3
  <2> QED
    BY <2>2, <2>4 DEF n, m
<1>11. Len(f.name) + 1 + 12 + Len(f.type) + 1 \in Nat
  <2>1. \A n, m \in Nat : n + 1 + 12 + m + 1 \in Nat
    OBVIOUS
  <2> QED
    BY <1>3, <2>1, Zenon
<1>12. FieldBytes(f) \in Seq(Byte)
  BY <1>4, <1>9
<1> QED
  BY <1>5, <1>10, <1>11, <1>12

LEMMA ReadsField ==
  ASSUME NEW f \in FieldMetas, FieldFits(f), NEW buffer \in Seq(Byte), NEW i,
         Has(buffer, i, FieldBytes(f))
  PROVE  ReadField(buffer, i, FieldSize(f)) = {f}
<1> DEFINE a == WriteInt32(f.size)
           b == WriteInt32(f.offset)
           c == WriteInt32(f.count)
           s == WriteString(f.name)
           t == WriteString(f.type)
<1>1. /\ f.size \in Word /\ f.offset \in Word /\ f.count \in Word
      /\ f.size \in Nat /\ f.offset \in Nat /\ f.count \in Nat
      /\ f.name \in Name /\ f.type \in Name
      /\ f = [size |-> f.size, offset |-> f.offset, count |-> f.count,
              name |-> f.name, type |-> f.type]
  BY DEF FieldMetas, FieldFits
<1>2. /\ a \in Seq(Byte) /\ Len(a) = 4 /\ b \in Seq(Byte) /\ Len(b) = 4
      /\ c \in Seq(Byte) /\ Len(c) = 4
  BY <1>1, WordIs
<1>3. /\ s \in Seq(Byte) /\ Len(s) = Len(f.name) + 1 /\ Len(f.name) \in Nat
      /\ t \in Seq(Byte)
  BY <1>1, StringIs
<1>4. Has(buffer, i, a \o b \o c \o s \o t) /\ i \in Nat
  BY DEF FieldBytes, Has
<1> HIDE DEF a, b, c, s, t
<1>5. a \o b \in Seq(Byte) /\ Len(a \o b) = 8
  <2>1. a \o b \in Seq(Byte) /\ Len(a \o b) = Len(a) + Len(b)
    BY <1>2, Joined2
  <2> QED
    BY <1>2, <2>1
<1>6. a \o b \o c \in Seq(Byte) /\ Len(a \o b \o c) = 12
  BY <1>2, <1>5, Joined2
<1>7. a \o b \o c \o s \in Seq(Byte) /\ Len(a \o b \o c \o s) = 12 + Len(s)
  BY <1>3, <1>6, Joined2
<1>8. Has(buffer, i, a \o b \o c \o s) /\ Has(buffer, i + (12 + Len(s)), t)
  BY <1>3, <1>4, <1>7, HasConcat
<1>9. Has(buffer, i, a \o b \o c) /\ Has(buffer, i + 12, s)
  BY <1>3, <1>6, <1>8, HasConcat
<1>10. Has(buffer, i, a \o b) /\ Has(buffer, i + 8, c)
  BY <1>2, <1>5, <1>9, HasConcat
<1>11. Has(buffer, i, a) /\ Has(buffer, i + 4, b)
  BY <1>2, <1>10, HasConcat
<1>12. /\ ReadInt32(buffer, i) = f.size /\ ReadInt32(buffer, i + 4) = f.offset
       /\ ReadInt32(buffer, i + 8) = f.count
  BY <1>1, <1>10, <1>11, ReadsWord DEF a, b, c
<1>13. ReadString(buffer, i + 12) = f.name
  BY <1>1, <1>9, ReadsString DEF s
<1>14. i + (12 + Len(s)) = i + 12 + Len(f.name) + 1
  <2> DEFINE n == Len(f.name)
             m == Len(s)
  <2>1. n \in Nat /\ m = n + 1
    BY <1>3
  <2> HIDE DEF n, m
  <2>2. i + (12 + m) = i + 12 + n + 1
    BY <1>4, <2>1
  <2> QED
    BY <2>2 DEF n, m
<1>15. ReadString(buffer, i + 12 + Len(f.name) + 1) = f.type
  BY <1>1, <1>8, <1>14, ReadsString DEF t
<1> DEFINE read == [size  |-> ReadInt32(buffer, i), offset |-> ReadInt32(buffer, i + 4),
                    count |-> ReadInt32(buffer, i + 8), name |-> ReadString(buffer, i + 12),
                    type  |-> ReadString(buffer, i + 12 + Len(f.name) + 1)]
<1>16. read = f
  BY <1>1, <1>12, <1>13, <1>15
<1>17. ReadField(buffer, i, FieldSize(f)) = {g \in {read} : FieldSize(g) = FieldSize(f)}
  BY <1>13 DEF ReadField
<1> HIDE DEF read
<1> QED
  BY <1>16, <1>17

-----------------------------------------------------------------------------
(* A message and an enum.                                                  *)

LEMMA OrderIs ==
  ASSUME NEW S, IsFiniteSet(S)
  PROVE  /\ Cardinality(S) \in Nat
         /\ SetToSeq(S) \in [1..Cardinality(S) -> S]
         /\ \A x \in S : \E k \in 1..Cardinality(S) : SetToSeq(S)[k] = x
<1> DEFINE n == Cardinality(S)
           o == SetToSeq(S)
<1>1. n \in Nat /\ ExistsBijection(1..n, S)
  BY FS_CardinalityType
<1>2. PICK f \in [1..n -> S] : IsInjective(f)
  BY <1>1 DEF ExistsBijection, Bijection, Injection
<1>3. o \in [1..n -> S] /\ IsInjective(o)
  BY <1>2 DEF SetToSeq
<1> HIDE DEF o
<1>4. IsFiniteSet(1..n) /\ Cardinality(1..n) = n
  BY <1>1, FS_Interval
<1>5. o \in Injection(1..n, S)
  BY <1>3 DEF Injection
<1>6. o \in Surjection(1..n, S)
  BY <1>4, <1>5, FS_Injection
<1> QED
  BY <1>1, <1>3, <1>6 DEF Surjection, o

LEMMA NamedIs ==
  ASSUME NEW name \in Name, NEW n \in Nat, NEW bytes \in [1..n -> Seq(Byte)]
  PROVE  /\ Named(name, PartsOf(n, bytes)) \in Seq(Byte)
         /\ Len(Named(name, PartsOf(n, bytes)))
              = 4 + Len(name) + 1 + Total(SizesOf(n, bytes))
         /\ 4 + Len(name) + 1 + Total(SizesOf(n, bytes)) \in Nat
         /\ Len(name) <= 4 + Len(name) + 1 + Total(SizesOf(n, bytes))
         /\ \A k \in 1..n : Len(bytes[k]) <= 4 + Len(name) + 1 + Total(SizesOf(n, bytes))
<1> DEFINE w == WriteInt32(Len(name))
           t == WriteString(name)
           p == FlattenSeq(PartsOf(n, bytes))
           l == Len(name)
           z == Total(SizesOf(n, bytes))
<1>1. l \in Nat /\ t \in Seq(Byte) /\ Len(t) = l + 1
  BY StringIs
<1>2. w \in Seq(Byte) /\ Len(w) = 4
  BY <1>1, WordIs
<1>3. p \in Seq(Byte) /\ Len(p) = z /\ z \in Nat /\ \A k \in 1..n : Len(bytes[k]) <= z
  BY PackedIs
<1>4. Named(name, PartsOf(n, bytes)) = w \o t \o p
  BY DEF Named
<1>5. \A k \in 1..n : Len(bytes[k]) \in Nat
  OBVIOUS
<1> HIDE DEF w, t, p, l, z
<1>6. w \o t \in Seq(Byte) /\ Len(w \o t) = Len(w) + Len(t)
  BY <1>1, <1>2, Joined2
<1>7. w \o t \o p \in Seq(Byte) /\ Len(w \o t \o p) = Len(w \o t) + Len(p)
  BY <1>3, <1>6, Joined2
<1>8. Len(w \o t \o p) = 4 + l + 1 + z
  <2> DEFINE l2 == Len(w \o t)
             l3 == Len(w \o t \o p)
  <2>1. l2 = 4 + (l + 1) /\ l3 = l2 + z
    BY <1>1, <1>2, <1>3, <1>6, <1>7, Zenon
  <2> HIDE DEF l2, l3
  <2>2. l3 = 4 + l + 1 + z
    BY <1>1, <1>3, <2>1
  <2> QED
    BY <2>2 DEF l3
<1>9. 4 + l + 1 + z \in Nat /\ l <= 4 + l + 1 + z /\ z <= 4 + l + 1 + z
  BY <1>1, <1>3
<1>10. ASSUME NEW k \in 1..n PROVE Len(bytes[k]) <= 4 + l + 1 + z
  <2> DEFINE b == Len(bytes[k])
  <2>1. b \in Nat /\ b <= z
    BY <1>3, <1>5
  <2> HIDE DEF b
  <2>2. b <= 4 + l + 1 + z
    BY <1>1, <1>3, <2>1
  <2> QED
    BY <2>2 DEF b
<1> QED
  BY <1>4, <1>7, <1>8, <1>9, <1>10 DEF l, z

LEMMA ReadsNamed ==
  ASSUME NEW name \in Name, NEW n \in Nat, NEW bytes \in [1..n -> Seq(Byte)],
         NEW buffer \in Seq(Byte), NEW i, Has(buffer, i, Named(name, PartsOf(n, bytes))),
         Len(name) \in Word
  PROVE  /\ ReadInt32(buffer, i) = Len(name) /\ ReadString(buffer, i + 4) = name
         /\ \E at : Placed(buffer, n, bytes, i + 4 + Len(name) + 1, at,
                           i + (4 + Len(name) + 1 + Total(SizesOf(n, bytes))))
<1> DEFINE w == WriteInt32(Len(name))
           t == WriteString(name)
           p == FlattenSeq(PartsOf(n, bytes))
           l == Len(name)
           z == Total(SizesOf(n, bytes))
<1>1. l \in Nat /\ t \in Seq(Byte) /\ Len(t) = l + 1
  BY StringIs
<1>2. w \in Seq(Byte) /\ Len(w) = 4
  BY <1>1, WordIs
<1>3. p \in Seq(Byte) /\ z \in Nat
  BY PackedIs
<1>4. Has(buffer, i, w \o t \o p) /\ i \in Nat
  BY DEF Named, Has
<1> HIDE DEF w, t, p, l, z
<1>5. w \o t \in Seq(Byte) /\ Len(w \o t) = 4 + (l + 1)
  <2>1. w \o t \in Seq(Byte) /\ Len(w \o t) = Len(w) + Len(t)
    BY <1>1, <1>2, Joined2
  <2> QED
    BY <1>1, <1>2, <2>1, Zenon
<1>6. Has(buffer, i, w \o t) /\ Has(buffer, i + (4 + (l + 1)), p)
  BY <1>3, <1>4, <1>5, HasConcat
<1>7. Has(buffer, i, w) /\ Has(buffer, i + 4, t)
  BY <1>1, <1>2, <1>6, HasConcat
<1>8. /\ i + (4 + (l + 1)) = i + 4 + l + 1
      /\ (i + 4 + l + 1) + z = i + (4 + l + 1 + z)
  BY <1>1, <1>3, <1>4
<1>9. Has(buffer, i + 4 + l + 1, p)
  BY <1>6, <1>8
<1>10. \E at : Placed(buffer, n, bytes, i + 4 + l + 1, at, (i + 4 + l + 1) + z)
  BY <1>9, PackedAt DEF p, z
<1>11. ReadInt32(buffer, i) = Len(name)
  BY <1>7, ReadsWord DEF w
<1>12. ReadString(buffer, i + 4) = name
  BY <1>7, ReadsString DEF t
<1> QED
  BY <1>8, <1>10, <1>11, <1>12 DEF l, z

MessageMetas == {m \in [name : Name, fields : SUBSET FieldMetas] : IsFiniteSet(m.fields)}
MessageFits(m) == \A f \in m.fields : FieldFits(f)

\* The bytes of the fields in the order they are written.
MessageParts(m) ==
  [k \in 1..Cardinality(m.fields) |-> FieldBytes(SetToSeq(m.fields)[k])]

LEMMA MessageOrder ==
  ASSUME NEW m \in MessageMetas
  PROVE  LET n == Cardinality(m.fields)
             o == SetToSeq(m.fields)
         IN  /\ n \in Nat /\ m.name \in Name
             /\ \A k \in 1..n : o[k] \in m.fields /\ o[k] \in FieldMetas
             /\ \A f \in m.fields : \E k \in 1..n : o[k] = f
             /\ MessageParts(m) \in [1..n -> Seq(Byte)]
             /\ \A k \in 1..n : /\ MessageParts(m)[k] = FieldBytes(o[k])
                                /\ Len(MessageParts(m)[k]) = FieldSize(o[k])
             /\ MessageBytes(m) = Named(m.name, PartsOf(n, MessageParts(m)))
             /\ MessageSize(m) = 4 + Len(m.name) + 1 + Total(SizesOf(n, MessageParts(m)))
<1> DEFINE n     == Cardinality(m.fields)
           o     == SetToSeq(m.fields)
           bytes == MessageParts(m)
<1>1. m.name \in Name /\ m.fields \in SUBSET FieldMetas /\ IsFiniteSet(m.fields)
  BY DEF MessageMetas
<1>2. /\ n \in Nat /\ o \in [1..n -> m.fields]
      /\ \A f \in m.fields : \E k \in 1..n : o[k] = f
  BY <1>1, OrderIs
<1>3. bytes = [k \in 1..n |-> FieldBytes(o[k])]
  BY DEF MessageParts
<1>4. MessageBytes(m) = Named(m.name, [k \in DOMAIN o |-> Part(FieldSize(o[k]), FieldBytes(o[k]))])
  BY DEF MessageBytes, InOrder
<1>5. MessageSize(m) = 4 + Len(m.name) + 1 + Total([k \in DOMAIN o |-> FieldSize(o[k])])
  BY DEF MessageSize, InOrder
<1> HIDE DEF n, o, bytes
<1>6. DOMAIN o = 1..n /\ \A k \in 1..n : o[k] \in m.fields /\ o[k] \in FieldMetas
  BY <1>1, <1>2
<1>7. \A k \in 1..n : /\ bytes[k] = FieldBytes(o[k]) /\ bytes[k] \in Seq(Byte)
                      /\ Len(bytes[k]) = FieldSize(o[k])
  BY <1>3, <1>6, FieldIs
<1>8. bytes \in [1..n -> Seq(Byte)]
  <2> DEFINE E == Seq(Byte)
  <2>1. \A k \in 1..n : bytes[k] \in E
    BY <1>7
  <2>2. bytes = [k \in 1..n |-> bytes[k]]
    BY <1>3
  <2> HIDE DEF E
  <2>3. bytes \in [1..n -> E]
    BY <2>1, <2>2
  <2> QED
    BY <2>3 DEF E
<1>9. [k \in DOMAIN o |-> Part(FieldSize(o[k]), FieldBytes(o[k]))] = PartsOf(n, bytes)
  BY <1>6, <1>7 DEF PartsOf
<1>10. [k \in DOMAIN o |-> FieldSize(o[k])] = SizesOf(n, bytes)
  BY <1>6, <1>7 DEF SizesOf
<1> QED
  BY <1>1, <1>2, <1>4, <1>5, <1>6, <1>7, <1>8, <1>9, <1>10 DEF n, o, bytes

LEMMA MessageIs ==
  ASSUME NEW m \in MessageMetas
  PROVE  /\ MessageBytes(m) \in Seq(Byte) /\ Len(MessageBytes(m)) = MessageSize(m)
         /\ MessageSize(m) \in Nat /\ Len(m.name) <= MessageSize(m)
         /\ \A k \in 1..Cardinality(m.fields) : Len(MessageParts(m)[k]) <= MessageSize(m)
<1> DEFINE n     == Cardinality(m.fields)
           bytes == MessageParts(m)
<1>1. /\ n \in Nat /\ m.name \in Name /\ bytes \in [1..n -> Seq(Byte)]
      /\ MessageBytes(m) = Named(m.name, PartsOf(n, bytes))
      /\ MessageSize(m) = 4 + Len(m.name) + 1 + Total(SizesOf(n, bytes))
  BY MessageOrder
<1> HIDE DEF n, bytes
<1>2. /\ Named(m.name, PartsOf(n, bytes)) \in Seq(Byte)
      /\ Len(Named(m.name, PartsOf(n, bytes))) = 4 + Len(m.name) + 1 + Total(SizesOf(n, bytes))
      /\ 4 + Len(m.name) + 1 + Total(SizesOf(n, bytes)) \in Nat
      /\ Len(m.name) <= 4 + Len(m.name) + 1 + Total(SizesOf(n, bytes))
      /\ \A k \in 1..n : Len(bytes[k]) <= 4 + Len(m.name) + 1 + Total(SizesOf(n, bytes))
  BY <1>1, NamedIs
<1> QED
  BY <1>1, <1>2, Zenon DEF n, bytes

\* What is not larger than a number an int32 holds is one, too.
LEMMA ReadsMessage ==
  ASSUME NEW m \in MessageMetas, MessageSize(m) \in Word, MessageFits(m),
         NEW buffer \in Seq(Byte), NEW i,
         Has(buffer, i, MessageBytes(m))
  PROVE  ReadMessage(buffer, i, MessageSize(m)) = {m}
<1> DEFINE n     == Cardinality(m.fields)
           o     == SetToSeq(m.fields)
           bytes == MessageParts(m)
           size  == MessageSize(m)
           from  == i + 4 + Len(m.name) + 1
           end   == i + size
<1>1. /\ n \in Nat /\ m.name \in Name /\ bytes \in [1..n -> Seq(Byte)]
      /\ \A k \in 1..n : o[k] \in m.fields /\ o[k] \in FieldMetas
      /\ \A f \in m.fields : \E k \in 1..n : o[k] = f
      /\ \A k \in 1..n : bytes[k] = FieldBytes(o[k]) /\ Len(bytes[k]) = FieldSize(o[k])
      /\ MessageBytes(m) = Named(m.name, PartsOf(n, bytes))
      /\ size = 4 + Len(m.name) + 1 + Total(SizesOf(n, bytes))
  BY MessageOrder
<1>2. /\ Len(m.name) \in Word
      /\ \A k \in 1..n : Len(bytes[k]) \in Word
  <2>1. Len(m.name) \in Nat /\ \A k \in 1..n : Len(bytes[k]) \in Nat
    BY <1>1, StringIs
  <2>2. Len(m.name) <= size /\ \A k \in 1..n : Len(bytes[k]) <= size
    BY MessageIs
  <2> HIDE DEF size, n, bytes
  <2>3. size \in Word
    BY DEF size
  <2>4. \A l \in Nat : l <= size => l \in Word
    BY <2>3, SMT DEF Word
  <2> QED
    BY <2>1, <2>2, <2>4
<1>3. m = [name |-> m.name, fields |-> m.fields]
  BY DEF MessageMetas
<1> HIDE DEF n, o, bytes, size
<1>4. /\ ReadInt32(buffer, i) = Len(m.name) /\ ReadString(buffer, i + 4) = m.name
      /\ \E at : Placed(buffer, n, bytes, from, at, end)
  <2>1. Has(buffer, i, Named(m.name, PartsOf(n, bytes)))
    BY <1>1
  <2> HIDE DEF from
  <2>2. /\ ReadInt32(buffer, i) = Len(m.name) /\ ReadString(buffer, i + 4) = m.name
        /\ \E at : Placed(buffer, n, bytes, i + 4 + Len(m.name) + 1, at,
                          i + (4 + Len(m.name) + 1 + Total(SizesOf(n, bytes))))
    BY <1>1, <1>2, <2>1, ReadsNamed
  <2> QED
    BY <1>1, <2>2 DEF from
<1>5. PICK at : Placed(buffer, n, bytes, from, at, end)
  BY <1>4
<1> DEFINE all    == Starts(buffer, from, end)
           starts == {j \in all : j < end}
           read(j) == ReadField(buffer, j + 4, ReadInt32(buffer, j))
           found  == {read(j) : j \in starts}
<1> HIDE DEF from, end
<1>6. /\ starts = {at[k - 1] : k \in 1..n}
      /\ \A k \in 1..n : ReadInt32(buffer, at[k - 1]) = Len(bytes[k])
  <2>1. n \in Nat /\ bytes \in [1..n -> Seq(Byte)] /\ \A k \in 1..n : Len(bytes[k]) \in Word
    BY <1>1, <1>2
  <2>2. Found(buffer, from, end) = Begins(at, n)
    BY <1>5, <2>1, PartsFound
  <2>3. ASSUME NEW k \in 1..n PROVE ReadInt32(buffer, at[k - 1]) = Len(bytes[k])
    <3>1. Has(buffer, at[k - 1], WriteInt32(Len(bytes[k])))
      BY <1>5 DEF Placed
    <3> QED
      BY <2>1, <3>1, ReadsWord
  <2>4. starts = Found(buffer, from, end) /\ Begins(at, n) = {at[k - 1] : k \in 1..n}
    BY DEF Found, Begins
  <2> HIDE DEF starts
  <2> QED
    BY <2>2, <2>3, <2>4
<1>7. \A k \in 1..n : read(at[k - 1]) = {o[k]}
  <2> SUFFICES ASSUME NEW k \in 1..n PROVE read(at[k - 1]) = {o[k]}
    OBVIOUS
  <2>1. Has(buffer, at[k - 1] + 4, FieldBytes(o[k])) /\ o[k] \in FieldMetas /\ FieldFits(o[k])
    BY <1>1, <1>5 DEF Placed, MessageFits
  <2>2. ReadField(buffer, at[k - 1] + 4, FieldSize(o[k])) = {o[k]}
    BY <2>1, ReadsField
  <2> QED
    BY <1>1, <1>6, <2>2
<1> HIDE DEF read, starts, all
<1>8. \A x \in found : \E k \in 1..n : x = {o[k]}
  BY <1>6, <1>7
<1>9. \A k \in 1..n : {o[k]} \in found
  BY <1>6, <1>7
<1> DEFINE none  == {} \notin found
           parts == [next |-> Max(all), parts |-> UNION found, ok |-> none]
           named == {[name |-> m.name, parts |-> r.parts] :
                       r \in {r \in {parts} : r.ok /\ Len(m.name) = ReadInt32(buffer, i)}}
<1>10. ReadNamed(buffer, i, end, LAMBDA j, s : ReadField(buffer, j, s)) = named
  BY <1>4 DEF ReadNamed, Parts, from, read, starts, all
<1> HIDE DEF found
<1>11. UNION found = m.fields /\ none
  <2>1. ASSUME NEW x \in found PROVE x # {} /\ x \subseteq m.fields
    <3>1. PICK k \in 1..n : x = {o[k]}
      BY <1>8
    <3> QED
      BY <1>1, <3>1
  <2>2. \A f \in m.fields : {f} \in found
    BY <1>1, <1>9
  <2> QED
    BY <2>1, <2>2
<1>12. named = {[name |-> m.name, parts |-> m.fields]}
  <2> DEFINE got == UNION found
  <2>1. parts.ok /\ parts.parts = m.fields
    <3> HIDE DEF got, none
    <3>1. parts.ok = none /\ parts.parts = got
      BY DEF got
    <3> QED
      BY <1>11, <3>1 DEF got
  <2>2. Len(m.name) = ReadInt32(buffer, i)
    BY <1>4
  <2> HIDE DEF parts
  <2> QED
    BY <2>1, <2>2
<1>13. ReadMessage(buffer, i, size) =
         {e \in {[name |-> r.name, fields |-> r.parts] : r \in named} : MessageSize(e) = size}
  BY <1>10 DEF ReadMessage, end
<1> HIDE DEF named
<1>14. {[name |-> r.name, fields |-> r.parts] : r \in named} = {m}
  BY <1>3, <1>12
<1> QED
  BY <1>13, <1>14 DEF size

EnumMetas == {m \in [name : Name, values : SUBSET ValueMetas] : IsFiniteSet(m.values)}
EnumFits(m) == \A f \in m.values : ValueFits(f)

\* The bytes of the values in the order they are written.
EnumParts(m) ==
  [k \in 1..Cardinality(m.values) |-> ValueBytes(SetToSeq(m.values)[k])]

LEMMA EnumOrder ==
  ASSUME NEW m \in EnumMetas
  PROVE  LET n == Cardinality(m.values)
             o == SetToSeq(m.values)
         IN  /\ n \in Nat /\ m.name \in Name
             /\ \A k \in 1..n : o[k] \in m.values /\ o[k] \in ValueMetas
             /\ \A f \in m.values : \E k \in 1..n : o[k] = f
             /\ EnumParts(m) \in [1..n -> Seq(Byte)]
             /\ \A k \in 1..n : /\ EnumParts(m)[k] = ValueBytes(o[k])
                                /\ Len(EnumParts(m)[k]) = ValueSize(o[k])
             /\ EnumBytes(m) = Named(m.name, PartsOf(n, EnumParts(m)))
             /\ EnumSize(m) = 4 + Len(m.name) + 1 + Total(SizesOf(n, EnumParts(m)))
<1> DEFINE n     == Cardinality(m.values)
           o     == SetToSeq(m.values)
           bytes == EnumParts(m)
<1>1. m.name \in Name /\ m.values \in SUBSET ValueMetas /\ IsFiniteSet(m.values)
  BY DEF EnumMetas
<1>2. /\ n \in Nat /\ o \in [1..n -> m.values]
      /\ \A f \in m.values : \E k \in 1..n : o[k] = f
  BY <1>1, OrderIs
<1>3. bytes = [k \in 1..n |-> ValueBytes(o[k])]
  BY DEF EnumParts
<1>4. EnumBytes(m) = Named(m.name, [k \in DOMAIN o |-> Part(ValueSize(o[k]), ValueBytes(o[k]))])
  BY DEF EnumBytes, InOrder
<1>5. EnumSize(m) = 4 + Len(m.name) + 1 + Total([k \in DOMAIN o |-> ValueSize(o[k])])
  BY DEF EnumSize, InOrder
<1> HIDE DEF n, o, bytes
<1>6. DOMAIN o = 1..n /\ \A k \in 1..n : o[k] \in m.values /\ o[k] \in ValueMetas
  BY <1>1, <1>2
<1>7. \A k \in 1..n : /\ bytes[k] = ValueBytes(o[k]) /\ bytes[k] \in Seq(Byte)
                      /\ Len(bytes[k]) = ValueSize(o[k])
  BY <1>3, <1>6, ValueIs
<1>8. bytes \in [1..n -> Seq(Byte)]
  <2> DEFINE E == Seq(Byte)
  <2>1. \A k \in 1..n : bytes[k] \in E
    BY <1>7
  <2>2. bytes = [k \in 1..n |-> bytes[k]]
    BY <1>3
  <2> HIDE DEF E
  <2>3. bytes \in [1..n -> E]
    BY <2>1, <2>2
  <2> QED
    BY <2>3 DEF E
<1>9. [k \in DOMAIN o |-> Part(ValueSize(o[k]), ValueBytes(o[k]))] = PartsOf(n, bytes)
  BY <1>6, <1>7 DEF PartsOf
<1>10. [k \in DOMAIN o |-> ValueSize(o[k])] = SizesOf(n, bytes)
  BY <1>6, <1>7 DEF SizesOf
<1> QED
  BY <1>1, <1>2, <1>4, <1>5, <1>6, <1>7, <1>8, <1>9, <1>10 DEF n, o, bytes

LEMMA EnumIs ==
  ASSUME NEW m \in EnumMetas
  PROVE  /\ EnumBytes(m) \in Seq(Byte) /\ Len(EnumBytes(m)) = EnumSize(m)
         /\ EnumSize(m) \in Nat /\ Len(m.name) <= EnumSize(m)
         /\ \A k \in 1..Cardinality(m.values) : Len(EnumParts(m)[k]) <= EnumSize(m)
<1> DEFINE n     == Cardinality(m.values)
           bytes == EnumParts(m)
<1>1. /\ n \in Nat /\ m.name \in Name /\ bytes \in [1..n -> Seq(Byte)]
      /\ EnumBytes(m) = Named(m.name, PartsOf(n, bytes))
      /\ EnumSize(m) = 4 + Len(m.name) + 1 + Total(SizesOf(n, bytes))
  BY EnumOrder
<1> HIDE DEF n, bytes
<1>2. /\ Named(m.name, PartsOf(n, bytes)) \in Seq(Byte)
      /\ Len(Named(m.name, PartsOf(n, bytes))) = 4 + Len(m.name) + 1 + Total(SizesOf(n, bytes))
      /\ 4 + Len(m.name) + 1 + Total(SizesOf(n, bytes)) \in Nat
      /\ Len(m.name) <= 4 + Len(m.name) + 1 + Total(SizesOf(n, bytes))
      /\ \A k \in 1..n : Len(bytes[k]) <= 4 + Len(m.name) + 1 + Total(SizesOf(n, bytes))
  BY <1>1, NamedIs
<1> QED
  BY <1>1, <1>2, Zenon DEF n, bytes

\* What is not larger than a number an int32 holds is one, too.
LEMMA ReadsEnum ==
  ASSUME NEW m \in EnumMetas, EnumSize(m) \in Word, EnumFits(m),
         NEW buffer \in Seq(Byte), NEW i,
         Has(buffer, i, EnumBytes(m))
  PROVE  ReadEnum(buffer, i, EnumSize(m)) = {m}
<1> DEFINE n     == Cardinality(m.values)
           o     == SetToSeq(m.values)
           bytes == EnumParts(m)
           size  == EnumSize(m)
           from  == i + 4 + Len(m.name) + 1
           end   == i + size
<1>1. /\ n \in Nat /\ m.name \in Name /\ bytes \in [1..n -> Seq(Byte)]
      /\ \A k \in 1..n : o[k] \in m.values /\ o[k] \in ValueMetas
      /\ \A f \in m.values : \E k \in 1..n : o[k] = f
      /\ \A k \in 1..n : bytes[k] = ValueBytes(o[k]) /\ Len(bytes[k]) = ValueSize(o[k])
      /\ EnumBytes(m) = Named(m.name, PartsOf(n, bytes))
      /\ size = 4 + Len(m.name) + 1 + Total(SizesOf(n, bytes))
  BY EnumOrder
<1>2. /\ Len(m.name) \in Word
      /\ \A k \in 1..n : Len(bytes[k]) \in Word
  <2>1. Len(m.name) \in Nat /\ \A k \in 1..n : Len(bytes[k]) \in Nat
    BY <1>1, StringIs
  <2>2. Len(m.name) <= size /\ \A k \in 1..n : Len(bytes[k]) <= size
    BY EnumIs
  <2> HIDE DEF size, n, bytes
  <2>3. size \in Word
    BY DEF size
  <2>4. \A l \in Nat : l <= size => l \in Word
    BY <2>3, SMT DEF Word
  <2> QED
    BY <2>1, <2>2, <2>4
<1>3. m = [name |-> m.name, values |-> m.values]
  BY DEF EnumMetas
<1> HIDE DEF n, o, bytes, size
<1>4. /\ ReadInt32(buffer, i) = Len(m.name) /\ ReadString(buffer, i + 4) = m.name
      /\ \E at : Placed(buffer, n, bytes, from, at, end)
  <2>1. Has(buffer, i, Named(m.name, PartsOf(n, bytes)))
    BY <1>1
  <2> HIDE DEF from
  <2>2. /\ ReadInt32(buffer, i) = Len(m.name) /\ ReadString(buffer, i + 4) = m.name
        /\ \E at : Placed(buffer, n, bytes, i + 4 + Len(m.name) + 1, at,
                          i + (4 + Len(m.name) + 1 + Total(SizesOf(n, bytes))))
    BY <1>1, <1>2, <2>1, ReadsNamed
  <2> QED
    BY <1>1, <2>2 DEF from
<1>5. PICK at : Placed(buffer, n, bytes, from, at, end)
  BY <1>4
<1> DEFINE all    == Starts(buffer, from, end)
           starts == {j \in all : j < end}
           read(j) == ReadValue(buffer, j + 4, ReadInt32(buffer, j))
           found  == {read(j) : j \in starts}
<1> HIDE DEF from, end
<1>6. /\ starts = {at[k - 1] : k \in 1..n}
      /\ \A k \in 1..n : ReadInt32(buffer, at[k - 1]) = Len(bytes[k])
  <2>1. n \in Nat /\ bytes \in [1..n -> Seq(Byte)] /\ \A k \in 1..n : Len(bytes[k]) \in Word
    BY <1>1, <1>2
  <2>2. Found(buffer, from, end) = Begins(at, n)
    BY <1>5, <2>1, PartsFound
  <2>3. ASSUME NEW k \in 1..n PROVE ReadInt32(buffer, at[k - 1]) = Len(bytes[k])
    <3>1. Has(buffer, at[k - 1], WriteInt32(Len(bytes[k])))
      BY <1>5 DEF Placed
    <3> QED
      BY <2>1, <3>1, ReadsWord
  <2>4. starts = Found(buffer, from, end) /\ Begins(at, n) = {at[k - 1] : k \in 1..n}
    BY DEF Found, Begins
  <2> HIDE DEF starts
  <2> QED
    BY <2>2, <2>3, <2>4
<1>7. \A k \in 1..n : read(at[k - 1]) = {o[k]}
  <2> SUFFICES ASSUME NEW k \in 1..n PROVE read(at[k - 1]) = {o[k]}
    OBVIOUS
  <2>1. Has(buffer, at[k - 1] + 4, ValueBytes(o[k])) /\ o[k] \in ValueMetas /\ ValueFits(o[k])
    BY <1>1, <1>5 DEF Placed, EnumFits
  <2>2. ReadValue(buffer, at[k - 1] + 4, ValueSize(o[k])) = {o[k]}
    BY <2>1, ReadsValue
  <2> QED
    BY <1>1, <1>6, <2>2
<1> HIDE DEF read, starts, all
<1>8. \A x \in found : \E k \in 1..n : x = {o[k]}
  BY <1>6, <1>7
<1>9. \A k \in 1..n : {o[k]} \in found
  BY <1>6, <1>7
<1> DEFINE none  == {} \notin found
           parts == [next |-> Max(all), parts |-> UNION found, ok |-> none]
           named == {[name |-> m.name, parts |-> r.parts] :
                       r \in {r \in {parts} : r.ok /\ Len(m.name) = ReadInt32(buffer, i)}}
<1>10. ReadNamed(buffer, i, end, LAMBDA j, s : ReadValue(buffer, j, s)) = named
  BY <1>4 DEF ReadNamed, Parts, from, read, starts, all
<1> HIDE DEF found
<1>11. UNION found = m.values /\ none
  <2>1. ASSUME NEW x \in found PROVE x # {} /\ x \subseteq m.values
    <3>1. PICK k \in 1..n : x = {o[k]}
      BY <1>8
    <3> QED
      BY <1>1, <3>1
  <2>2. \A f \in m.values : {f} \in found
    BY <1>1, <1>9
  <2> QED
    BY <2>1, <2>2
<1>12. named = {[name |-> m.name, parts |-> m.values]}
  <2> DEFINE got == UNION found
  <2>1. parts.ok /\ parts.parts = m.values
    <3> HIDE DEF got, none
    <3>1. parts.ok = none /\ parts.parts = got
      BY DEF got
    <3> QED
      BY <1>11, <3>1 DEF got
  <2>2. Len(m.name) = ReadInt32(buffer, i)
    BY <1>4
  <2> HIDE DEF parts
  <2> QED
    BY <2>1, <2>2
<1>13. ReadEnum(buffer, i, size) =
         {e \in {[name |-> r.name, values |-> r.parts] : r \in named} : EnumSize(e) = size}
  BY <1>10 DEF ReadEnum, end
<1> HIDE DEF named
<1>14. {[name |-> r.name, values |-> r.parts] : r \in named} = {m}
  BY <1>3, <1>12
<1> QED
  BY <1>13, <1>14 DEF size

\* The bytes of these, in the order they are written, and what they take.
MessageList(S)  == [k \in 1..Cardinality(S) |-> MessageBytes(SetToSeq(S)[k])]
MessageTotal(S) == Total(InOrder(S, MessageSize))
MessageGroup(S) ==
  FlattenSeq(InOrder(S, LAMBDA m : Part(MessageSize(m), MessageBytes(m))))

LEMMA MessageListIs ==
  ASSUME NEW S \in SUBSET MessageMetas, IsFiniteSet(S)
  PROVE  LET n == Cardinality(S)
             o == SetToSeq(S)
         IN  /\ n \in Nat
             /\ \A k \in 1..n : o[k] \in S /\ o[k] \in MessageMetas
             /\ \A m \in S : \E k \in 1..n : o[k] = m
             /\ MessageList(S) \in [1..n -> Seq(Byte)]
             /\ \A k \in 1..n : /\ MessageList(S)[k] = MessageBytes(o[k])
                                /\ Len(MessageList(S)[k]) = MessageSize(o[k])
             /\ MessageTotal(S) = Total(SizesOf(n, MessageList(S)))
             /\ MessageGroup(S) = FlattenSeq(PartsOf(n, MessageList(S)))
<1> DEFINE n     == Cardinality(S)
           o     == SetToSeq(S)
           bytes == MessageList(S)
<1>1. /\ n \in Nat /\ o \in [1..n -> S]
      /\ \A m \in S : \E k \in 1..n : o[k] = m
  BY OrderIs
<1>2. bytes = [k \in 1..n |-> MessageBytes(o[k])]
  BY DEF MessageList
<1>3. MessageGroup(S) = FlattenSeq([k \in DOMAIN o |-> Part(MessageSize(o[k]), MessageBytes(o[k]))])
  BY DEF MessageGroup, InOrder
<1>4. MessageTotal(S) = Total([k \in DOMAIN o |-> MessageSize(o[k])])
  BY DEF MessageTotal, InOrder
<1> HIDE DEF n, o, bytes
<1>5. DOMAIN o = 1..n /\ \A k \in 1..n : o[k] \in S /\ o[k] \in MessageMetas
  BY <1>1
<1>6. \A k \in 1..n : /\ bytes[k] = MessageBytes(o[k]) /\ bytes[k] \in Seq(Byte)
                      /\ Len(bytes[k]) = MessageSize(o[k])
  BY <1>2, <1>5, MessageIs
<1>7. bytes \in [1..n -> Seq(Byte)]
  <2> DEFINE E == Seq(Byte)
  <2>1. \A k \in 1..n : bytes[k] \in E
    BY <1>6
  <2>2. bytes = [k \in 1..n |-> bytes[k]]
    BY <1>2
  <2> HIDE DEF E
  <2>3. bytes \in [1..n -> E]
    BY <2>1, <2>2
  <2> QED
    BY <2>3 DEF E
<1>8. [k \in DOMAIN o |-> Part(MessageSize(o[k]), MessageBytes(o[k]))] = PartsOf(n, bytes)
  BY <1>5, <1>6 DEF PartsOf
<1>9. [k \in DOMAIN o |-> MessageSize(o[k])] = SizesOf(n, bytes)
  BY <1>5, <1>6 DEF SizesOf
<1> QED
  BY <1>1, <1>3, <1>4, <1>5, <1>6, <1>7, <1>8, <1>9 DEF n, o, bytes

LEMMA MessageGroupIs ==
  ASSUME NEW S \in SUBSET MessageMetas, IsFiniteSet(S)
  PROVE  /\ MessageGroup(S) \in Seq(Byte) /\ Len(MessageGroup(S)) = MessageTotal(S)
         /\ MessageTotal(S) \in Nat
<1> DEFINE n     == Cardinality(S)
           bytes == MessageList(S)
<1>1. /\ n \in Nat /\ bytes \in [1..n -> Seq(Byte)]
      /\ MessageTotal(S) = Total(SizesOf(n, bytes))
      /\ MessageGroup(S) = FlattenSeq(PartsOf(n, bytes))
  BY MessageListIs
<1> HIDE DEF n, bytes
<1>2. /\ FlattenSeq(PartsOf(n, bytes)) \in Seq(Byte)
      /\ Len(FlattenSeq(PartsOf(n, bytes))) = Total(SizesOf(n, bytes))
      /\ Total(SizesOf(n, bytes)) \in Nat
  BY <1>1, PackedIs
<1> QED
  BY <1>1, <1>2

LEMMA ReadsMessageGroup ==
  ASSUME NEW S \in SUBSET MessageMetas, IsFiniteSet(S), MessageTotal(S) \in Word,
         \A m \in S : MessageFits(m),
         NEW buffer \in Seq(Byte), NEW i, i \in Nat,
         Has(buffer, i, WriteInt32(MessageTotal(S))), Has(buffer, i + 4, MessageGroup(S))
  PROVE  ReadParts(buffer, i, LAMBDA j, s : ReadMessage(buffer, j, s)) =
           {[next |-> i + 4 + MessageTotal(S), parts |-> S, ok |-> TRUE]}
<1> DEFINE n     == Cardinality(S)
           o     == SetToSeq(S)
           bytes == MessageList(S)
           total == MessageTotal(S)
           from  == i + 4
           end   == from + total
<1>1. /\ n \in Nat /\ bytes \in [1..n -> Seq(Byte)]
      /\ \A k \in 1..n : o[k] \in S /\ o[k] \in MessageMetas
      /\ \A m \in S : \E k \in 1..n : o[k] = m
      /\ \A k \in 1..n : bytes[k] = MessageBytes(o[k]) /\ Len(bytes[k]) = MessageSize(o[k])
      /\ total = Total(SizesOf(n, bytes))
      /\ MessageGroup(S) = FlattenSeq(PartsOf(n, bytes))
  BY MessageListIs
<1>2. ReadInt32(buffer, i) = total
  BY ReadsWord
<1>3. Has(buffer, from, FlattenSeq(PartsOf(n, bytes)))
  BY <1>1
<1> HIDE DEF n, o, bytes
<1>4. \A k \in 1..n : Len(bytes[k]) \in Word
  <2>1. \A k \in 1..n : Len(bytes[k]) \in Nat
    BY <1>1
  <2>2. \A k \in 1..n : Len(bytes[k]) <= total
    BY <1>1, PackedIs
  <2>3. total \in Word
    OBVIOUS
  <2> HIDE DEF total
  <2>4. \A l \in Nat : l <= total => l \in Word
    BY <2>3, SMT DEF Word
  <2> QED
    BY <2>1, <2>2, <2>4
<1> HIDE DEF total, from
<1>5. \E at : Placed(buffer, n, bytes, from, at, end)
  <2>1. \E at : Placed(buffer, n, bytes, from, at, from + Total(SizesOf(n, bytes)))
    BY <1>1, <1>3, PackedAt
  <2> QED
    BY <1>1, <2>1
<1> HIDE DEF end
<1>6. PICK at : Placed(buffer, n, bytes, from, at, end)
  BY <1>5
<1> DEFINE all    == Starts(buffer, from, end)
           starts == {j \in all : j < end}
           read(j) == ReadMessage(buffer, j + 4, ReadInt32(buffer, j))
           found  == {read(j) : j \in starts}
<1>7. ASSUME NEW k \in 1..n PROVE ReadInt32(buffer, at[k - 1]) = Len(bytes[k])
  <2>1. Has(buffer, at[k - 1], WriteInt32(Len(bytes[k])))
    BY <1>6 DEF Placed
  <2> QED
    BY <1>4, <2>1, ReadsWord
<1>8. starts = {at[k - 1] : k \in 1..n}
  <2>1. Found(buffer, from, end) = Begins(at, n)
    BY <1>1, <1>4, <1>6, PartsFound
  <2>2. starts = Found(buffer, from, end) /\ Begins(at, n) = {at[k - 1] : k \in 1..n}
    BY DEF Found, Begins
  <2> HIDE DEF starts
  <2> QED
    BY <2>1, <2>2
<1>9. Max(all) = end
  BY <1>1, <1>4, <1>6, PartsFound
<1>10. \A k \in 1..n : read(at[k - 1]) = {o[k]}
  <2> SUFFICES ASSUME NEW k \in 1..n PROVE read(at[k - 1]) = {o[k]}
    OBVIOUS
  <2>1. Has(buffer, at[k - 1] + 4, MessageBytes(o[k])) /\ o[k] \in MessageMetas /\ MessageFits(o[k])
    BY <1>1, <1>6 DEF Placed
  <2>2. MessageSize(o[k]) \in Word
    BY <1>1, <1>4
  <2>3. ReadMessage(buffer, at[k - 1] + 4, MessageSize(o[k])) = {o[k]}
    BY <2>1, <2>2, ReadsMessage
  <2> QED
    BY <1>1, <1>7, <2>3
<1> HIDE DEF read, starts, all
<1>11. \A x \in found : \E k \in 1..n : x = {o[k]}
  BY <1>8, <1>10
<1>12. \A k \in 1..n : {o[k]} \in found
  BY <1>8, <1>10
<1> DEFINE none  == {} \notin found
           parts == [next |-> Max(all), parts |-> UNION found, ok |-> none]
<1>13. ReadParts(buffer, i, LAMBDA j, s : ReadMessage(buffer, j, s)) =
         {r \in {parts} : r.ok /\ r.next = end}
  BY <1>2 DEF ReadParts, Parts, from, end, read, starts, all, total
<1> HIDE DEF found
<1>14. UNION found = S /\ none
  <2>1. ASSUME NEW x \in found PROVE x # {} /\ x \subseteq S
    <3>1. PICK k \in 1..n : x = {o[k]}
      BY <1>11
    <3> QED
      BY <1>1, <3>1
  <2>2. \A m \in S : {m} \in found
    BY <1>1, <1>12
  <2> QED
    BY <2>1, <2>2
<1>15. parts = [next |-> end, parts |-> S, ok |-> TRUE]
  <2> HIDE DEF none
  <2>1. none = TRUE
    BY <1>14 DEF none
  <2> QED
    BY <1>9, <1>14, <2>1
<1> HIDE DEF parts
<1>16. {r \in {parts} : r.ok /\ r.next = end} = {parts}
  BY <1>15
<1> QED
  BY <1>13, <1>15, <1>16 DEF end, from, total

\* The bytes of these, in the order they are written, and what they take.
EnumList(S)  == [k \in 1..Cardinality(S) |-> EnumBytes(SetToSeq(S)[k])]
EnumTotal(S) == Total(InOrder(S, EnumSize))
EnumGroup(S) ==
  FlattenSeq(InOrder(S, LAMBDA m : Part(EnumSize(m), EnumBytes(m))))

LEMMA EnumListIs ==
  ASSUME NEW S \in SUBSET EnumMetas, IsFiniteSet(S)
  PROVE  LET n == Cardinality(S)
             o == SetToSeq(S)
         IN  /\ n \in Nat
             /\ \A k \in 1..n : o[k] \in S /\ o[k] \in EnumMetas
             /\ \A m \in S : \E k \in 1..n : o[k] = m
             /\ EnumList(S) \in [1..n -> Seq(Byte)]
             /\ \A k \in 1..n : /\ EnumList(S)[k] = EnumBytes(o[k])
                                /\ Len(EnumList(S)[k]) = EnumSize(o[k])
             /\ EnumTotal(S) = Total(SizesOf(n, EnumList(S)))
             /\ EnumGroup(S) = FlattenSeq(PartsOf(n, EnumList(S)))
<1> DEFINE n     == Cardinality(S)
           o     == SetToSeq(S)
           bytes == EnumList(S)
<1>1. /\ n \in Nat /\ o \in [1..n -> S]
      /\ \A m \in S : \E k \in 1..n : o[k] = m
  BY OrderIs
<1>2. bytes = [k \in 1..n |-> EnumBytes(o[k])]
  BY DEF EnumList
<1>3. EnumGroup(S) = FlattenSeq([k \in DOMAIN o |-> Part(EnumSize(o[k]), EnumBytes(o[k]))])
  BY DEF EnumGroup, InOrder
<1>4. EnumTotal(S) = Total([k \in DOMAIN o |-> EnumSize(o[k])])
  BY DEF EnumTotal, InOrder
<1> HIDE DEF n, o, bytes
<1>5. DOMAIN o = 1..n /\ \A k \in 1..n : o[k] \in S /\ o[k] \in EnumMetas
  BY <1>1
<1>6. \A k \in 1..n : /\ bytes[k] = EnumBytes(o[k]) /\ bytes[k] \in Seq(Byte)
                      /\ Len(bytes[k]) = EnumSize(o[k])
  BY <1>2, <1>5, EnumIs
<1>7. bytes \in [1..n -> Seq(Byte)]
  <2> DEFINE E == Seq(Byte)
  <2>1. \A k \in 1..n : bytes[k] \in E
    BY <1>6
  <2>2. bytes = [k \in 1..n |-> bytes[k]]
    BY <1>2
  <2> HIDE DEF E
  <2>3. bytes \in [1..n -> E]
    BY <2>1, <2>2
  <2> QED
    BY <2>3 DEF E
<1>8. [k \in DOMAIN o |-> Part(EnumSize(o[k]), EnumBytes(o[k]))] = PartsOf(n, bytes)
  BY <1>5, <1>6 DEF PartsOf
<1>9. [k \in DOMAIN o |-> EnumSize(o[k])] = SizesOf(n, bytes)
  BY <1>5, <1>6 DEF SizesOf
<1> QED
  BY <1>1, <1>3, <1>4, <1>5, <1>6, <1>7, <1>8, <1>9 DEF n, o, bytes

LEMMA EnumGroupIs ==
  ASSUME NEW S \in SUBSET EnumMetas, IsFiniteSet(S)
  PROVE  /\ EnumGroup(S) \in Seq(Byte) /\ Len(EnumGroup(S)) = EnumTotal(S)
         /\ EnumTotal(S) \in Nat
<1> DEFINE n     == Cardinality(S)
           bytes == EnumList(S)
<1>1. /\ n \in Nat /\ bytes \in [1..n -> Seq(Byte)]
      /\ EnumTotal(S) = Total(SizesOf(n, bytes))
      /\ EnumGroup(S) = FlattenSeq(PartsOf(n, bytes))
  BY EnumListIs
<1> HIDE DEF n, bytes
<1>2. /\ FlattenSeq(PartsOf(n, bytes)) \in Seq(Byte)
      /\ Len(FlattenSeq(PartsOf(n, bytes))) = Total(SizesOf(n, bytes))
      /\ Total(SizesOf(n, bytes)) \in Nat
  BY <1>1, PackedIs
<1> QED
  BY <1>1, <1>2

LEMMA ReadsEnumGroup ==
  ASSUME NEW S \in SUBSET EnumMetas, IsFiniteSet(S), EnumTotal(S) \in Word,
         \A m \in S : EnumFits(m),
         NEW buffer \in Seq(Byte), NEW i, i \in Nat,
         Has(buffer, i, WriteInt32(EnumTotal(S))), Has(buffer, i + 4, EnumGroup(S))
  PROVE  ReadParts(buffer, i, LAMBDA j, s : ReadEnum(buffer, j, s)) =
           {[next |-> i + 4 + EnumTotal(S), parts |-> S, ok |-> TRUE]}
<1> DEFINE n     == Cardinality(S)
           o     == SetToSeq(S)
           bytes == EnumList(S)
           total == EnumTotal(S)
           from  == i + 4
           end   == from + total
<1>1. /\ n \in Nat /\ bytes \in [1..n -> Seq(Byte)]
      /\ \A k \in 1..n : o[k] \in S /\ o[k] \in EnumMetas
      /\ \A m \in S : \E k \in 1..n : o[k] = m
      /\ \A k \in 1..n : bytes[k] = EnumBytes(o[k]) /\ Len(bytes[k]) = EnumSize(o[k])
      /\ total = Total(SizesOf(n, bytes))
      /\ EnumGroup(S) = FlattenSeq(PartsOf(n, bytes))
  BY EnumListIs
<1>2. ReadInt32(buffer, i) = total
  BY ReadsWord
<1>3. Has(buffer, from, FlattenSeq(PartsOf(n, bytes)))
  BY <1>1
<1> HIDE DEF n, o, bytes
<1>4. \A k \in 1..n : Len(bytes[k]) \in Word
  <2>1. \A k \in 1..n : Len(bytes[k]) \in Nat
    BY <1>1
  <2>2. \A k \in 1..n : Len(bytes[k]) <= total
    BY <1>1, PackedIs
  <2>3. total \in Word
    OBVIOUS
  <2> HIDE DEF total
  <2>4. \A l \in Nat : l <= total => l \in Word
    BY <2>3, SMT DEF Word
  <2> QED
    BY <2>1, <2>2, <2>4
<1> HIDE DEF total, from
<1>5. \E at : Placed(buffer, n, bytes, from, at, end)
  <2>1. \E at : Placed(buffer, n, bytes, from, at, from + Total(SizesOf(n, bytes)))
    BY <1>1, <1>3, PackedAt
  <2> QED
    BY <1>1, <2>1
<1> HIDE DEF end
<1>6. PICK at : Placed(buffer, n, bytes, from, at, end)
  BY <1>5
<1> DEFINE all    == Starts(buffer, from, end)
           starts == {j \in all : j < end}
           read(j) == ReadEnum(buffer, j + 4, ReadInt32(buffer, j))
           found  == {read(j) : j \in starts}
<1>7. ASSUME NEW k \in 1..n PROVE ReadInt32(buffer, at[k - 1]) = Len(bytes[k])
  <2>1. Has(buffer, at[k - 1], WriteInt32(Len(bytes[k])))
    BY <1>6 DEF Placed
  <2> QED
    BY <1>4, <2>1, ReadsWord
<1>8. starts = {at[k - 1] : k \in 1..n}
  <2>1. Found(buffer, from, end) = Begins(at, n)
    BY <1>1, <1>4, <1>6, PartsFound
  <2>2. starts = Found(buffer, from, end) /\ Begins(at, n) = {at[k - 1] : k \in 1..n}
    BY DEF Found, Begins
  <2> HIDE DEF starts
  <2> QED
    BY <2>1, <2>2
<1>9. Max(all) = end
  BY <1>1, <1>4, <1>6, PartsFound
<1>10. \A k \in 1..n : read(at[k - 1]) = {o[k]}
  <2> SUFFICES ASSUME NEW k \in 1..n PROVE read(at[k - 1]) = {o[k]}
    OBVIOUS
  <2>1. Has(buffer, at[k - 1] + 4, EnumBytes(o[k])) /\ o[k] \in EnumMetas /\ EnumFits(o[k])
    BY <1>1, <1>6 DEF Placed
  <2>2. EnumSize(o[k]) \in Word
    BY <1>1, <1>4
  <2>3. ReadEnum(buffer, at[k - 1] + 4, EnumSize(o[k])) = {o[k]}
    BY <2>1, <2>2, ReadsEnum
  <2> QED
    BY <1>1, <1>7, <2>3
<1> HIDE DEF read, starts, all
<1>11. \A x \in found : \E k \in 1..n : x = {o[k]}
  BY <1>8, <1>10
<1>12. \A k \in 1..n : {o[k]} \in found
  BY <1>8, <1>10
<1> DEFINE none  == {} \notin found
           parts == [next |-> Max(all), parts |-> UNION found, ok |-> none]
<1>13. ReadParts(buffer, i, LAMBDA j, s : ReadEnum(buffer, j, s)) =
         {r \in {parts} : r.ok /\ r.next = end}
  BY <1>2 DEF ReadParts, Parts, from, end, read, starts, all, total
<1> HIDE DEF found
<1>14. UNION found = S /\ none
  <2>1. ASSUME NEW x \in found PROVE x # {} /\ x \subseteq S
    <3>1. PICK k \in 1..n : x = {o[k]}
      BY <1>11
    <3> QED
      BY <1>1, <3>1
  <2>2. \A m \in S : {m} \in found
    BY <1>1, <1>12
  <2> QED
    BY <2>1, <2>2
<1>15. parts = [next |-> end, parts |-> S, ok |-> TRUE]
  <2> HIDE DEF none
  <2>1. none = TRUE
    BY <1>14 DEF none
  <2> QED
    BY <1>9, <1>14, <2>1
<1> HIDE DEF parts
<1>16. {r \in {parts} : r.ok /\ r.next = end} = {parts}
  BY <1>15
<1> QED
  BY <1>13, <1>15, <1>16 DEF end, from, total

-----------------------------------------------------------------------------
(* A file.                                                                 *)

FileMetas == {f \in [name : Name, messages : SUBSET MessageMetas, enums : SUBSET EnumMetas] :
                IsFiniteSet(f.messages) /\ IsFiniteSet(f.enums)}

\* An int32 holds every number in it and what it takes itself.
FileFits(file) ==
  /\ FileSize(file) \in Word
  /\ \A m \in file.messages : MessageFits(m)
  /\ \A e \in file.enums : EnumFits(e)

\* The size of a file in front of its name.
NameAndSize(file) ==
  WriteInt32(FileSize(file)) \o (WriteInt32(Len(file.name)) \o WriteString(file.name))

LEMMA FileParts ==
  ASSUME NEW file \in FileMetas
  PROVE  /\ FileSize(file) = MessageTotal(file.messages) + EnumTotal(file.enums)
                               + Len(file.name) + 1 + 16
         /\ FileBytes(file) =
              NameAndSize(file)
                \o WriteInt32(MessageTotal(file.messages)) \o MessageGroup(file.messages)
                \o WriteInt32(EnumTotal(file.enums)) \o EnumGroup(file.enums)
<1> DEFINE w == WriteInt32(Len(file.name))
           t == WriteString(file.name)
<1>1. FlattenSeq(<<>>) = <<>>
  BY DEF FlattenSeq
<1>2. file.name \in Name
  BY DEF FileMetas
<1>3. Len(file.name) \in Nat /\ t \in Seq(Byte)
  BY <1>2, StringIs
<1>4. w \in Seq(Byte)
  BY <1>3, WordIs
<1>5. Named(file.name, <<>>) = w \o t \o <<>>
  BY <1>1 DEF Named
<1> HIDE DEF w, t
<1>6. w \o t \in Seq(Byte)
  BY <1>3, <1>4, Joined2
<1>7. w \o t \o <<>> = w \o t
  BY <1>6, ConcatEmptySeq, Zenon
<1>8. Named(file.name, <<>>) = w \o t
  BY <1>5, <1>7, Zenon
<1> QED
  BY <1>8, Zenon
  DEF FileSize, FileBytes, MessageTotal, EnumTotal, MessageGroup, EnumGroup, NameAndSize, w, t

LEMMA LeastIs ==
  ASSUME NEW S \in SUBSET (Nat \ {0}), S # {}
  PROVE  \E i \in S : \A j \in S : i <= j
<1> SUFFICES ASSUME \A i \in S : \E j \in S : j < i PROVE FALSE
  OBVIOUS
<1> DEFINE T == {k \in Nat : \A j \in S : k < j}
<1>1. 0 \in T
  OBVIOUS
<1>2. ASSUME NEW k \in T PROVE k + 1 \in T
  <2>1. k \in Nat /\ \A j \in S : k + 1 <= j
    OBVIOUS
  <2>2. k + 1 \notin S
    BY <2>1
  <2> QED
    BY <2>1, <2>2
<1>3. T \in SUBSET Nat
  OBVIOUS
<1>4. \A j \in S : j \in Nat /\ j \notin T
  OBVIOUS
<1> HIDE DEF T
<1>5. \A k \in Nat : k \in T
  BY <1>1, <1>2, <1>3, NatSet
<1> QED
  BY <1>4, <1>5

\* f is a function on S, and what it has there.
IsOn(f, S)   == f = [x \in S |-> f[x]]
Values(f, S) == {f[x] : x \in S}

LEMMA FiniteImage ==
  ASSUME NEW S, IsFiniteSet(S), NEW f, IsOn(f, S)
  PROVE  IsFiniteSet(Values(f, S))
<1> DEFINE T == Values(f, S)
<1>1. f \in Surjection(S, T)
  BY DEF Surjection, IsOn, Values
<1> HIDE DEF T
<1>2. IsFiniteSet(T)
  BY <1>1, FS_Surjection
<1> QED
  BY <1>2 DEF T

\* The meta data of any file are written in as many bytes as they say, and come
\* back from them, if all of them together take no more than an int32 can say.
THEOREM WrittenIsRead ==
  ASSUME NEW file \in FileMetas, FileFits(file)
  PROVE  ReadFile(FileBytes(file)) = {file} /\ Len(FileBytes(file)) = FileSize(file)
<1> DEFINE buffer == FileBytes(file)
           ms == file.messages
           es == file.enums
           l  == Len(file.name)
           m  == MessageTotal(ms)
           e  == EnumTotal(es)
           a  == WriteInt32(FileSize(file))
           w  == WriteInt32(l)
           t  == WriteString(file.name)
           h  == NameAndSize(file)
           wm == WriteInt32(m)
           gm == MessageGroup(ms)
           we == WriteInt32(e)
           ge == EnumGroup(es)
<1>1. /\ file.name \in Name
      /\ ms \in SUBSET MessageMetas /\ IsFiniteSet(ms)
      /\ es \in SUBSET EnumMetas /\ IsFiniteSet(es)
      /\ file = [name |-> file.name, messages |-> ms, enums |-> es]
  BY DEF FileMetas
<1>2. l \in Nat /\ t \in Seq(Byte) /\ Len(t) = l + 1
  BY <1>1, StringIs
<1>3. gm \in Seq(Byte) /\ Len(gm) = m /\ m \in Nat
  BY <1>1, MessageGroupIs
<1>4. ge \in Seq(Byte) /\ Len(ge) = e /\ e \in Nat
  BY <1>1, EnumGroupIs
<1>5. /\ a \in Seq(Byte) /\ Len(a) = 4 /\ w \in Seq(Byte) /\ Len(w) = 4
      /\ wm \in Seq(Byte) /\ Len(wm) = 4 /\ we \in Seq(Byte) /\ Len(we) = 4
  <2>1. FileSize(file) \in Nat
    BY <1>2, <1>3, <1>4, FileParts DEF l, m, e
  <2> QED
    BY <1>2, <1>3, <1>4, <2>1, WordIs
<1>6. FileSize(file) = m + e + l + 1 + 16
  BY FileParts
<1>7. buffer = h \o wm \o gm \o we \o ge /\ h = a \o (w \o t)
  BY FileParts DEF NameAndSize
<1> HIDE DEF buffer, l, m, e, a, w, t, h, wm, gm, we, ge
<1>8. w \o t \in Seq(Byte) /\ Len(w \o t) = l + 5
  <2>1. w \o t \in Seq(Byte) /\ Len(w \o t) = Len(w) + Len(t)
    BY <1>2, <1>5, Joined2
  <2>2. Len(w) + Len(t) = l + 5
    BY <1>2, <1>5
  <2> QED
    BY <2>1, <2>2, Zenon
<1>9. h \in Seq(Byte) /\ Len(h) = l + 9
  <2>1. a \o (w \o t) \in Seq(Byte) /\ Len(a \o (w \o t)) = Len(a) + Len(w \o t)
    BY <1>5, <1>8, Joined2
  <2>2. Len(a) + Len(w \o t) = 4 + (l + 5)
    BY <1>5, <1>8, Zenon
  <2>3. 4 + (l + 5) = l + 9
    BY <1>2
  <2> QED
    BY <1>7, <2>1, <2>2, <2>3, Zenon
<1>10. h \o wm \in Seq(Byte) /\ Len(h \o wm) = l + 13
  <2>1. h \o wm \in Seq(Byte) /\ Len(h \o wm) = Len(h) + Len(wm)
    BY <1>5, <1>9, Joined2
  <2>2. Len(h) + Len(wm) = l + 13
    BY <1>2, <1>5, <1>9
  <2> QED
    BY <2>1, <2>2, Zenon
<1>11. h \o wm \o gm \in Seq(Byte) /\ Len(h \o wm \o gm) = l + 13 + m
  <2>1. h \o wm \o gm \in Seq(Byte) /\ Len(h \o wm \o gm) = Len(h \o wm) + Len(gm)
    BY <1>3, <1>10, Joined2
  <2> QED
    BY <1>3, <1>10, <2>1, Zenon
<1>12. h \o wm \o gm \o we \in Seq(Byte) /\ Len(h \o wm \o gm \o we) = l + 13 + m + 4
  <2>1. /\ h \o wm \o gm \o we \in Seq(Byte)
        /\ Len(h \o wm \o gm \o we) = Len(h \o wm \o gm) + Len(we)
    BY <1>5, <1>11, Joined2
  <2> QED
    BY <1>5, <1>11, <2>1, Zenon
<1>13. buffer \in Seq(Byte) /\ Len(buffer) = l + 13 + m + 4 + e
  <2>1. /\ h \o wm \o gm \o we \o ge \in Seq(Byte)
        /\ Len(h \o wm \o gm \o we \o ge) = Len(h \o wm \o gm \o we) + Len(ge)
    BY <1>4, <1>12, Joined2
  <2> QED
    BY <1>4, <1>7, <1>12, <2>1, Zenon
<1>14. Len(buffer) = FileSize(file)
  <2>1. l + 13 + m + 4 + e = m + e + l + 1 + 16
    BY <1>2, <1>3, <1>4
  <2> QED
    BY <1>6, <1>13, <2>1, Zenon
<1>15. Has(buffer, 1, buffer)
  <2>1. Len(buffer) \in Nat
    BY <1>13
  <2>2. \A k \in 1..Len(buffer) : 1 + k - 1 = k
    BY <2>1
  <2> QED
    BY <2>1, <2>2 DEF Has
<1>16. /\ Has(buffer, 1, h \o wm \o gm \o we)
       /\ Has(buffer, 1 + (l + 13 + m + 4), ge)
  BY <1>4, <1>7, <1>12, <1>13, <1>15, HasConcat
<1>17. Has(buffer, 1, h \o wm \o gm) /\ Has(buffer, 1 + (l + 13 + m), we)
  BY <1>5, <1>11, <1>13, <1>16, HasConcat
<1>18. Has(buffer, 1, h \o wm) /\ Has(buffer, 1 + (l + 13), gm)
  BY <1>3, <1>10, <1>13, <1>17, HasConcat
<1>19. Has(buffer, 1, h) /\ Has(buffer, 1 + (l + 9), wm)
  BY <1>5, <1>9, <1>13, <1>18, HasConcat
<1>20. Has(buffer, 5, w \o t)
  <2> DEFINE wt == w \o t
  <2>1. wt \in Seq(Byte) /\ Has(buffer, 1, a \o wt)
    BY <1>7, <1>8, <1>19, Zenon
  <2> HIDE DEF wt
  <2>2. Has(buffer, 1 + Len(a), wt)
    BY <1>5, <1>13, <2>1, HasConcat
  <2>3. 1 + Len(a) = 5
    BY <1>5
  <2>4. Has(buffer, 5, wt)
    BY <2>2, <2>3, Zenon
  <2> QED
    BY <2>4 DEF wt
<1>21. Has(buffer, 5, w) /\ Has(buffer, 9, t)
  <2>1. Has(buffer, 5, w) /\ Has(buffer, 5 + Len(w), t)
    BY <1>2, <1>5, <1>13, <1>20, HasConcat
  <2>2. 5 + Len(w) = 9
    BY <1>5
  <2> QED
    BY <2>1, <2>2, Zenon
<1>22. l \in Word /\ m \in Word /\ e \in Word
  <2>1. l <= FileSize(file) /\ m <= FileSize(file) /\ e <= FileSize(file)
    BY <1>2, <1>3, <1>4, <1>6
  <2> DEFINE size == FileSize(file)
  <2>2. size \in Word /\ l <= size /\ m <= size /\ e <= size
    BY <2>1 DEF FileFits
  <2> HIDE DEF size
  <2>3. \A v \in Nat : v <= size => v \in Word
    BY <2>2, SMT DEF Word
  <2> QED
    BY <1>2, <1>3, <1>4, <2>2, <2>3
<1>23. ReadInt32(buffer, 5) = l /\ ReadString(buffer, 9) = file.name
  <2>1. ReadInt32(buffer, 5) = l
    BY <1>13, <1>21, <1>22, ReadsWord DEF w
  <2>2. ReadString(buffer, 9) = file.name
    BY <1>1, <1>13, <1>21, ReadsString DEF t
  <2> QED
    BY <2>1, <2>2
<1> DEFINE p == 9 + l + 1
           q == p + 4 + m
<1>24. /\ p \in Nat /\ q \in Nat /\ p = 1 + (l + 9) /\ p + 4 = 1 + (l + 13)
       /\ q = 1 + (l + 13 + m) /\ q + 4 = 1 + (l + 13 + m + 4)
  BY <1>2, <1>3
<1> HIDE DEF p, q
<1>25. /\ Has(buffer, p, wm) /\ Has(buffer, p + 4, gm)
       /\ Has(buffer, q, we) /\ Has(buffer, q + 4, ge)
  BY <1>16, <1>17, <1>18, <1>19, <1>24, Zenon
<1>26. ReadParts(buffer, p, LAMBDA j, s : ReadMessage(buffer, j, s)) =
         {[next |-> q, parts |-> ms, ok |-> TRUE]}
  <2>1. ReadParts(buffer, p, LAMBDA j, s : ReadMessage(buffer, j, s)) =
          {[next |-> p + 4 + m, parts |-> ms, ok |-> TRUE]}
    BY <1>1, <1>13, <1>22, <1>24, <1>25, ReadsMessageGroup DEF wm, gm, m, FileFits
  <2> QED
    BY <2>1 DEF q
<1>27. ReadParts(buffer, q, LAMBDA j, s : ReadEnum(buffer, j, s)) =
         {[next |-> q + 4 + e, parts |-> es, ok |-> TRUE]}
  BY <1>1, <1>13, <1>22, <1>24, <1>25, ReadsEnumGroup DEF we, ge, e, FileFits
<1> DEFINE EnumsAt(j) == ReadParts(buffer, j, LAMBDA k, s : ReadEnum(buffer, k, s))
           all == ReadParts(buffer, p, LAMBDA k, s : ReadMessage(buffer, k, s))
           Named2(n, r) == {[name |-> n, messages |-> r.parts, enums |-> s.parts] :
                              s \in EnumsAt(r.next)}
           first == [next |-> q, parts |-> ms, ok |-> TRUE]
           second == [next |-> q + 4 + e, parts |-> es, ok |-> TRUE]
<1>28. ReadFile(buffer) = UNION {Named2(file.name, r) : r \in all}
  <2> DEFINE name  == ReadString(buffer, 9)
             start == 9 + Len(name) + 1
             got   == ReadParts(buffer, start, LAMBDA k, s : ReadMessage(buffer, k, s))
  <2>1. Len(name) = ReadInt32(buffer, 5) /\ start = p
    BY <1>23 DEF p, l
  <2>2. ReadFile(buffer) = IF Len(name) # ReadInt32(buffer, 5) THEN {}
                           ELSE UNION {Named2(name, r) : r \in got}
    BY DEF ReadFile
  <2> HIDE DEF start
  <2>3. got = all
    BY <2>1
  <2> HIDE DEF got, all, EnumsAt, Named2
  <2>4. ReadFile(buffer) = UNION {Named2(name, r) : r \in got}
    BY <2>1, <2>2, Zenon
  <2>5. name = file.name
    BY <1>23
  <2> HIDE DEF name
  <2> QED
    BY <2>3, <2>4, <2>5, Zenon
<1>29. all = {first}
  BY <1>26
<1>30. EnumsAt(q) = {second}
  BY <1>27
<1>31. first.next = q /\ first.parts = ms /\ second.parts = es
  OBVIOUS
<1> HIDE DEF EnumsAt, all, first, second
<1>32. Named2(file.name, first) = {file}
  BY <1>1, <1>30, <1>31
<1> HIDE DEF Named2
<1>33. ReadFile(buffer) = {file}
  BY <1>28, <1>29, <1>32
<1> QED
  BY <1>14, <1>33 DEF buffer

\* A message takes no more than the file it is in.
LEMMA MessageInFile ==
  ASSUME NEW file \in FileMetas, FileFits(file), NEW m \in file.messages
  PROVE  m \in MessageMetas /\ MessageSize(m) \in Word /\ MessageFits(m)
<1> DEFINE S     == file.messages
           n     == Cardinality(S)
           bytes == MessageList(S)
           o     == SetToSeq(S)
<1>1. /\ S \in SUBSET MessageMetas /\ IsFiniteSet(S) /\ file.name \in Name
      /\ file.enums \in SUBSET EnumMetas /\ IsFiniteSet(file.enums)
  BY DEF FileMetas
<1>2. MessageFits(m) /\ FileSize(file) \in Word
  BY DEF FileFits
<1>3. /\ n \in Nat /\ bytes \in [1..n -> Seq(Byte)]
      /\ \A k \in S : \E i \in 1..n : o[i] = k
      /\ \A i \in 1..n : Len(bytes[i]) = MessageSize(o[i])
      /\ MessageTotal(S) = Total(SizesOf(n, bytes))
  BY <1>1, MessageListIs
<1>4. m \in S /\ m \in MessageMetas
  BY <1>1
<1> HIDE DEF n, bytes, o
<1>5. \A i \in 1..n : Len(bytes[i]) <= MessageTotal(S)
  BY <1>3, PackedIs
<1>6. MessageSize(m) <= MessageTotal(S) /\ MessageSize(m) \in Nat
  BY <1>3, <1>4, <1>5, MessageIs
<1> DEFINE a == MessageTotal(S)
           b == EnumTotal(file.enums)
           c == Len(file.name)
           d == MessageSize(m)
           e == FileSize(file)
<1>7. a \in Nat /\ b \in Nat /\ c \in Nat /\ d \in Nat
  BY <1>1, <1>6, MessageGroupIs, EnumGroupIs, StringIs
<1>8. e = a + b + c + 1 + 16 /\ d <= a /\ e \in Word
  BY <1>2, <1>6, FileParts
<1> HIDE DEF a, b, c, d, e
<1>9. d <= e
  BY <1>7, <1>8
<1>10. d \in Word
  BY <1>7, <1>8, <1>9, SMT DEF Word
<1> QED
  BY <1>2, <1>4, <1>10 DEF d

\* Different meta data have different bytes, where the numbers fit an int32.
LEMMA BytesTell ==
  ASSUME NEW m \in MessageMetas, NEW k \in MessageMetas,
         MessageSize(m) \in Word, MessageFits(m), MessageFits(k),
         MessageBytes(m) = MessageBytes(k)
  PROVE  m = k
<1> DEFINE buffer == MessageBytes(m)
<1>1. /\ buffer \in Seq(Byte) /\ Len(buffer) = MessageSize(m)
      /\ Len(buffer) = MessageSize(k)
  BY MessageIs
<1>2. MessageSize(k) = MessageSize(m)
  BY <1>1
<1>3. Has(buffer, 1, buffer)
  <2> HIDE DEF buffer
  <2>1. Len(buffer) \in Nat
    BY <1>1
  <2>2. \A i \in 1..Len(buffer) : 1 + i - 1 = i
    BY <2>1
  <2> QED
    BY <2>1, <2>2 DEF Has
<1>4. ReadMessage(buffer, 1, MessageSize(m)) = {m}
  BY <1>1, <1>3, ReadsMessage
<1>5. ReadMessage(buffer, 1, MessageSize(k)) = {k}
  BY <1>1, <1>2, <1>3, ReadsMessage
<1> QED
  BY <1>2, <1>4, <1>5

\* What GetMD5 compares: two messages of the same digest have the same name and
\* fields of the same names, sizes, offsets, counts and types, where their
\* numbers and the size of one of them fit an int32.  AMeta.cpp line 149.
THEOREM DigestTellsMeta ==
  ASSUME NEW m \in MessageMetas, NEW k \in MessageMetas,
         MessageSize(m) \in Word, MessageFits(m), MessageFits(k)
  PROVE  /\ MD5(MessageBytes(m)) # <<>>
         /\ MD5(MessageBytes(m)) = MD5(MessageBytes(k)) => m = k
<1>1. MessageBytes(m) \in Seq(Byte) /\ MessageBytes(k) \in Seq(Byte)
  BY MessageIs
<1>2. /\ MD5(MessageBytes(m)) # <<>>
      /\ MD5(MessageBytes(m)) = MD5(MessageBytes(k)) => MessageBytes(m) = MessageBytes(k)
  BY <1>1, DigestTells
<1> QED
  BY <1>2, BytesTell
=============================================================================
