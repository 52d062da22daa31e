------------------------------- MODULE Digest -------------------------------
(***************************************************************************)
(* The MD5 class as far as it is not MD5: how update gathers bytes in a    *)
(* buffer and cuts them into blocks, how final pads them, and what it      *)
(* restores.  transform is a free function: the state is the sequence of   *)
(* blocks it was given, so two digests are equal only for equal blocks.    *)
(* The bytes are those of MetaCodec.                                       *)
(***************************************************************************)
EXTENDS Integers, Sequences

CONSTANTS
  BlockSize,   \* bytes of a block: 64
  LengthSize   \* bytes of the length at the end of the last block: 8

ASSUME DigestAssumption ==
  LengthSize \in Nat \ {0} /\ BlockSize \in Nat /\ LengthSize < BlockSize

Junk == <<"junk", 0>>

\* reset: the buffer and the digest keep what they have, here nothing known.
Reset == [state |-> <<>>, count |-> 0, finished |-> FALSE,
          buffer |-> [i \in 1..BlockSize |-> Junk], digest |-> <<>>]

\* memcpy(&buffer[index], ...)
Put(buffer, index, bytes) ==
  [i \in 1..BlockSize |-> IF i - index \in DOMAIN bytes THEN bytes[i - index]
                          ELSE buffer[i]]

\* mutant: a block that is just full is left to the next call.
Overfull(length, partLen) == length > partLen
FillsBlock(length, partLen) == length >= partLen

\* The first block is completed in the buffer, the others are input's own.
Update(d, input) ==
  LET index   == d.count % BlockSize
      partLen == BlockSize - index
      first   == Put(d.buffer, index, SubSeq(input, 1, partLen))
      more    == (Len(input) - partLen) \div BlockSize
      start   == partLen + more * BlockSize
      blocks  == [k \in 1..more |-> SubSeq(input, partLen + (k - 1) * BlockSize + 1,
                                                  partLen + k * BlockSize)]
      moved   == [d EXCEPT !.finished = FALSE, !.count = @ + Len(input)]
  IN  IF FillsBlock(Len(input), partLen)
      THEN [moved EXCEPT !.state  = @ \o <<first>> \o blocks,
                         !.buffer = Put(first, 0, SubSeq(input, start + 1, Len(input)))]
      ELSE [moved EXCEPT !.buffer = Put(@, index, input)]

PadLen(index) ==
  IF index < BlockSize - LengthSize THEN BlockSize - LengthSize - index
  ELSE 2 * BlockSize - LengthSize - index
Padding(n)  == [i \in 1..n |-> <<"#", IF i = 1 THEN 128 ELSE 0>>]
Bits(count) == [i \in 1..LengthSize |-> <<"#", (count * 8) \div 256^(i - 1) % 256>>]

\* final restores the state and the count and leaves the buffer as it is.
Final(d) ==
  LET padded == Update(Update(d, Padding(PadLen(d.count % BlockSize))), Bits(d.count))
  IN  [padded EXCEPT !.digest = padded.state, !.state = d.state, !.count = d.count]

\* digest() and toString(): update, called by final, clears finished again.
Finish(d) == IF d.finished THEN d ELSE Final([d EXCEPT !.finished = TRUE])

MD5(bytes) == Finish(Update(Reset, bytes)).digest

\* What RFC 1321 asks for: pad first, then cut into blocks.
Reference(bytes) ==
  LET n    == Len(bytes)
      full == bytes \o Padding(PadLen(n % BlockSize)) \o Bits(n)
  IN  [k \in 1..(Len(full) \div BlockSize) |->
         SubSeq(full, (k - 1) * BlockSize + 1, k * BlockSize)]

\* A digest does not depend on how its bytes are cut into updates, nor on being
\* asked for in between, unless it was asked for where the padding takes a
\* second block: final does not restore the buffer.  MD5::final, md5.cpp line 211.
CutsAgree(bytes) ==
  \A n \in 0..Len(bytes) :
    LET first == Update(Reset, SubSeq(bytes, 1, n))
        rest  == SubSeq(bytes, n + 1, Len(bytes))
    IN  /\ Finish(Update(first, rest)).digest = Reference(bytes)
        /\ n % BlockSize < BlockSize - LengthSize
             => Finish(Update(Finish(first), rest)).digest = Reference(bytes)
=============================================================================
