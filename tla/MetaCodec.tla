----------------------------- MODULE MetaCodec ------------------------------
(***************************************************************************)
(* The meta data of a .proto file as bytes: AFileMeta, AMessageMeta,       *)
(* AFieldMeta and AEnumMeta write themselves into a buffer whose size each *)
(* level computes on its own, command mode puts the buffer into the        *)
(* generated header, and the reader of a binary file makes an AFileMeta of *)
(* it again.  The digest of a message is the digest of its bytes.          *)
(*                                                                         *)
(* A byte is a tagged number: a character is the text it is of with its    *)
(* position, and a name is such a text.  A std::map is a set; the order    *)
(* its elements are written in is some fixed order of that set.  What is   *)
(* not written, a field's field_type and repeated, is not in a field here. *)
(***************************************************************************)
EXTENDS Integers, Sequences, SequencesExt

\* What lies behind a buffer is read as 0.
At(buffer, i) == IF i \in DOMAIN buffer THEN buffer[i] ELSE <<"#", 0>>

\* Of the bytes of an int32.
Weight == <<1, 256, 65536, 16777216>>

WriteInt32(v) == [k \in 1..4 |-> <<"#", (v \div Weight[k]) % 256>>]
ReadInt32(buffer, i) ==
  LET Weighted(k) == At(buffer, i + k - 1)[2] * Weight[k]
  IN  Weighted(1) + Weighted(2) + Weighted(3) + Weighted(4)

Text(s)        == [i \in 1..Len(s) |-> <<s, i>>]
WriteString(t) == Append(t, <<"#", 0>>)

\* strcpy's counterpart: up to the first 0.
ReadString(buffer, i) ==
  LET end == CHOOSE j \in i..(Len(buffer) + 1) :
               /\ At(buffer, j) = <<"#", 0>>
               /\ \A k \in i..(j - 1) : At(buffer, k) # <<"#", 0>>
  IN  SubSeq(buffer, i, end - 1)

\* The sizes of the parts, each with the four bytes of its own size.
Total(sizes) == FoldLeft(LAMBDA total, size : total + 4 + size, 0, sizes)
InOrder(set, Op(_)) ==
  LET order == SetToSeq(set) IN [i \in DOMAIN order |-> Op(order[i])]

-----------------------------------------------------------------------------
\* GetSerializationSize.

\* mutant: one of the two terminators is forgotten.
OneTerminator(f) == Len(f.name) + 1 + 12 + Len(f.type)

FieldSize(f)   == Len(f.name) + 1 + 12 + Len(f.type) + 1
ValueSize(v)   == Len(v.name) + 1 + 4
MessageSize(m) == 4 + Len(m.name) + 1 + Total(InOrder(m.fields, FieldSize))
EnumSize(e)    == 4 + Len(e.name) + 1 + Total(InOrder(e.values, ValueSize))
FileSize(file) == Total(InOrder(file.messages, MessageSize))
                    + Total(InOrder(file.enums, EnumSize)) + Len(file.name) + 1 + 16

-----------------------------------------------------------------------------
\* Serialize.  A part is written where the sizes of those before it add up
\* to, over whatever they wrote there, into a buffer of zeros.

Part(size, bytes) == WriteInt32(size) \o [i \in 1..size |-> At(bytes, i)]
Named(name, parts) == WriteInt32(Len(name)) \o WriteString(name) \o FlattenSeq(parts)

FieldBytes(f) == WriteInt32(f.size) \o WriteInt32(f.offset) \o WriteInt32(f.count)
                   \o WriteString(f.name) \o WriteString(f.type)
ValueBytes(v) == WriteInt32(v.value) \o WriteString(v.name)
MessageBytes(m) ==
  Named(m.name, InOrder(m.fields, LAMBDA f : Part(FieldSize(f), FieldBytes(f))))
EnumBytes(e) ==
  Named(e.name, InOrder(e.values, LAMBDA v : Part(ValueSize(v), ValueBytes(v))))

FileBytes(file) ==
  WriteInt32(FileSize(file)) \o Named(file.name, <<>>)
    \o WriteInt32(Total(InOrder(file.messages, MessageSize)))
    \o FlattenSeq(InOrder(file.messages, LAMBDA m : Part(MessageSize(m), MessageBytes(m))))
    \o WriteInt32(Total(InOrder(file.enums, EnumSize)))
    \o FlattenSeq(InOrder(file.enums, LAMBDA e : Part(EnumSize(e), EnumBytes(e))))

-----------------------------------------------------------------------------
\* The constructors from a buffer, which throw when a size is not the one
\* they compute themselves: {} stands for the exception.

\* Where the parts from i up to before end are, and where they end.
Starts(buffer, i, end) ==
  LET From[j \in Nat] ==
        IF j >= end THEN {j} ELSE {j} \cup From[j + 4 + ReadInt32(buffer, j)]
  IN  From[i]

\* Each behind its size.
Parts(buffer, i, end, Read(_, _)) ==
  LET starts == Starts(buffer, i, end)
      parts  == {Read(j + 4, ReadInt32(buffer, j)) : j \in {k \in starts : k < end}}
  IN  [next |-> Max(starts), parts |-> UNION parts, ok |-> {} \notin parts]

ReadField(buffer, i, size) ==
  LET name == ReadString(buffer, i + 12)
  IN  {f \in {[size  |-> ReadInt32(buffer, i), offset |-> ReadInt32(buffer, i + 4),
               count |-> ReadInt32(buffer, i + 8), name |-> name,
               type  |-> ReadString(buffer, i + 12 + Len(name) + 1)]} :
         FieldSize(f) = size}

ReadValue(buffer, i, size) ==
  {[value |-> ReadInt32(buffer, i), name |-> ReadString(buffer, i + 4)]}

\* The name in front of a message or an enum, then its parts.
ReadNamed(buffer, i, end, Read(_, _)) ==
  LET name  == ReadString(buffer, i + 4)
      parts == Parts(buffer, i + 4 + Len(name) + 1, end, Read)
  IN  {[name |-> name, parts |-> read.parts] :
         read \in {r \in {parts} : r.ok /\ Len(name) = ReadInt32(buffer, i)}}

ReadMessage(buffer, i, size) ==
  {m \in {[name |-> read.name, fields |-> read.parts] :
            read \in ReadNamed(buffer, i, i + size, LAMBDA j, s : ReadField(buffer, j, s))} :
     MessageSize(m) = size}

ReadEnum(buffer, i, size) ==
  {e \in {[name |-> read.name, values |-> read.parts] :
            read \in ReadNamed(buffer, i, i + size, LAMBDA j, s : ReadValue(buffer, j, s))} :
     EnumSize(e) = size}

\* The messages or the enums, behind the bytes they take together.
ReadParts(buffer, i, Read(_, _)) ==
  LET end == i + 4 + ReadInt32(buffer, i)
  IN  {read \in {Parts(buffer, i + 4, end, Read)} : read.ok /\ read.next = end}

ReadFile(buffer) ==
  LET name == ReadString(buffer, 9)
  IN  IF Len(name) # ReadInt32(buffer, 5) THEN {}
      ELSE UNION {{[name |-> name, messages |-> ms.parts, enums |-> es.parts] :
                     es \in ReadParts(buffer, ms.next, LAMBDA j, s : ReadEnum(buffer, j, s))} :
                   ms \in ReadParts(buffer, 9 + Len(name) + 1,
                                    LAMBDA j, s : ReadMessage(buffer, j, s))}

\* GetMessageMetaByName.
Find(file, name) == CHOOSE m \in file.messages : m.name = name
=============================================================================
