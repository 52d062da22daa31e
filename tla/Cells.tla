------------------------------- MODULE Cells --------------------------------
(***************************************************************************)
(* What one cell of a sheet becomes: a value in a record of the binary     *)
(* file (the Write...Cell functions) and a value in the JSON file          *)
(* (GetPrimitiveValForJson and the Get...CellVal functions), each written  *)
(* for itself.  {} stands for a cell that is refused, by false or by an    *)
(* exception of the library.                                               *)
(*                                                                         *)
(* A bool field is an unsigned byte for both.  A float value is a number   *)
(* with no arithmetic; float is left out beside double.                    *)
(***************************************************************************)
EXTENDS Integers, Sequences, TLC

CONSTANTS
  ByteBits,    \* bits of a byte: 8
  EnumNumbers  \* the names of the enum with their numbers

NumberBytes == [bool |-> 1, int32 |-> 4, enum |-> 4, int64 |-> 8]
IsSigned(type) == type # "bool"
IsText(type) == type \in {"string", "bytes"}

NumberRange(bytes, signed) ==
  LET n == 2^(ByteBits * bytes)
  IN  IF signed THEN (-(n \div 2))..((n \div 2) - 1) ELSE 0..(n - 1)

\* The width of a number is a whole number of bytes, and protoc has enum values
\* that are int32.  The provers know no powers.
ASSUME CellsAssumption ==
  /\ \A bytes \in {1, 4, 8} :
       LET n == 2^(ByteBits * bytes) IN n \in Nat /\ n > 0 /\ n = 2 * (n \div 2)
  /\ \A name \in DOMAIN EnumNumbers : EnumNumbers[name] \in NumberRange(4, TRUE)

\* mutant: the number is kept as the library has it.
NoCast(v, bytes, signed) == v

\* cell.get<T>() for an Integer cell: a static_cast of the library's int64_t.
Cast(v, bytes, signed) ==
  LET n == 2^(ByteBits * bytes)
  IN  IF signed THEN ((v + n \div 2) % n) - (n \div 2) ELSE v % n

\* A string column takes a number as its digits.
TextOf(cell) ==
  CASE cell.type = "String"  -> {cell.value}
    [] cell.type = "Integer" -> {ToString(cell.value)}
    [] OTHER -> {}

EnumNumber(cell) ==
  {EnumNumbers[name] : name \in {cell.value} \cap DOMAIN EnumNumbers}

-----------------------------------------------------------------------------
\* Write...Cell.  A text needs a byte more than its length.
Written(type, size, cell) ==
  CASE cell.type = "Empty" -> {IF IsText(type) THEN "" ELSE 0}
    [] IsText(type) /\ cell.type # "Empty" -> {t \in TextOf(cell) : Len(t) < size}
    [] type \in DOMAIN NumberBytes /\ cell.type = "Integer" ->
         {Cast(cell.value, NumberBytes[type], IsSigned(type))}
    [] type = "enum" /\ cell.type = "String" -> EnumNumber(cell)
    [] type = "double" /\ cell.type = "Float" -> {cell.value}
    [] OTHER -> {}

\* mutant: int64 is read as int32.
AsInt32(type) == IF type = "int64" THEN 4 ELSE NumberBytes[type]

\* The template argument of GetNumberCellVal.
JsonBytes(type) == NumberBytes[type]

\* GetPrimitiveValForJson.  A double is read by get<float>, which throws on the
\* Integer cell that GetNumberCellVal insists on.
Json(type, cell) ==
  CASE cell.type = "Empty" -> {IF IsText(type) THEN "" ELSE 0}
    [] IsText(type) /\ cell.type # "Empty" -> TextOf(cell)
    [] type \in DOMAIN NumberBytes /\ cell.type = "Integer" ->
         {Cast(cell.value, JsonBytes(type), IsSigned(type))}
    [] type = "enum" /\ cell.type = "String" -> EnumNumber(cell)
    [] OTHER -> {}
=============================================================================
