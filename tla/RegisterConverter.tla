-------------------------- MODULE RegisterConverter --------------------------
(***************************************************************************)
(* RegisterConverter: typed values to Modbus registers and back, in the    *)
(* word orders a binding may name. Everything is pure. A byte has Byte     *)
(* values (256 in the code), so that all values of all types can be        *)
(* enumerated; floating-point values are their bit patterns, which the     *)
(* code casts to the integers of the same size.                            *)
(***************************************************************************)
EXTENDS Integers, Sequences

CONSTANT Byte  \* values of a byte

ASSUME ByteAssumption == Byte \in Nat \ {0, 1}

Word == Byte * Byte

Endianness == {"BigEndian", "LittleEndian", "WordSwap"}

\* RegisterCount of the types TryToRegisters knows: 16, 32 and 64 bits.
RegisterCounts == {1, 2, 4}

\* Values that n registers can tell apart.
Size(n) == CASE n = 1 -> Word [] n = 2 -> Word * Word [] n = 4 -> Word * Word * Word * Word

\* Casts between a signed value and the unsigned one with the same bits.
Unsigned(v, n) == v % Size(n)
Signed(v, n) == IF 2 * v >= Size(n) THEN v - Size(n) ELSE v

ValuesOf(n, signed) ==
  IF signed THEN {Signed(v, n) : v \in 0..Size(n) - 1} ELSE 0..Size(n) - 1

\* FromUInt32 and FromUInt64: the most significant word first.
FromUInt(v, n) ==
  CASE n = 1 -> <<v>>
    [] n = 2 -> <<v \div Word, v % Word>>
    [] n = 4 -> <<v \div (Word * Word * Word), (v \div (Word * Word)) % Word,
                  (v \div Word) % Word, v % Word>>

\* ToUInt32 and ToUInt64.
ToUInt(words, n) ==
  CASE n = 1 -> words[1]
    [] n = 2 -> words[1] * Word + words[2]
    [] n = 4 -> ((words[1] * Word + words[2]) * Word + words[3]) * Word + words[4]

Reversed(words) == [k \in DOMAIN words |-> words[Len(words) + 1 - k]]

\* WordSwap: the bytes of each word, the words stay where they are.
SwapBytes(words) == [k \in DOMAIN words |-> (words[k] % Byte) * Byte + words[k] \div Byte]

\* Mutated form: the order is applied to the registers of 64 bits only.
ApplyWordOrder_Long(words, endianness) ==
  CASE Len(words) <= 2 \/ endianness = "BigEndian" -> words
    [] Len(words) > 2 /\ endianness = "LittleEndian" -> Reversed(words)
    [] Len(words) > 2 /\ endianness = "WordSwap" -> SwapBytes(words)

ApplyWordOrder(words, endianness) ==
  CASE Len(words) <= 1 \/ endianness = "BigEndian" -> words
    [] Len(words) > 1 /\ endianness = "LittleEndian" -> Reversed(words)
    [] Len(words) > 1 /\ endianness = "WordSwap" -> SwapBytes(words)

\* Only the order of the words is taken into account on the way out.
TryToRegisters(v, n, endianness) ==
  LET words == FromUInt(Unsigned(v, n), n)
  IN IF n > 1 /\ endianness = "LittleEndian" THEN Reversed(words) ELSE words

TryFromRegisters(words, n, signed, endianness) ==
  LET v == ToUInt(ApplyWordOrder(words, endianness), n)
  IN IF signed THEN Signed(v, n) ELSE v

\* n registers of one kind read back every value that was written to them.
RoundTrip(n, signed, endianness) ==
  \A v \in ValuesOf(n, signed) :
    TryFromRegisters(TryToRegisters(v, n, endianness), n, signed, endianness) = v
=============================================================================
