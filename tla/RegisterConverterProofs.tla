----------------------- MODULE RegisterConverterProofs -----------------------
(***************************************************************************)
(* Registers read back what was written to them, for bytes of any size.    *)
(***************************************************************************)
EXTENDS MCModbusIo, TLAPS

-----------------------------------------------------------------------------
(* Quotients and remainders.                                               *)

\* A number is its quotient times the divisor, and the remainder.
LEMMA DivMod ==
  ASSUME NEW S \in Nat \ {0}, NEW a \in Int
  PROVE  a \div S \in Int /\ a % S \in 0..S - 1 /\ a = S * (a \div S) + (a % S)
OBVIOUS

\* There is only one way to write it like that.
LEMMA ModSame ==
  ASSUME NEW S \in Nat \ {0}, NEW q \in Int, NEW r \in 0..S - 1, NEW a \in Int, a = S * q + r
  PROVE  a % S = r /\ a \div S = q
OBVIOUS

\* Dividing by one number and then by another is dividing by their product.
LEMMA DivDiv ==
  ASSUME NEW A \in Nat \ {0}, NEW B \in Nat \ {0}, NEW v \in Nat
  PROVE  (v \div A) \div B = v \div (A * B)
OBVIOUS

\* Quotients of naturals are naturals.
LEMMA DivNat ==
  ASSUME NEW A \in Nat \ {0}, NEW v \in Nat
  PROVE  v \div A \in Nat
OBVIOUS

-----------------------------------------------------------------------------
(* The conversions and their inverses.                                     *)

\* There is more than one word, and there are values of every width.
LEMMA WordSize == Word \in Nat \ {0, 1} /\ \A n \in RegisterCounts : Size(n) \in Nat \ {0}
<1>1. Word \in Nat \ {0, 1}
  BY ByteAssumption DEF ByteAssumption, Word
<1>2. Word * Word \in Nat \ {0}
  BY <1>1
<1>3. Word * Word * Word * Word \in Nat \ {0}
  BY <1>1, <1>2
<1> QED  BY <1>1, <1>2, <1>3 DEF Size, RegisterCounts

\* A number in words.
LEMMA WordDivMod ==
  ASSUME NEW v \in Nat
  PROVE  v \div Word \in Nat /\ v % Word \in Int /\ v = (v \div Word) * Word + (v % Word)
<1>1. Word \in Nat \ {0} /\ v \in Int
  BY WordSize
<1>2. v \div Word \in Nat
  BY <1>1, DivNat
<1>3. v % Word \in 0..Word - 1 /\ v = Word * (v \div Word) + (v % Word)
  BY <1>1, DivMod, Zenon
<1> DEFINE q == v \div Word
           r == v % Word
<1>4. q \in Nat /\ r \in 0..Word - 1 /\ v = Word * q + r
  BY <1>2, <1>3
<1> HIDE DEF q, r
<1>5. r \in Int /\ v = q * Word + r
  BY <1>1, <1>4
<1> QED  BY <1>2, <1>5 DEF q, r

\* A cast to unsigned and back gives the value that was cast.
LEMMA CastsInverse ==
  ASSUME NEW n \in RegisterCounts, NEW u \in 0..Size(n) - 1
  PROVE  Unsigned(u, n) = u /\ Unsigned(Signed(u, n), n) = u
<1> DEFINE S == Size(n)
<1>1. S \in Nat \ {0}
  BY WordSize
<1> HIDE DEF S
<1>2. u \in 0..S - 1 /\ u = S * 0 + u /\ u - S = S * (-1) + u
  BY <1>1 DEF S
<1>3. u % S = u /\ (u - S) % S = u
  BY <1>1, <1>2, ModSame
<1> QED  BY <1>3 DEF S, Unsigned, Signed

\* The words of a value are words, and together they are the value.
LEMMA WordsInverse ==
  ASSUME NEW n \in RegisterCounts, NEW u \in 0..Size(n) - 1
  PROVE  FromUInt(u, n) \in Seq(Int) /\ Len(FromUInt(u, n)) = n /\ ToUInt(FromUInt(u, n), n) = u
<1>1. Word \in Nat \ {0, 1} /\ u \in Nat
  BY WordSize
<1>2. CASE n = 1
  <2>1. FromUInt(u, n) = <<u>>
    BY <1>2 DEF FromUInt
  <2>2. ToUInt(FromUInt(u, n), n) = u
    BY <1>2, <2>1 DEF ToUInt
  <2>3. <<u>> \in Seq(Int) /\ Len(<<u>>) = 1
    BY <1>1
  <2> QED  BY <1>2, <2>1, <2>2, <2>3
<1>3. CASE n = 2
  <2> DEFINE q == u \div Word
             r == u % Word
  <2>1. q \in Nat /\ r \in Int /\ u = q * Word + r
    BY <1>1, WordDivMod, Zenon
  <2>2. FromUInt(u, n) = <<q, r>>
    BY <1>3 DEF FromUInt
  <2> HIDE DEF q, r
  <2>3. ToUInt(FromUInt(u, n), n) = q * Word + r
    BY <1>3, <2>2 DEF ToUInt
  <2>4. <<q, r>> \in Seq(Int) /\ Len(<<q, r>>) = 2
    BY <2>1
  <2> QED  BY <1>3, <2>1, <2>2, <2>3, <2>4
<1>4. CASE n = 4
  <2> DEFINE a == u \div Word
             b == u \div (Word * Word)
             c == u \div (Word * Word * Word)
             r == u % Word
             s == a % Word
             t == b % Word
  <2>1. a \in Nat /\ r \in Int /\ u = a * Word + r
    BY <1>1, WordDivMod, Zenon
  <2>2. b = a \div Word
    BY <1>1, DivDiv
  <2>3. b \in Nat /\ s \in Int /\ a = b * Word + s
    BY <2>1, <2>2, WordDivMod, Zenon
  <2>4. c = b \div Word
    <3>1. Word * Word \in Nat \ {0}
      BY <1>1
    <3> QED  BY <1>1, <3>1, DivDiv
  <2>5. c \in Nat /\ t \in Int /\ b = c * Word + t
    BY <2>3, <2>4, WordDivMod, Zenon
  <2>6. FromUInt(u, n) = <<c, t, s, r>>
    BY <1>4, <2>2 DEF FromUInt
  <2> HIDE DEF a, b, c, r, s, t
  <2>7. ToUInt(FromUInt(u, n), n) = ((c * Word + t) * Word + s) * Word + r
    BY <1>4, <2>6 DEF ToUInt
  <2>8. ToUInt(FromUInt(u, n), n) = u
    BY <2>1, <2>3, <2>5, <2>7
  <2>9. <<c, t, s, r>> \in Seq(Int) /\ Len(<<c, t, s, r>>) = 4
    BY <2>1, <2>3, <2>5
  <2> QED  BY <1>4, <2>6, <2>8, <2>9
<1>5. n \in {1, 2, 4}
  BY DEF RegisterCounts
<1> QED  BY <1>2, <1>3, <1>4, <1>5

\* Words in the reverse order, reversed again, are in the order they had.
LEMMA ReversedTwice ==
  ASSUME NEW words \in Seq(Int)
  PROVE  Reversed(Reversed(words)) = words /\ Len(Reversed(words)) = Len(words)
<1>1. DOMAIN words = 1..Len(words) /\ Len(words) \in Nat
  OBVIOUS
<1>2. Reversed(words) = [k \in 1..Len(words) |-> words[Len(words) + 1 - k]]
  BY <1>1 DEF Reversed
<1>3. \A k \in 1..Len(words) : Len(words) + 1 - k \in 1..Len(words) /\ words[k] \in Int
  BY <1>1
<1>4. Reversed(words) \in Seq(Int) /\ Len(Reversed(words)) = Len(words)
  BY <1>1, <1>2, <1>3
<1>5. Reversed(Reversed(words)) = [k \in 1..Len(words) |-> Reversed(words)[Len(words) + 1 - k]]
  BY <1>2, <1>4 DEF Reversed
<1>6. \A k \in 1..Len(words) : Reversed(words)[Len(words) + 1 - k] = words[k]
  BY <1>1, <1>2, <1>3
<1>7. Reversed(Reversed(words)) = [k \in 1..Len(words) |-> words[k]]
  BY <1>5, <1>6
<1> QED  BY <1>1, <1>4, <1>7

-----------------------------------------------------------------------------
\* What is written to a device and read back is the value that was written, for every
\* value of every type that fits its registers and bytes of any size; with WordSwap only
\* for one register.
THEOREM RegistersRoundTrip == RoundTrips
<1> SUFFICES ASSUME NEW n \in RegisterCounts, NEW signed \in BOOLEAN, NEW endianness \in Endianness,
                    n = 1 \/ endianness # "WordSwap", NEW v \in ValuesOf(n, signed)
             PROVE  TryFromRegisters(TryToRegisters(v, n, endianness), n, signed, endianness) = v
  BY DEF RoundTrips, RoundTrip
<1>1. PICK u \in 0..Size(n) - 1 : v = IF signed THEN Signed(u, n) ELSE u
  BY DEF ValuesOf
<1> DEFINE words == FromUInt(u, n)
<1>2. Unsigned(v, n) = u
  BY <1>1, CastsInverse
<1>3. words \in Seq(Int) /\ Len(words) = n /\ ToUInt(words, n) = u
  BY WordsInverse
<1> HIDE DEF words
<1>4. TryToRegisters(v, n, endianness) = IF n > 1 /\ endianness = "LittleEndian" THEN Reversed(words) ELSE words
  BY <1>2 DEF TryToRegisters, words
<1>5. ApplyWordOrder(TryToRegisters(v, n, endianness), endianness) = words
  <2>1. CASE n = 1
    <3>1. TryToRegisters(v, n, endianness) = words /\ Len(words) <= 1
      BY <1>3, <1>4, <2>1
    <3>2. ApplyWordOrder(words, endianness) = words
      BY <1>3, <2>1, <3>1 DEF ApplyWordOrder
    <3> QED  BY <3>1, <3>2
  <2>2. CASE n > 1 /\ endianness = "BigEndian"
    BY <1>3, <1>4, <2>2 DEF ApplyWordOrder
  <2>3. CASE n > 1 /\ endianness = "LittleEndian"
    BY <1>3, <1>4, <2>3, ReversedTwice DEF ApplyWordOrder
  <2> QED  BY <2>1, <2>2, <2>3 DEF Endianness, RegisterCounts
<1> QED  BY <1>1, <1>3, <1>5 DEF TryFromRegisters
=============================================================================
