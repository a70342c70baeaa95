------------------------------- MODULE Words -------------------------------
(***************************************************************************)
(* The machine words of the simulated MIPS processor: an int of 32 bits    *)
(* in the code, of WordBits = 4 * ByteBits bits here, in two's complement. *)
(* A word is the integer it stands for; its bits are a set of positions.   *)
(***************************************************************************)
EXTENDS Integers, FiniteSets, FiniteSetsExt

CONSTANT ByteBits    \* bits of a byte, 8 in the code

WordsAssumption == ByteBits \in Nat \ {0}

WordBits == 4 * ByteBits

Word == -(2^(WordBits - 1))..(2^(WordBits - 1) - 1)

(* What is left of an integer in an int and in an unsigned int. *)
Wrap(x) == ((x + 2^(WordBits - 1)) % 2^WordBits) - 2^(WordBits - 1)
Unsigned(x) == x % 2^WordBits

(* The operators &, |, ^ and ~ of C *)
Bits(x) == {i \in 0..(WordBits - 1) : (x \div 2^i) % 2 = 1}
OfBits(S) == Wrap(MapThenSumSet(LAMBDA i : 2^i, S))
And(x, y) == OfBits(Bits(x) \intersect Bits(y))
Or(x, y) == OfBits(Bits(x) \union Bits(y))
Xor(x, y) == OfBits((Bits(x) \union Bits(y)) \ (Bits(x) \intersect Bits(y)))
Not(x) == -x - 1

(* The lowest k bytes of a word, and the word without them. *)
Low(x, k) == x % 2^(ByteBits * k)
High(x, k) == x - Low(x, k)

(* Byte j of a word, byte 0 being the lowest, and the word of some bytes,  *)
(* the lowest at address a (the simulated machine is little endian).       *)
ByteOf(x, j) == (x \div 2^(ByteBits * j)) % 2^ByteBits
BytesAt(m, a, size) ==
  MapThenSumSet(LAMBDA j : m[a + j] * 2^(ByteBits * j), 0..(size - 1))

(* A value of size bytes, with its sign extended. *)
SignExtend(x, size) ==
  IF x >= 2^(ByteBits * size - 1) THEN x - 2^(ByteBits * size) ELSE x

(* The operators / and % of C, which truncate towards zero *)
Sign(x) == IF x < 0 THEN -1 ELSE 1
Abs(x) == IF x < 0 THEN -x ELSE x
Quotient(x, y) == Sign(x) * Sign(y) * (Abs(x) \div Abs(y))
Remainder(x, y) == Sign(x) * (Abs(x) % Abs(y))
=============================================================================
