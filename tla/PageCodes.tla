----------------------------- MODULE PageCodes -----------------------------
(***************************************************************************)
(* The two pure functions of the browser pages: hashCode, which turns a    *)
(* name into the id of a peer, and encode, which sendfile.js uses to show  *)
(* a received picture.                                                     *)
(*                                                                         *)
(* A name is a sequence of character codes, a file a sequence of bytes.    *)
(* The bit operators of JavaScript work on HashBits bits (32 there); the   *)
(* width is a parameter because TLC's own integers have 32 bits.           *)
(***************************************************************************)
EXTENDS Integers, Sequences

CONSTANT HashBits

ASSUME HashBitsAssumption == HashBits \in Nat \ {0}

\* What a bit operator makes of an integer: its signed residue.
Wrap(x) == LET m == 2^HashBits
               r == x % m
           IN  IF 2 * r >= m THEN r - m ELSE r

\* hash = ((hash << 5) - hash) + char; hash = hash & hash
Mix(hash, char) == Wrap(Wrap(hash * 32) - hash + char)

\* hashCode: one Mix per character, from 0.
HashCode(str) ==
    LET hash[i \in 0..Len(str)] == IF i = 0 THEN 0 ELSE Mix(hash[i - 1], str[i])
    IN  hash[Len(str)]

-----------------------------------------------------------------------------
Missing == -1      \* Number.NaN: there is no further byte
Padding == 64      \* the place of '=' in keyStr

\* One round of the loop of encode: the four places in keyStr. A bit operator
\* takes NaN for 0.
Bits(chr) == IF chr = Missing THEN 0 ELSE chr

Quad(chr1, chr2, chr3) ==
    << chr1 \div 4,
       (chr1 % 4) * 16 + Bits(chr2) \div 16,
       IF chr2 = Missing THEN Padding ELSE (Bits(chr2) % 16) * 4 + Bits(chr3) \div 64,
       IF chr3 = Missing THEN Padding ELSE Bits(chr3) % 64 >>

\* encode: a Quad for every three bytes, the last of which may be missing.
Encode(input) ==
    LET byte(i) == IF i <= Len(input) THEN input[i] ELSE Missing
        rounds == (Len(input) + 2) \div 3
        output[k \in 0..rounds] ==
            IF k = 0 THEN <<>>
            ELSE output[k - 1] \o Quad(byte(3 * k - 2), byte(3 * k - 1), byte(3 * k))
    IN  output[rounds]

-----------------------------------------------------------------------------
(* What the two are meant to compute, stated without loops.                *)

\* The value of the name read as digits of base 31, most significant first,
\* as an integer of HashBits bits.
IsHashOf(h, str) ==
    LET value[i \in 0..Len(str)] == IF i = 0 THEN 0 ELSE value[i - 1] * 31 + str[i]
    IN  /\ -(2^HashBits) <= 2 * h /\ 2 * h < 2^HashBits
        /\ (h - value[Len(str)]) % 2^HashBits = 0

\* Base64 by its bits: bit b (from 0, most significant first) of the input is bit
\* b of the output; the output is padded with zero bits and Paddings to a
\* multiple of four places.
IsBase64Of(output, input) ==
    LET inBits == 8 * Len(input)
        bit(word, width, b) == (word \div 2^(width - 1 - b)) % 2
        inBit(b) == IF b < inBits THEN bit(input[b \div 8 + 1], 8, b % 8) ELSE 0
        used == (inBits + 5) \div 6
    IN  /\ Len(output) = 4 * ((Len(input) + 2) \div 3)
        /\ \A i \in 1..Len(output) :
               IF i > used THEN output[i] = Padding
               ELSE output[i] \in 0..63 /\ \A b \in 0..5 :
                        bit(output[i], 6, b) = inBit(6 * (i - 1) + b)
=============================================================================
