-------------------------------- MODULE Bits --------------------------------
(***************************************************************************)
(* Unsigned words, as the code shifts and masks them. A word is the set of *)
(* the positions of its one bits: & is \cap, | is \cup, << and >> move the *)
(* positions, and a narrowing conversion drops the high ones. Timestamps   *)
(* of 33 bits are words like any other.                                    *)
(***************************************************************************)
EXTENDS Integers, FiniteSetsExt

Low(n) == 0 .. n - 1                         \* the mask of the n low bits
Word(n) == SUBSET Low(n)
Byte   == Word(8)

Shl(w, s) == {b + s : b \in w}
Shr(w, s) == {b - s : b \in {c \in w : c >= s}}
Xor(v, w) == (v \ w) \cup (w \ v)

Put(w, at, n) == Shl(w, at) \cap (at .. at + n - 1)   \* (w << at) & mask
Get(w, at, n) == Shr(w, at) \cap Low(n)               \* (w >> at) & mask

(* The 33 low bits of a number, the high ones apart because TLC's integers *)
(* have 31, and the number of a word.                                      *)
Bin(k) == {b \in Low(30) : (k \div 2^b) % 2 = 1}
            \cup {b \in 30 .. 32 : ((k \div 2^30) \div 2^(b - 30)) % 2 = 1}
Num(w) == MapThenSumSet(LAMBDA b : 2^b, w)
=============================================================================
