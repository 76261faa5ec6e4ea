---------------------------------- MODULE Words ----------------------------------
(* Machine words as numbers and as the set of the positions of their one bits. *)
EXTENDS Integers

(* The powers of two, by doubling.                                            *)
TwoTo[n \in Nat] == IF n = 0 THEN 1 ELSE 2 * TwoTo[n - 1]

(* The low n bits of a number, in two's complement when it is negative.        *)
OneBits(v, n) == {i \in 0 .. n - 1 : (v \div TwoTo[i]) % 2 = 1}

(* The n-bit number with these one bits, and that in n bits of a word from     *)
(* position lo.                                                                *)
ValueOf(bits, n) ==
  LET low[k \in 0 .. n] ==
        IF k = 0 THEN 0 ELSE low[k - 1] + IF k - 1 \in bits THEN TwoTo[k - 1] ELSE 0
  IN  low[n]
Field(bits, lo, n) == ValueOf({i \in 0 .. n - 1 : i + lo \in bits}, n)

(* The two's complement reading of an n-bit number.                            *)
SignExtend(v, n) == IF v >= TwoTo[n - 1] THEN v - TwoTo[n] ELSE v
===============================================================================
