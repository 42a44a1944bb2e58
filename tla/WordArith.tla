------------------------------ MODULE WordArith ------------------------------
(***************************************************************************)
(* Unsigned integers of any width as the set of their one bits, so that    *)
(* Go's uint64 arithmetic (and the exact big-integer arithmetic it is     *)
(* compared with) can be evaluated without TLC's 32-bit integers: a bit    *)
(* set S stands for the sum of 2^k over k in S.                            *)
(***************************************************************************)
EXTENDS Naturals, FiniteSets, FiniteSetsExt

Bit(S, k) == IF k \in S THEN 1 ELSE 0

(* Carry-lookahead: a carry enters bit k when some lower bit j holds a one *)
(* in both operands (generates) and every bit between holds a one in      *)
(* either (propagates).                                                    *)
CarryInto(a, b, k) ==
  \E j \in a \cap b : j < k /\ \A m \in (j + 1)..(k - 1) : m \in a \cup b

\* (a + b) mod 2^w; no bit above max(a \cup b) + 1 can be set.
AddMod(a, b, w) ==
  IF a = {} THEN b \cap 0..(w - 1)
  ELSE IF b = {} THEN a \cap 0..(w - 1)
  ELSE {k \in 0..Min({Max(a \cup b) + 1, w - 1}) :
          (Bit(a, k) + Bit(b, k) + (IF CarryInto(a, b, k) THEN 1 ELSE 0)) % 2 = 1}

\* (b * 2^i) mod 2^w
ShiftMod(b, i, w) == {j + i : j \in b} \cap 0..(w - 1)

\* (a * b) mod 2^w: the sum of b shifted by every one bit of a.
MulMod(a, b, w) ==
  FoldSet(LAMBDA i, acc : AddMod(acc, ShiftMod(b, i, w), w), {}, a)

\* a < b: the highest bit where they differ is one of b's.
LessThan(a, b) == SymDiff(a, b) # {} /\ Max(SymDiff(a, b)) \in b

\* 10^k for k = 0..MaxDigits, entry k + 1 of the table.
MaxDigits == 24
Pow10Table ==
  << {0},
     {1, 3},
     {2, 5, 6},
     {3, 5, 6, 7, 8, 9},
     {4, 8, 9, 10, 13},
     {5, 7, 9, 10, 15, 16},
     {6, 9, 14, 16, 17, 18, 19},
     {7, 9, 10, 12, 15, 19, 20, 23},
     {8, 13, 14, 15, 16, 18, 20, 21, 22, 23, 24, 26},
     {9, 11, 14, 15, 17, 19, 20, 23, 24, 25, 27, 28, 29},
     {10, 13, 14, 15, 16, 17, 19, 26, 28, 30, 33},
     {11, 13, 14, 15, 17, 18, 20, 21, 22, 27, 30, 32, 33, 34, 36},
     {12, 16, 18, 21, 23, 26, 28, 30, 31, 35, 37, 38, 39},
     {13, 15, 17, 20, 21, 22, 25, 26, 27, 30, 35, 36, 40, 43},
     {14, 17, 19, 20, 21, 22, 28, 32, 33, 36, 37, 38, 39, 41, 43, 44, 46},
     {15, 17, 18, 22, 23, 26, 29, 31, 33, 34, 35, 36, 37, 38, 40, 42, 43, 47, 48, 49},
     {16, 22, 23, 24, 25, 26, 27, 29, 30, 33, 36, 37, 38, 39, 41, 42, 47, 48, 49, 53},
     {17, 19, 23, 24, 26, 27, 28, 30, 35, 36, 37, 38, 40, 42, 46, 48, 49, 53, 54, 56},
     {18, 21, 22, 24, 25, 26, 29, 31, 32, 33, 36, 37, 39, 41, 42, 44, 45, 47, 53, 54, 55, 56, 58, 59},
     {19, 21, 22, 23, 24, 27, 31, 34, 40, 41, 45, 48, 49, 50, 54, 55, 57, 59, 63},
     {20, 24, 25, 29, 30, 32, 34, 35, 37, 41, 42, 43, 44, 46, 48, 49, 50, 54, 55, 56, 57, 59, 61, 62, 64, 66},
     {21, 23, 25, 26, 27, 28, 30, 31, 32, 34, 38, 39, 40, 42, 43, 45, 47, 48, 51, 54, 55, 56, 58, 60, 61, 65, 66, 68, 69},
     {22, 25, 28, 29, 31, 33, 35, 36, 37, 39, 40, 43, 46, 47, 53, 54, 55, 56, 59, 60, 65, 66, 67, 68, 73},
     {23, 25, 26, 28, 29, 30, 31, 33, 35, 38, 40, 45, 46, 47, 48, 49, 50, 54, 55, 57, 64, 66, 67, 69, 72, 74, 76},
     {24, 29, 31, 32, 34, 35, 37, 38, 39, 42, 43, 46, 47, 49, 50, 51, 54, 55, 56, 57, 59, 60, 65, 70, 71, 72, 73, 76, 78, 79} >>

\* Each entry is ten times the one before (10 * p = 8 * p + 2 * p).
ASSUME /\ Pow10Table[1] = {0}
       /\ \A k \in 2..(MaxDigits + 1) :
            Pow10Table[k] = AddMod(ShiftMod(Pow10Table[k - 1], 3, 80),
                                   ShiftMod(Pow10Table[k - 1], 1, 80), 80)

\* The number of decimal digits of a value below 10^MaxDigits (1 for 0).
Digits(S) == 1 + Cardinality({k \in 1..MaxDigits : ~LessThan(S, Pow10Table[k + 1])})

=============================================================================
