------------------------------ MODULE Snippets ------------------------------
(***************************************************************************)
(* The bit arithmetic of Snippets.cpp, from which a cache computes how far *)
(* to shift an address and a set number.                                   *)
(***************************************************************************)
EXTENDS Integers, FiniteSetsExt

CONSTANT Width  \* bits of a machine word: 32 in the code, 30 at most for TLC

ASSUME WidthAssumption == Width \in 17 .. 32

Word == 0 .. 2 ^ Width - 1
Wrap(x) == x % 2 ^ Width

(* A bit of a word, and the word that has given bits.                      *)
Bit(x, i) == (x \div 2 ^ i) % 2
WordOf(bits) ==
  LET low[n \in 0 .. Width] == IF n = 0 THEN 0 ELSE low[n - 1] + bits[n - 1] * 2 ^ (n - 1)
  IN  low[Width]

(* The operators of C.                                                     *)
x & y == WordOf([i \in 0 .. Width - 1 |-> Bit(x, i) * Bit(y, i)])
x | y == WordOf([i \in 0 .. Width - 1 |-> IF Bit(x, i) = 1 THEN 1 ELSE Bit(y, i)])
shiftL(x, n) == Wrap(x * 2 ^ n)
shiftR(x, n) == x \div 2 ^ n

(* One line of roundUpPower2: x | (x >> n).                                *)
Smear(x, n) == x | shiftR(x, n)

(* Variant of RoundUpPower2: powers of two are rounded up too.             *)
RoundUpStrictly(x) ==
  Wrap(Smear(Smear(Smear(Smear(Smear(x, 1), 2), 4), 8), 16) + 1)

RoundUpPower2(x) ==
  Wrap(Smear(Smear(Smear(Smear(Smear(Wrap(x - 1), 1), 2), 4), 8), 16) + 1)

(* Variant of Log2i: rounded down.                                         *)
Log2iDown(n) == IF n <= 1 THEN 0 ELSE Max({i \in 0 .. Width - 1 : 2 ^ i <= n})

(* The shifts after which m is no longer below n; none if n wrapped to 0.  *)
Log2i(n) ==
  LET up == RoundUpPower2(n)
  IN  IF n = 1 THEN 0 ELSE Min({i \in 0 .. Width - 1 : 2 ^ i >= up})
=============================================================================
