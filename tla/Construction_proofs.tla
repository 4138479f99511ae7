------------------------ MODULE Construction_proofs ------------------------
(***************************************************************************)
(* What the constructors deliver, for every width of a machine word up to  *)
(* 32 bits and every command line: first the bit arithmetic of Snippets,   *)
(* then the geometry of one cache, then main building the containers.      *)
(***************************************************************************)
EXTENDS Construction_Properties, SequenceTheorems, WellFoundedInduction, TLAPS

-----------------------------------------------------------------------------
(* Naturals.                                                               *)

Below == {ss \in Nat \X Nat : ss[1] < ss[2]}

(* A set of naturals that is not empty has a least element, and Min is it. *)
LEMMA MinIn ==
  ASSUME NEW S \in SUBSET Nat, S # {}
  PROVE  Min(S) \in S /\ \A y \in S : Min(S) <= y
<1>1. IsWellFoundedOn(Below, Nat)
  BY NatLessThanWellFounded, Zenon DEF OpToRel, Below
<1>2. PICK x \in S : \A y \in S : ~(<<y, x>> \in Below)
  BY <1>1, WFMin
<1>3. ASSUME NEW y \in S PROVE x <= y
  <2>1. x \in Nat /\ y \in Nat
    OBVIOUS
  <2>2. <<y, x>> \in Nat \X Nat /\ <<y, x>>[1] = y /\ <<y, x>>[2] = x
    BY <2>1
  <2>3. ~(y < x)
    BY <1>2, <2>2 DEF Below
  <2> QED BY <2>1, <2>3
<1> QED BY <1>3 DEF Min

(* Induction up to a bound, over a set instead of a predicate.             *)
LEMMA CountingUp ==
  ASSUME NEW N \in Nat, NEW S, 0 \in S, \A n \in 0 .. N : n \in S /\ n < N => n + 1 \in S
  PROVE  0 .. N \subseteq S
<1> SUFFICES ASSUME NEW m \in 0 .. N, m \notin S PROVE FALSE
  OBVIOUS
<1> DEFINE T == {n \in 0 .. N : n \notin S}
           k == Min(T)
<1>1. T \in SUBSET Nat /\ T # {}
  OBVIOUS
<1>2. k \in T /\ \A n \in T : k <= n
  BY <1>1, MinIn
<1> HIDE DEF k
<1>3. k \in 0 .. N /\ k \notin S /\ k # 0
  BY <1>2
<1>4. k - 1 \in 0 .. N /\ k - 1 \notin T
  BY <1>2, <1>3
<1> QED BY <1>3, <1>4

(* Division and what it leaves.                                            *)
LEMMA Divided ==
  ASSUME NEW x \in Nat, NEW b \in Nat \ {0}
  PROVE  /\ x \div b \in Nat /\ x % b \in Nat /\ x % b < b
         /\ x = (x \div b) * b + (x % b)
OBVIOUS

(* There is only one way to divide.                                        *)
LEMMA Division ==
  ASSUME NEW q \in Nat, NEW r \in Nat, NEW b \in Nat \ {0}, r < b
  PROVE  (q * b + r) \div b = q /\ (q * b + r) % b = r
<1> DEFINE x == q * b + r
           p == x \div b
           s == x % b
<1>1. x \in Nat
  OBVIOUS
<1>2. x = p * b + s /\ p \in Nat /\ s \in Nat /\ s < b
  BY <1>1, Divided
<1>3. p * b + s = q * b + r
  BY <1>2
<1> HIDE DEF p, s
<1>4. CASE p < q
  <2>1. (p + 1) * b <= q * b
    BY <1>2, <1>4
  <2> QED BY <1>2, <1>3, <2>1
<1>5. CASE q < p
  <2>1. (q + 1) * b <= p * b
    BY <1>2, <1>5
  <2> QED BY <1>2, <1>3, <2>1
<1>6. CASE p = q
  BY <1>2, <1>3, <1>6 DEF p, s
<1> QED BY <1>2, <1>4, <1>5, <1>6

(* One more bit of the remainder.                                          *)
LEMMA NextBit ==
  ASSUME NEW x \in Nat, NEW q \in Nat \ {0}
  PROVE  /\ (x \div q) % 2 \in 0 .. 1
         /\ x % (2 * q) = (x % q) + ((x \div q) % 2) * q
         /\ (x % (2 * q)) \div q = (x \div q) % 2
<1> DEFINE y == x \div q
           r == x % q
           z == y \div 2
           b == y % 2
<1>1. x = q * y + r /\ y \in Nat /\ r \in 0 .. q - 1
  BY Divided
<1>2. y = 2 * z + b /\ z \in Nat /\ b \in 0 .. 1
  BY <1>1
<1> HIDE DEF y, r, z, b
<1>3. x = z * (2 * q) + (b * q + r)
  BY <1>1, <1>2
<1>4. b * q + r \in 0 .. 2 * q - 1
  BY <1>1, <1>2
<1>5. x % (2 * q) = b * q + r
  <2>1. 2 * q \in Nat \ {0} /\ b * q + r \in Nat /\ b * q + r < 2 * q
    BY <1>4
  <2> QED BY <1>2, <1>3, <2>1, Division
<1>6. (b * q + r) \div q = b
  BY <1>1, <1>2, Division
<1>7. b \in 0 .. 1 /\ x % (2 * q) = r + b * q /\ (x % (2 * q)) \div q = b
  BY <1>1, <1>2, <1>5, <1>6
<1> QED BY <1>7 DEF b, y, r

(* What is a multiple of q adds nothing to the remainder.                  *)
LEMMA AddMultiple ==
  ASSUME NEW x \in Nat, NEW t \in Nat, NEW q \in Nat \ {0}
  PROVE  (x + t * q) % q = x % q
<1> DEFINE y == x \div q
           r == x % q
<1>1. x = y * q + r /\ y \in Nat /\ r \in Nat /\ r < q
  BY Divided
<1> HIDE DEF y, r
<1>2. x + t * q = (y + t) * q + r /\ y + t \in Nat
  BY <1>1
<1>3. ((y + t) * q + r) % q = r
  BY <1>1, <1>2, Division
<1> QED BY <1>2, <1>3 DEF r

(* Dividing twice.                                                         *)
LEMMA DivideTwice ==
  ASSUME NEW x \in Nat, NEW q \in Nat \ {0}, NEW p \in Nat \ {0}
  PROVE  (x \div q) \div p = x \div (q * p)
<1> DEFINE y == x \div q
           r == x % q
           z == y \div p
           s == y % p
<1>1. x = y * q + r /\ y \in Nat /\ r \in Nat /\ r < q
  BY Divided
<1>2. y = z * p + s /\ z \in Nat /\ s \in Nat /\ s < p
  BY <1>1, Divided
<1> HIDE DEF y, r, z, s
<1>3. x = z * (q * p) + (s * q + r)
  BY <1>1, <1>2
<1>4. s * q + r < q * p /\ s * q + r \in Nat
  <2>1. s + 1 <= p
    BY <1>2
  <2>2. (s + 1) * q <= p * q
    BY <1>2, <2>1
  <2> QED BY <1>1, <1>2, <2>2
<1>5. x \div (q * p) = z
  <2>1. q * p \in Nat \ {0}
    OBVIOUS
  <2> QED BY <1>2, <1>3, <1>4, <2>1, Division
<1> QED BY <1>5 DEF z, y

-----------------------------------------------------------------------------
(* Powers of two.  The provers compute 2 ^ n only for a given n, so every  *)
(* fact about them rests on those up to the widest word.                   *)

Doubles(i) == 2 ^ i \in Nat \ {0} /\ 2 ^ (i + 1) = 2 * 2 ^ i

(* The next power is twice the last.                                       *)
LEMMA PowersDouble == \A i \in 0 .. 31 : Doubles(i)
<1>1. /\ Doubles(0) /\ Doubles(1) /\ Doubles(2) /\ Doubles(3)
      /\ Doubles(4) /\ Doubles(5) /\ Doubles(6) /\ Doubles(7)
  BY DEF Doubles
<1>2. /\ Doubles(8) /\ Doubles(9) /\ Doubles(10) /\ Doubles(11)
      /\ Doubles(12) /\ Doubles(13) /\ Doubles(14) /\ Doubles(15)
  BY DEF Doubles
<1>3. /\ Doubles(16) /\ Doubles(17) /\ Doubles(18) /\ Doubles(19)
      /\ Doubles(20) /\ Doubles(21) /\ Doubles(22) /\ Doubles(23)
  BY DEF Doubles
<1>4. /\ Doubles(24) /\ Doubles(25) /\ Doubles(26) /\ Doubles(27)
      /\ Doubles(28) /\ Doubles(29) /\ Doubles(30) /\ Doubles(31)
  BY DEF Doubles
<1>5. ASSUME NEW i \in 0 .. 31 PROVE Doubles(i)
  <2>1. CASE i < 8 BY <1>1, <2>1
  <2>2. CASE 8 <= i /\ i < 16 BY <1>2, <2>2
  <2>3. CASE 16 <= i /\ i < 24 BY <1>3, <2>3
  <2>4. CASE 24 <= i BY <1>4, <2>4
  <2> QED BY <2>1, <2>2, <2>3, <2>4
<1> QED BY <1>5

(* To have them as values of a function spares the provers the exponents.  *)
Pow == [i \in 0 .. 32 |-> 2 ^ i]

(* What the values are.                                                    *)
LEMMA PowIs == \A i \in 0 .. 32 : Pow[i] = 2 ^ i
BY DEF Pow

(* And how each follows from the last.                                     *)
LEMMA PowFacts ==
  /\ Pow \in [0 .. 32 -> Nat \ {0}] /\ Pow[0] = 1
  /\ \A i \in 0 .. 31 : Pow[i + 1] = 2 * Pow[i]
<1>1. \A i \in 0 .. 31 : 2 ^ i \in Nat \ {0} /\ 2 ^ (i + 1) = 2 * 2 ^ i
  BY PowersDouble DEF Doubles
<1>2. 2 ^ 0 = 1 /\ 2 ^ 32 \in Nat \ {0}
  OBVIOUS
<1>3. \A i \in 0 .. 32 : i \in 0 .. 31 \/ i = 32
  OBVIOUS
<1>4. \A i \in 0 .. 32 : 2 ^ i \in Nat \ {0}
  BY <1>1, <1>2, <1>3
<1>5. \A i \in 0 .. 31 : i \in 0 .. 32 /\ i + 1 \in 0 .. 32
  OBVIOUS
<1> QED BY <1>1, <1>2, <1>4, <1>5 DEF Pow

(* The powers multiply as their exponents add up.                          *)
LEMMA PowAdds ==
  ASSUME NEW i \in 0 .. 32, NEW j \in 0 .. 32, i + j <= 32
  PROVE  Pow[i + j] = Pow[i] * Pow[j]
<1> DEFINE room == 32 - i
           S == {n \in 0 .. room : Pow[i + n] = Pow[i] * Pow[n]}
<1>1. room \in Nat /\ j \in 0 .. room /\ 0 \in 0 .. room
  OBVIOUS
<1>2. 0 \in S
  <2>1. Pow[i] \in Nat /\ Pow[0] = 1
    BY PowFacts
  <2>2. Pow[i + 0] = Pow[i]
    OBVIOUS
  <2>3. Pow[i] = Pow[i] * 1
    BY <2>1
  <2> QED BY <1>1, <2>1, <2>2, <2>3
<1>3. ASSUME NEW n \in 0 .. room, n \in S, n < room PROVE n + 1 \in S
  <2>1. n \in 0 .. 31 /\ i + n \in 0 .. 31 /\ n + 1 \in 0 .. room /\ i + (n + 1) = (i + n) + 1
    BY <1>3
  <2>2. Pow[i + (n + 1)] = 2 * Pow[i + n] /\ Pow[n + 1] = 2 * Pow[n]
    BY <2>1, PowFacts
  <2>3. Pow[i] \in Nat /\ Pow[n] \in Nat
    BY <2>1, PowFacts
  <2>4. 2 * (Pow[i] * Pow[n]) = Pow[i] * (2 * Pow[n])
    BY <2>3
  <2>5. Pow[i + n] = Pow[i] * Pow[n]
    BY <1>3
  <2> QED BY <2>1, <2>2, <2>4, <2>5
<1> HIDE DEF room
<1>4. 0 .. room \subseteq S
  BY <1>1, <1>2, <1>3, CountingUp
<1> QED BY <1>1, <1>4

(* The other way round: the larger is a multiple of the smaller.           *)
LEMMA PowSplits ==
  ASSUME NEW i \in 0 .. 32, NEW j \in 0 .. 32, i <= j
  PROVE  Pow[j] = Pow[i] * Pow[j - i]
<1> DEFINE d == j - i
<1>1. d \in 0 .. 32 /\ i + d = j /\ i + d <= 32
  OBVIOUS
<1> HIDE DEF d
<1>2. Pow[i + d] = Pow[i] * Pow[d]
  BY <1>1, PowAdds
<1> QED BY <1>1, <1>2 DEF d

(* They grow.                                                              *)
LEMMA PowGrows ==
  ASSUME NEW i \in 0 .. 32, NEW j \in 0 .. 32, i < j
  PROVE  Pow[i] < Pow[j]
<1> DEFINE d == j - i
           half == Pow[d - 1]
<1>1. d - 1 \in 0 .. 31 /\ (d - 1) + 1 = d /\ i <= j
  OBVIOUS
<1>2. Pow[j] = Pow[i] * Pow[d]
  BY <1>1, PowSplits
<1> HIDE DEF d
<1>3. Pow[d] = 2 * half /\ half \in Nat \ {0} /\ Pow[i] \in Nat \ {0}
  BY <1>1, PowFacts
<1> HIDE DEF half
<1>4. Pow[i] * (2 * half) >= Pow[i] * 2
  BY <1>3
<1> QED BY <1>2, <1>3, <1>4

-----------------------------------------------------------------------------
(* Words and their bits.                                                   *)

Bits == 0 .. Width - 1

(* The width is a bound for exponents.                                     *)
LEMMA WidthFacts ==
  /\ Width \in Nat /\ Width \in 0 .. 32 /\ Width >= 17 /\ Bits \subseteq 0 .. 31
  /\ Word = 0 .. Pow[Width] - 1 /\ Pow[Width] \in Nat \ {0}
<1>1. Width \in 0 .. 32 /\ Width >= 17 /\ Bits \subseteq 0 .. 31
  BY WidthAssumption DEF Bits
<1>2. Pow[Width] = 2 ^ Width
  BY <1>1 DEF Pow
<1> QED BY <1>1, <1>2, PowFacts DEF Word

(* A bit's number is an exponent, and so is the width.                     *)
LEMMA Exponent ==
  ASSUME NEW i \in 0 .. Width
  PROVE  /\ i \in 0 .. 32 /\ Pow[i] \in Nat \ {0} /\ Pow[i] <= Pow[Width]
         /\ i < Width => i \in Bits /\ i \in 0 .. 31 /\ i + 1 \in 0 .. Width /\ Pow[i] < Pow[Width]
<1>1. i \in 0 .. 32 /\ Width \in 0 .. 32
  BY WidthFacts
<1>2. Pow[i] \in Nat \ {0} /\ Pow[Width] \in Nat
  BY <1>1, PowFacts
<1>3. i < Width => Pow[i] < Pow[Width]
  BY <1>1, PowGrows
<1>4. i < Width => i \in Bits /\ i \in 0 .. 31 /\ i + 1 \in 0 .. Width
  BY <1>1 DEF Bits
<1>5. Pow[i] <= Pow[Width]
  <2>1. i < Width \/ i = Width
    BY <1>1
  <2> QED BY <1>2, <1>3, <2>1
<1> QED BY <1>1, <1>2, <1>3, <1>4, <1>5

(* The other way round.                                                    *)
LEMMA BitNumber ==
  ASSUME NEW i \in Bits
  PROVE  /\ i \in 0 .. Width /\ i < Width /\ i \in 0 .. 31 /\ i \in 0 .. 32 /\ i + 1 \in 0 .. Width
         /\ Pow[i] \in Nat \ {0} /\ Pow[i + 1] \in Nat \ {0} /\ Pow[i + 1] = 2 * Pow[i]
<1>1. i \in 0 .. Width /\ i < Width /\ i \in 0 .. 31 /\ i \in 0 .. 32 /\ i + 1 \in 0 .. Width /\ i + 1 \in 0 .. 32
  BY WidthFacts DEF Bits
<1> QED BY <1>1, PowFacts

(* A bit is what the next remainder has more.                              *)
LEMMA BitFacts ==
  ASSUME NEW x \in Nat, NEW i \in 0 .. 31
  PROVE  /\ Bit(x, i) \in 0 .. 1 /\ Bit(x, i) = (x \div Pow[i]) % 2
         /\ x % Pow[i + 1] = (x % Pow[i]) + Bit(x, i) * Pow[i]
         /\ Bit(x, i) = (x % Pow[i + 1]) \div Pow[i]
<1>1. Pow[i] \in Nat \ {0} /\ Pow[i + 1] = 2 * Pow[i]
  BY PowFacts
<1>2. Bit(x, i) = (x \div Pow[i]) % 2
  <2>1. i \in 0 .. 32
    OBVIOUS
  <2>2. Pow[i] = 2 ^ i
    BY <2>1, PowIs
  <2> QED BY <2>2, Zenon DEF Bit
<1> QED BY <1>1, <1>2, NextBit

(* Equal bits make equal remainders, and so equal words.                   *)
LEMMA SameBits ==
  ASSUME NEW x \in Nat, NEW y \in Nat, NEW k \in 0 .. 32,
         \A i \in 0 .. k - 1 : Bit(x, i) = Bit(y, i)
  PROVE  x % Pow[k] = y % Pow[k]
<1> DEFINE S == {n \in 0 .. k : x % Pow[n] = y % Pow[n]}
<1>1. 0 \in S
  <2>1. x % 1 = 0 /\ y % 1 = 0
    OBVIOUS
  <2> QED BY <2>1, PowFacts
<1>2. ASSUME NEW n \in 0 .. k, n \in S, n < k PROVE n + 1 \in S
  <2>1. n \in 0 .. 31 /\ n \in 0 .. k - 1 /\ n + 1 \in 0 .. k
    BY <1>2
  <2>2. /\ x % Pow[n + 1] = (x % Pow[n]) + Bit(x, n) * Pow[n]
        /\ y % Pow[n + 1] = (y % Pow[n]) + Bit(y, n) * Pow[n]
    BY <2>1, BitFacts
  <2> QED BY <1>2, <2>1, <2>2
<1>3. k \in Nat
  OBVIOUS
<1>4. 0 .. k \subseteq S
  BY <1>1, <1>2, <1>3, CountingUp
<1> QED BY <1>3, <1>4

(* A word is its bits.                                                     *)
LEMMA WordBits ==
  ASSUME NEW x \in Word, NEW y \in Word, \A i \in Bits : Bit(x, i) = Bit(y, i)
  PROVE  x = y
<1>1. x % Pow[Width] = y % Pow[Width]
  <2>1. x \in Nat /\ y \in Nat /\ Width \in 0 .. 32 /\ \A i \in 0 .. Width - 1 : Bit(x, i) = Bit(y, i)
    BY WidthFacts DEF Bits
  <2> QED BY <2>1, SameBits
<1>2. \A z \in Word : z % Pow[Width] = z
  BY WidthFacts
<1> QED BY <1>1, <1>2

(* Bits above a number are zero.                                           *)
LEMMA HighBits ==
  ASSUME NEW k \in 0 .. 32, NEW x \in 0 .. Pow[k] - 1, NEW i \in 0 .. 31, k <= i
  PROVE  Bit(x, i) = 0
<1>1. Pow[k] \in Nat /\ Pow[k] <= Pow[i] /\ Pow[i] \in Nat \ {0}
  <2>1. Pow[k] \in Nat /\ Pow[i] \in Nat \ {0} /\ i \in 0 .. 32 /\ (k = i \/ k < i)
    BY PowFacts
  <2>2. k < i => Pow[k] < Pow[i]
    BY <2>1, PowGrows
  <2> QED BY <2>1, <2>2
<1>2. x \in Nat /\ x < Pow[i]
  BY <1>1
<1>3. x \div Pow[i] = 0
  BY <1>1, <1>2
<1> QED BY <1>2, <1>3, BitFacts

(* The bits of a remainder are the lower ones of the number.               *)
LEMMA LowBits ==
  ASSUME NEW x \in Nat, NEW k \in 0 .. 32, NEW i \in 0 .. k - 1
  PROVE  Bit(x % Pow[k], i) = Bit(x, i)
<1>1. /\ i \in 0 .. 31 /\ i + 1 \in 0 .. 32 /\ i + 1 <= k /\ k - (i + 1) \in 0 .. 32
      /\ Pow[k] \in Nat \ {0} /\ Pow[i + 1] \in Nat \ {0}
  BY PowFacts
<1>2. Pow[k] = Pow[i + 1] * Pow[k - (i + 1)] /\ Pow[k - (i + 1)] \in Nat
  BY <1>1, PowSplits, PowFacts
<1> DEFINE r == x % Pow[k]
           t == (x \div Pow[k]) * Pow[k - (i + 1)]
<1>3. r \in Nat /\ t \in Nat /\ x = r + t * Pow[i + 1]
  <2>1. x \div Pow[k] \in Nat /\ r \in Nat /\ x = (x \div Pow[k]) * Pow[k] + r
    BY <1>1, Divided
  <2>2. \A q \in Nat, a \in Nat, b \in Nat : q * (a * b) = (q * b) * a
    OBVIOUS
  <2> HIDE DEF r
  <2> QED BY <1>1, <1>2, <2>1, <2>2
<1> HIDE DEF r, t
<1>4. x % Pow[i + 1] = r % Pow[i + 1]
  BY <1>1, <1>3, AddMultiple
<1>5. Bit(x, i) = Bit(r, i)
  <2>1. /\ Bit(x, i) = (x % Pow[i + 1]) \div Pow[i]
        /\ Bit(r, i) = (r % Pow[i + 1]) \div Pow[i]
    BY <1>1, <1>3, BitFacts
  <2> QED BY <1>4, <2>1
<1> QED BY <1>5 DEF r

(* Shifting right moves the bits down.                                     *)
LEMMA ShiftedBits ==
  ASSUME NEW x \in Nat, NEW n \in 0 .. 31, NEW i \in 0 .. 31
  PROVE  /\ shiftR(x, n) = x \div Pow[n] /\ shiftR(x, n) \in Nat
         /\ i + n <= 31 => Bit(shiftR(x, n), i) = Bit(x, i + n)
<1>1. Pow[n] \in Nat \ {0} /\ Pow[i] \in Nat \ {0}
  BY PowFacts
<1>2. shiftR(x, n) = x \div Pow[n] /\ shiftR(x, n) \in Nat
  BY <1>1 DEF shiftR, Pow
<1>3. ASSUME i + n <= 31 PROVE Bit(shiftR(x, n), i) = Bit(x, i + n)
  <2>1. i + n \in 0 .. 31 /\ n + i = i + n /\ n + i <= 32 /\ n \in 0 .. 32 /\ i \in 0 .. 32
    BY <1>3
  <2>2. Pow[i + n] = Pow[n] * Pow[i]
    <3>1. Pow[n + i] = Pow[n] * Pow[i]
      BY <2>1, PowAdds
    <3> QED BY <2>1, <3>1
  <2>3. (x \div Pow[n]) \div Pow[i] = x \div Pow[i + n]
    <3>1. (x \div Pow[n]) \div Pow[i] = x \div (Pow[n] * Pow[i])
      BY <1>1, DivideTwice
    <3> QED BY <2>2, <3>1
  <2>4. /\ Bit(shiftR(x, n), i) = (shiftR(x, n) \div Pow[i]) % 2
        /\ Bit(x, i + n) = (x \div Pow[i + n]) % 2
    BY <1>2, <2>1, BitFacts
  <2> QED BY <1>2, <2>3, <2>4
<1> QED BY <1>2, <1>3

(* WordOf is a recursive function: that there is one that meets its        *)
(* equation is shown by building it up to each bit.                        *)
SumsUpTo(f, bits, n) ==
  /\ f \in [0 .. n -> Nat] /\ f[0] = 0
  /\ \A k \in 1 .. n : f[k] = f[k - 1] + bits[k - 1] * Pow[k - 1]

(* A sum up to the last bit exists.                                        *)
LEMMA SumsExist ==
  ASSUME NEW bits \in [Bits -> 0 .. 1]
  PROVE  \E f : SumsUpTo(f, bits, Width)
<1> DEFINE S == {n \in 0 .. Width : \E f : SumsUpTo(f, bits, n)}
<1>1. 0 \in S
  <2>1. SumsUpTo([k \in 0 .. 0 |-> 0], bits, 0)
    BY DEF SumsUpTo
  <2> QED BY <2>1, WidthFacts
<1>2. ASSUME NEW n \in 0 .. Width, n \in S, n < Width PROVE n + 1 \in S
  <2>1. PICK f : SumsUpTo(f, bits, n)
    BY <1>2
  <2>2. n \in Bits /\ n \in 0 .. 32 /\ n + 1 \in 0 .. Width
    BY <1>2, WidthFacts DEF Bits
  <2> DEFINE new == f[n] + bits[n] * Pow[n]
             g == [k \in 0 .. n + 1 |-> IF k = n + 1 THEN new ELSE f[k]]
  <2>3. f \in [0 .. n -> Nat] /\ new \in Nat
    <3>1. f \in [0 .. n -> Nat] /\ f[n] \in Nat
      BY <2>1, <2>2 DEF SumsUpTo
    <3>2. bits[n] \in 0 .. 1 /\ Pow[n] \in Nat
      BY <2>2, PowFacts
    <3> QED BY <3>1, <3>2
  <2> HIDE DEF new
  <2>4. g \in [0 .. n + 1 -> Nat] /\ g[n + 1] = new /\ \A k \in 0 .. n : g[k] = f[k]
    BY <2>2, <2>3
  <2> HIDE DEF g
  <2>5. g[0] = 0
    BY <2>1, <2>2, <2>4 DEF SumsUpTo
  <2>6. ASSUME NEW k \in 1 .. n + 1 PROVE g[k] = g[k - 1] + bits[k - 1] * Pow[k - 1]
    <3>1. CASE k = n + 1
      <4>1. k - 1 = n /\ n \in 0 .. n
        BY <2>2, <3>1
      <4> QED BY <2>4, <3>1, <4>1 DEF new
    <3>2. CASE k # n + 1
      <4>1. k \in 1 .. n /\ k \in 0 .. n /\ k - 1 \in 0 .. n
        BY <2>2, <3>2
      <4> QED BY <2>1, <2>4, <4>1 DEF SumsUpTo
    <3> QED BY <3>1, <3>2
  <2>7. SumsUpTo(g, bits, n + 1)
    BY <2>4, <2>5, <2>6 DEF SumsUpTo
  <2> QED BY <2>2, <2>7
<1>3. 0 .. Width \subseteq S
  BY <1>1, <1>2, WidthFacts, CountingUp
<1> QED BY <1>3, WidthFacts

(* WordOf is the value of such a sum.                                      *)
LEMMA WordIsSum ==
  ASSUME NEW bits \in [Bits -> 0 .. 1]
  PROVE  \E f : SumsUpTo(f, bits, Width) /\ WordOf(bits) = f[Width]
<1> DEFINE Step(f) == [n \in 0 .. Width |-> IF n = 0 THEN 0 ELSE f[n - 1] + bits[n - 1] * 2 ^ (n - 1)]
           low == CHOOSE f : f = Step(f)
<1>1. PICK g : SumsUpTo(g, bits, Width)
  BY SumsExist
<1>2. \A n \in 1 .. Width : n - 1 \in Bits /\ n - 1 \in 0 .. Width /\ Pow[n - 1] = 2 ^ (n - 1)
  <2> TAKE n \in 1 .. Width
  <2>1. n - 1 \in Bits /\ n - 1 \in 0 .. Width /\ n - 1 \in 0 .. 32
    BY WidthFacts DEF Bits
  <2> QED BY <2>1, PowIs
<1>3. g = Step(g)
  <2>1. \A n \in 0 .. Width : n = 0 \/ n \in 1 .. Width
    BY WidthFacts
  <2>2. \A n \in 0 .. Width : g[n] = IF n = 0 THEN 0 ELSE g[n - 1] + bits[n - 1] * 2 ^ (n - 1)
    BY <1>1, <1>2, <2>1, Zenon DEF SumsUpTo
  <2>3. g \in [0 .. Width -> Nat]
    BY <1>1 DEF SumsUpTo
  <2> QED BY <2>2, <2>3
<1>4. low = Step(low)
  BY <1>3
<1>5. WordOf(bits) = low[Width]
  BY DEF WordOf
<1> HIDE DEF low
<1>6. \A n \in 0 .. Width : low[n] = IF n = 0 THEN 0 ELSE low[n - 1] + bits[n - 1] * 2 ^ (n - 1)
  BY <1>4
<1> HIDE DEF Step
<1> DEFINE S == {n \in 0 .. Width : low[n] = g[n]}
<1>7. 0 \in S
  <2>1. 0 \in 0 .. Width /\ g[0] = 0
    BY <1>1, WidthFacts DEF SumsUpTo
  <2>2. low[0] = 0
    BY <1>6, <2>1
  <2> QED BY <2>1, <2>2
<1>8. ASSUME NEW n \in 0 .. Width, n \in S, n < Width PROVE n + 1 \in S
  <2>1. n + 1 \in 1 .. Width /\ n + 1 \in 0 .. Width /\ (n + 1) - 1 = n /\ n + 1 # 0 /\ n \in 0 .. 32
    BY <1>8, WidthFacts
  <2>2. low[n + 1] = low[n] + bits[n] * Pow[n]
    <3>1. Pow[n] = 2 ^ n
      BY <2>1, PowIs
    <3>2. low[n + 1] = low[n] + bits[n] * 2 ^ n
      BY <1>6, <2>1, Zenon
    <3> QED BY <3>1, <3>2, Zenon
  <2>3. g[n + 1] = g[n] + bits[n] * Pow[n]
    BY <1>1, <2>1 DEF SumsUpTo
  <2> QED BY <1>8, <2>1, <2>2, <2>3
<1>9. 0 .. Width \subseteq S
  BY <1>7, <1>8, WidthFacts, CountingUp
<1>10. low[Width] = g[Width]
  BY <1>9, WidthFacts
<1> QED BY <1>1, <1>5, <1>10

(* The word of some bits has these bits.                                   *)
LEMMA WordOfBits ==
  ASSUME NEW bits \in [Bits -> 0 .. 1]
  PROVE  WordOf(bits) \in Word /\ \A i \in Bits : Bit(WordOf(bits), i) = bits[i]
<1>1. PICK f : SumsUpTo(f, bits, Width) /\ WordOf(bits) = f[Width]
  BY WordIsSum
<1>2. /\ f \in [0 .. Width -> Nat] /\ f[0] = 0
      /\ \A n \in 0 .. Width - 1 : f[n + 1] = f[n] + bits[n] * Pow[n]
  <2>1. \A n \in 0 .. Width - 1 : n + 1 \in 1 .. Width /\ (n + 1) - 1 = n
    BY WidthFacts
  <2> QED BY <1>1, <2>1 DEF SumsUpTo
<1>3. \A n \in Bits : bits[n] \in 0 .. 1 /\ Pow[n] \in Nat \ {0} /\ Pow[n + 1] = 2 * Pow[n] /\ f[n] \in Nat
  <2> TAKE n \in Bits
  <2>1. n \in 0 .. 31 /\ n \in 0 .. 32 /\ n \in 0 .. Width
    BY WidthFacts DEF Bits
  <2> QED BY <1>2, <2>1, PowFacts
<1> DEFINE S == {n \in 0 .. Width : f[n] < Pow[n]}
<1>4. 0 \in S
  BY <1>2, WidthFacts, PowFacts
<1>5. ASSUME NEW n \in 0 .. Width, n \in S, n < Width PROVE n + 1 \in S
  <2>1. n \in Bits /\ n \in 0 .. Width - 1 /\ n + 1 \in 0 .. Width
    BY <1>5, WidthFacts DEF Bits
  <2>2. bits[n] \in 0 .. 1 /\ Pow[n] \in Nat \ {0} /\ Pow[n + 1] = 2 * Pow[n] /\ f[n] \in Nat
        /\ f[n + 1] = f[n] + bits[n] * Pow[n]
    BY <1>2, <1>3, <2>1
  <2>3. bits[n] * Pow[n] <= Pow[n]
    BY <2>2
  <2> QED BY <1>5, <2>1, <2>2, <2>3
<1>6. \A n \in 0 .. Width : f[n] < Pow[n] /\ f[n] \in Nat
  <2>1. 0 .. Width \subseteq S
    BY <1>4, <1>5, WidthFacts, CountingUp
  <2> QED BY <1>2, <2>1
<1>7. WordOf(bits) \in Word
  BY <1>1, <1>6, WidthFacts
<1>8. ASSUME NEW i \in Bits PROVE Bit(WordOf(bits), i) = bits[i]
  <2> DEFINE T == {n \in 0 .. Width - (i + 1) : f[i + 1 + n] % Pow[i + 1] = f[i + 1]}
  <2>1. /\ i \in 0 .. 31 /\ i + 1 \in 0 .. Width /\ i \in 0 .. Width /\ i \in 0 .. Width - 1
        /\ i + 1 \in 0 .. 32 /\ Width - (i + 1) \in Nat
    BY WidthFacts DEF Bits
  <2>2. Pow[i + 1] \in Nat \ {0} /\ f[i + 1] \in Nat /\ f[i + 1] < Pow[i + 1]
    BY <1>6, <2>1, PowFacts
  <2>3. 0 \in T
    BY <2>1, <2>2
  <2>4. ASSUME NEW n \in 0 .. Width - (i + 1), n \in T, n < Width - (i + 1) PROVE n + 1 \in T
    <3> DEFINE m == i + 1 + n
    <3>1. /\ m \in Bits /\ m \in 0 .. Width - 1 /\ m \in 0 .. Width /\ m \in 0 .. 32 /\ i + 1 <= m
          /\ m + 1 = i + 1 + (n + 1) /\ m - (i + 1) \in 0 .. 32 /\ n + 1 \in 0 .. Width - (i + 1)
      BY <2>1, <2>4, WidthFacts DEF Bits
    <3>2. f[m] % Pow[i + 1] = f[i + 1]
      BY <2>4
    <3> HIDE DEF m
    <3>3. Pow[m] = Pow[i + 1] * Pow[m - (i + 1)] /\ Pow[m - (i + 1)] \in Nat
      BY <2>1, <3>1, PowSplits, PowFacts
    <3> DEFINE t == bits[m] * Pow[m - (i + 1)]
    <3>4. bits[m] * Pow[m] = t * Pow[i + 1] /\ t \in Nat
      <4>1. bits[m] \in Nat
        BY <1>3, <3>1
      <4>2. \A a \in Nat, b \in Nat, c \in Nat : a * (b * c) = (a * c) * b
        OBVIOUS
      <4> QED BY <2>2, <3>3, <4>1, <4>2
    <3> HIDE DEF t
    <3>5. f[m + 1] = f[m] + t * Pow[i + 1] /\ f[m] \in Nat
      BY <1>2, <1>6, <3>1, <3>4
    <3>6. f[m + 1] % Pow[i + 1] = f[m] % Pow[i + 1]
      <4>1. (f[m] + t * Pow[i + 1]) % Pow[i + 1] = f[m] % Pow[i + 1]
        BY <2>2, <3>4, <3>5, AddMultiple
      <4> QED BY <3>5, <4>1
    <3> QED BY <3>1, <3>2, <3>6
  <2>5. 0 .. Width - (i + 1) \subseteq T
    BY <2>1, <2>3, <2>4, CountingUp
  <2>6. f[Width] % Pow[i + 1] = f[i + 1]
    <3>1. Width - (i + 1) \in 0 .. Width - (i + 1) /\ i + 1 + (Width - (i + 1)) = Width
      BY <2>1, WidthFacts
    <3>2. f[i + 1 + (Width - (i + 1))] % Pow[i + 1] = f[i + 1]
      BY <2>5, <3>1
    <3> QED BY <3>1, <3>2
  <2>7. f[i + 1] = bits[i] * Pow[i] + f[i] /\ f[i] < Pow[i] /\ f[i] \in Nat
        /\ bits[i] \in 0 .. 1 /\ Pow[i] \in Nat \ {0}
    BY <1>2, <1>3, <1>6, <2>1
  <2>8. f[i + 1] \div Pow[i] = bits[i]
    BY <2>7, Division
  <2>9. Bit(f[Width], i) = (f[Width] % Pow[i + 1]) \div Pow[i]
    <3>1. f[Width] \in Nat
      BY <1>6, WidthFacts
    <3> QED BY <2>1, <3>1, BitFacts
  <2> QED BY <1>1, <2>6, <2>8, <2>9
<1> QED BY <1>7, <1>8

(* A bit of a disjunction is set if it is set in either number.            *)
LEMMA OrBits ==
  ASSUME NEW x \in Nat, NEW y \in Nat
  PROVE  x | y \in Word /\ \A i \in Bits : Bit(x | y, i) = IF Bit(x, i) = 1 THEN 1 ELSE Bit(y, i)
<1> DEFINE b == [i \in Bits |-> IF Bit(x, i) = 1 THEN 1 ELSE Bit(y, i)]
<1>1. b \in [Bits -> 0 .. 1]
  <2>1. \A i \in Bits : Bit(x, i) \in 0 .. 1 /\ Bit(y, i) \in 0 .. 1
    BY BitFacts, WidthFacts
  <2>2. 1 \in 0 .. 1
    OBVIOUS
  <2> QED BY <2>1, <2>2
<1>2. (x | y) = WordOf(b)
  BY DEF |, Bits
<1> QED BY <1>1, <1>2, WordOfBits

(* A bit of a conjunction is the product of the bits.                      *)
LEMMA AndBits ==
  ASSUME NEW x \in Nat, NEW y \in Nat
  PROVE  x & y \in Word /\ \A i \in Bits : Bit(x & y, i) = Bit(x, i) * Bit(y, i)
<1> DEFINE b == [i \in Bits |-> Bit(x, i) * Bit(y, i)]
<1>1. b \in [Bits -> 0 .. 1]
  <2>1. \A i \in Bits : Bit(x, i) \in 0 .. 1 /\ Bit(y, i) \in 0 .. 1
    BY BitFacts, WidthFacts
  <2>2. \A u, v \in 0 .. 1 : u * v \in 0 .. 1
    OBVIOUS
  <2> QED BY <2>1, <2>2
<1>2. (x & y) = WordOf(b)
  BY DEF &, Bits
<1> QED BY <1>1, <1>2, WordOfBits

(* All bits below k.                                                       *)
LEMMA MaskBits ==
  ASSUME NEW k \in 0 .. Width, NEW i \in Bits
  PROVE  /\ Pow[k] - 1 \in Word
         /\ Bit(Pow[k] - 1, i) = IF i < k THEN 1 ELSE 0
<1>1. /\ k \in 0 .. 32 /\ i \in 0 .. 31 /\ i \in 0 .. 32 /\ Pow[k] \in Nat \ {0}
      /\ Pow[i] \in Nat \ {0} /\ Pow[Width] \in Nat \ {0} /\ Width \in 0 .. 32
      /\ Pow[k] <= Pow[Width]
  <2>1. k \in 0 .. 32 /\ Pow[k] \in Nat \ {0} /\ Pow[k] <= Pow[Width]
    BY Exponent
  <2>2. i \in 0 .. 31 /\ i \in 0 .. 32 /\ Pow[i] \in Nat \ {0}
    BY BitNumber
  <2> QED BY <2>1, <2>2, WidthFacts
<1>2. Pow[k] - 1 \in Word
  BY <1>1, WidthFacts
<1>3. ASSUME k <= i PROVE Bit(Pow[k] - 1, i) = 0
  <2>1. Pow[k] - 1 \in 0 .. Pow[k] - 1
    BY <1>1
  <2> QED BY <1>1, <1>3, <2>1, HighBits
<1>4. ASSUME i < k PROVE Bit(Pow[k] - 1, i) = 1
  <2>1. k - i \in 0 .. 32 /\ k - i - 1 \in 0 .. 31 /\ (k - i - 1) + 1 = k - i
    BY <1>1, <1>4
  <2>2. Pow[k] = Pow[i] * Pow[k - i]
    <3>1. i <= k
      BY <1>1, <1>4
    <3> QED BY <1>1, <3>1, PowSplits
  <2>3. Pow[k - i] = 2 * Pow[k - i - 1] /\ Pow[k - i - 1] \in Nat \ {0}
    BY <2>1, PowFacts
  <2> DEFINE half == Pow[k - i - 1]
             q == half + (half - 1)
  <2>4. q \in Nat /\ Pow[k - i] = q + 1 /\ q % 2 = 1
    <3>1. half \in Nat \ {0} /\ Pow[k - i] = 2 * half
      BY <2>3
    <3> HIDE DEF half
    <3>2. q = (half - 1) * 2 + 1 /\ half - 1 \in Nat
      BY <3>1
    <3>3. ((half - 1) * 2 + 1) % 2 = 1
      BY <3>2, Division
    <3> QED BY <3>1, <3>2, <3>3
  <2> HIDE DEF q
  <2>5. Pow[k] - 1 = q * Pow[i] + (Pow[i] - 1)
    <3>1. Pow[k] = Pow[i] * (q + 1)
      BY <2>2, <2>4
    <3> DEFINE p == Pow[i]
    <3>2. p \in Nat \ {0} /\ Pow[k] = p * (q + 1)
      BY <1>1, <3>1
    <3> HIDE DEF p
    <3>3. p * (q + 1) - 1 = q * p + (p - 1)
      BY <2>4, <3>2
    <3>4. Pow[k] - 1 = q * p + (p - 1)
      BY <3>2, <3>3
    <3> QED BY <3>4 DEF p
  <2>6. (q * Pow[i] + (Pow[i] - 1)) \div Pow[i] = q
    <3> DEFINE p == Pow[i]
    <3>1. p \in Nat \ {0}
      BY <1>1
    <3> HIDE DEF p
    <3>2. p - 1 \in Nat /\ p - 1 < p
      BY <3>1
    <3>3. (q * p + (p - 1)) \div p = q
      BY <2>4, <3>1, <3>2, Division
    <3> QED BY <3>3 DEF p
  <2>7. Pow[k] - 1 \in Nat
    BY <1>1
  <2>8. Bit(Pow[k] - 1, i) = ((Pow[k] - 1) \div Pow[i]) % 2
    BY <1>1, <2>7, BitFacts
  <2> QED BY <2>4, <2>5, <2>6, <2>8
<1> QED BY <1>1, <1>2, <1>3, <1>4

(* To mask with a power of two less one is to take the remainder.          *)
LEMMA Masked ==
  ASSUME NEW x \in Nat, NEW k \in 0 .. Width
  PROVE  x & (Pow[k] - 1) = x % Pow[k]
<1> DEFINE mask == Pow[k] - 1
           r == x % Pow[k]
<1>1. k \in 0 .. 32 /\ Pow[k] \in Nat \ {0} /\ mask \in Nat /\ Pow[k] <= Pow[Width]
  BY Exponent
<1>2. r \in Nat /\ r < Pow[k] /\ r \in 0 .. Pow[k] - 1
  BY <1>1, Divided
<1>3. r \in Word
  BY <1>1, <1>2, WidthFacts
<1>4. x & mask \in Word /\ \A i \in Bits : Bit(x & mask, i) = Bit(x, i) * Bit(mask, i)
  BY <1>1, AndBits
<1>5. ASSUME NEW i \in Bits PROVE Bit(x & mask, i) = Bit(r, i)
  <2>1. i \in 0 .. 31 /\ Bit(x, i) \in 0 .. 1 /\ Bit(mask, i) = IF i < k THEN 1 ELSE 0
    BY MaskBits, BitFacts, WidthFacts
  <2>2. CASE i < k
    <3>1. i \in 0 .. k - 1
      BY <2>1, <2>2, <1>1
    <3>2. Bit(r, i) = Bit(x, i)
      BY <1>1, <3>1, LowBits
    <3>3. Bit(x, i) * 1 = Bit(x, i)
      BY <2>1
    <3> QED BY <1>4, <2>1, <2>2, <3>2, <3>3
  <2>3. CASE k <= i
    <3>1. Bit(r, i) = 0
      BY <1>1, <1>2, <2>1, <2>3, HighBits
    <3>2. Bit(x, i) * 0 = 0 /\ ~(i < k)
      BY <1>1, <2>1, <2>3
    <3> QED BY <1>4, <2>1, <3>1, <3>2
  <2> QED BY <1>1, <2>1, <2>2, <2>3
<1> HIDE DEF mask, r
<1>6. (x & mask) = r
  BY <1>3, <1>4, <1>5, WordBits
<1> QED BY <1>6 DEF mask, r

-----------------------------------------------------------------------------
(* Rounding up.  Each line of roundUpPower2 doubles the run of ones that   *)
(* starts at the highest bit.                                              *)

Filled(y, k, m) ==
  /\ y \in Word
  /\ \A i \in Bits : /\ k < i => Bit(y, i) = 0
                     /\ k - m < i /\ i <= k => Bit(y, i) = 1

(* Bits that are shifted in from beyond the word are zero.                 *)
LEMMA ShiftedIn ==
  ASSUME NEW y \in Word, NEW n \in 0 .. 31, NEW i \in 0 .. 31, i + n >= Width
  PROVE  Bit(shiftR(y, n), i) = 0
<1>1. /\ y \in Nat /\ y < Pow[Width] /\ Pow[Width] \in Nat /\ Width \in 0 .. 32
      /\ Pow[n] \in Nat \ {0} /\ Pow[i] \in Nat \ {0}
  <2>1. Pow[n] \in Nat \ {0} /\ Pow[i] \in Nat \ {0}
    BY PowFacts
  <2> QED BY <2>1, WidthFacts
<1>2. Pow[Width] <= Pow[n] * Pow[i]
  <2> DEFINE j == Width - n
  <2>1. CASE n <= Width
    <3>1. j \in 0 .. 32 /\ (j < i \/ j = i) /\ i \in 0 .. 32 /\ n \in 0 .. 32
      BY <1>1, <2>1
    <3>2. Pow[j] \in Nat /\ Pow[j] <= Pow[i]
      <4>1. j < i => Pow[j] < Pow[i]
        BY <3>1, PowGrows
      <4>2. Pow[j] \in Nat
        BY <3>1, PowFacts
      <4> HIDE DEF j
      <4> QED BY <1>1, <3>1, <4>1, <4>2
    <3>3. Pow[Width] = Pow[n] * Pow[j]
      BY <1>1, <2>1, <3>1, PowSplits
    <3> HIDE DEF j
    <3>4. Pow[n] * Pow[j] <= Pow[n] * Pow[i]
      BY <1>1, <3>2
    <3> QED BY <3>3, <3>4
  <2>2. CASE Width < n
    <3>1. Pow[Width] < Pow[n]
      <4>1. Width \in 0 .. 32 /\ n \in 0 .. 32
        BY <1>1
      <4> QED BY <2>2, <4>1, PowGrows
    <3>2. Pow[n] <= Pow[n] * Pow[i]
      BY <1>1
    <3> QED BY <1>1, <3>1, <3>2
  <2> QED BY <1>1, <2>1, <2>2
<1>3. (y \div Pow[n]) \div Pow[i] = 0
  <2>1. (y \div Pow[n]) \div Pow[i] = y \div (Pow[n] * Pow[i])
    BY <1>1, DivideTwice
  <2>2. \A p \in Nat : y < p => y \div p = 0
    BY <1>1
  <2>3. Pow[n] * Pow[i] \in Nat /\ y < Pow[n] * Pow[i]
    BY <1>1, <1>2
  <2> QED BY <2>1, <2>2, <2>3
<1>4. shiftR(y, n) = y \div Pow[n] /\ shiftR(y, n) \in Nat
  BY <1>1, ShiftedBits
<1>5. Bit(shiftR(y, n), i) = ((y \div Pow[n]) \div Pow[i]) % 2
  BY <1>4, BitFacts
<1> QED BY <1>3, <1>5

(* A line that shifts by the length of the run of ones doubles it.         *)
LEMMA SmearFills ==
  ASSUME NEW y, NEW k \in Bits, NEW m \in 1 .. 16, Filled(y, k, m)
  PROVE  Filled(Smear(y, m), k, m + m)
<1>1. /\ y \in Nat /\ y \in Word /\ m \in 0 .. 31 /\ shiftR(y, m) \in Nat
      /\ Bits \subseteq 0 .. 31 /\ Width \in Nat /\ Width <= 32
  <2>1. y \in Nat /\ y \in Word /\ m \in 0 .. 31
    BY WidthFacts DEF Filled
  <2>2. 0 \in 0 .. 31
    OBVIOUS
  <2>3. shiftR(y, m) \in Nat
    BY <2>1, <2>2, ShiftedBits
  <2> QED BY <2>1, <2>3, WidthFacts
<1>2. /\ Smear(y, m) \in Word
      /\ \A i \in Bits : Bit(Smear(y, m), i) = IF Bit(y, i) = 1 THEN 1 ELSE Bit(shiftR(y, m), i)
  BY <1>1, OrBits DEF Smear
<1>3. ASSUME NEW i \in Bits, k < i PROVE Bit(Smear(y, m), i) = 0
  <2>1. i \in 0 .. 31 /\ Bit(y, i) = 0
    BY <1>1, <1>3 DEF Filled
  <2>2. CASE i + m < Width
    <3>1. i + m \in Bits /\ k < i + m /\ i + m <= 31
      BY <1>1, <1>3, <2>1, <2>2 DEF Bits
    <3>2. Bit(shiftR(y, m), i) = Bit(y, i + m)
      <4>1. y \in Nat /\ m \in 0 .. 31 /\ i \in 0 .. 31 /\ i + m <= 31
        BY <1>1, <2>1, <3>1
      <4> QED BY <4>1, ShiftedBits
    <3>3. Bit(y, i + m) = 0
      BY <3>1 DEF Filled
    <3> QED BY <1>2, <2>1, <3>2, <3>3
  <2>3. CASE i + m >= Width
    <3>1. Bit(shiftR(y, m), i) = 0
      BY <1>1, <2>1, <2>3, ShiftedIn
    <3> QED BY <1>2, <2>1, <3>1
  <2> QED BY <1>1, <2>1, <2>2, <2>3
<1>4. ASSUME NEW i \in Bits, k - (m + m) < i, i <= k PROVE Bit(Smear(y, m), i) = 1
  <2>1. i \in 0 .. 31 /\ k \in 0 .. 31
    BY <1>1
  <2>2. CASE k - m < i
    <3>1. Bit(y, i) = 1
      BY <1>4, <2>2 DEF Filled
    <3> QED BY <1>2, <3>1
  <2>3. CASE i <= k - m
    <3>1. i + m \in Bits /\ k - m < i + m /\ i + m <= k /\ i + m <= 31
      <4>1. k \in 0 .. Width - 1
        BY DEF Bits
      <4> QED BY <1>1, <1>4, <2>1, <2>3, <4>1 DEF Bits
    <3>2. Bit(shiftR(y, m), i) = Bit(y, i + m)
      <4>1. y \in Nat /\ m \in 0 .. 31 /\ i \in 0 .. 31 /\ i + m <= 31
        BY <1>1, <2>1, <3>1
      <4> QED BY <4>1, ShiftedBits
    <3>3. Bit(y, i + m) = 1
      BY <3>1 DEF Filled
    <3> QED BY <1>2, <3>2, <3>3
  <2> QED BY <2>1, <2>2, <2>3
<1> QED BY <1>2, <1>3, <1>4 DEF Filled

(* The least power, as Min defines it.                                     *)
LEMMA LeastPowerIs ==
  ASSUME NEW n \in 1 .. Pow[Width - 1]
  PROVE  /\ LeastPower(n) \in Bits /\ n <= Pow[LeastPower(n)]
         /\ \A i \in Bits : n <= Pow[i] => LeastPower(n) <= i
<1> DEFINE S == {i \in 0 .. Width - 1 : 2 ^ i >= n}
<1>1. Width - 1 \in Bits /\ Bits \subseteq 0 .. 32 /\ Pow[Width - 1] \in Nat
  <2>1. Width - 1 \in Bits /\ Bits \subseteq 0 .. 32
    BY WidthFacts DEF Bits
  <2>2. Pow[Width - 1] \in Nat
    BY <2>1, BitNumber
  <2> QED BY <2>1, <2>2
<1>2. S = {i \in Bits : n <= Pow[i]}
  <2>1. \A i \in Bits : Pow[i] = 2 ^ i /\ Pow[i] \in Nat
    BY <1>1, PowIs, PowFacts
  <2>2. \A i \in Bits : 2 ^ i >= n <=> n <= Pow[i]
    BY <2>1
  <2> QED BY <2>2 DEF Bits
<1>3. S \in SUBSET Nat /\ Width - 1 \in S
  <2>1. n <= Pow[Width - 1]
    BY <1>1
  <2> QED BY <1>1, <1>2, <2>1
<1>4. Min(S) \in S /\ \A i \in S : Min(S) <= i
  BY <1>3, MinIn
<1>5. LeastPower(n) = Min(S)
  BY DEF LeastPower
<1> HIDE DEF S
<1> QED BY <1>2, <1>4, <1>5

(* What the five lines compute.                                            *)
Smeared(y) == Smear(Smear(Smear(Smear(Smear(y, 1), 2), 4), 8), 16)

(* They fill every bit below the highest one.                              *)
LEMMA SmearedIs ==
  ASSUME NEW k \in Bits, NEW y \in Nat, Pow[k] <= y, y < Pow[k + 1]
  PROVE  Smeared(y) = Pow[k + 1] - 1
<1>1. /\ k \in 0 .. 31 /\ k + 1 \in 0 .. Width /\ k + 1 \in 0 .. 32 /\ Pow[k] \in Nat \ {0}
      /\ Pow[k + 1] = 2 * Pow[k] /\ Bits \subseteq 0 .. 31 /\ Width \in Nat
  <2>1. /\ k \in 0 .. 31 /\ k + 1 \in 0 .. Width /\ Pow[k] \in Nat \ {0}
        /\ Pow[k + 1] = 2 * Pow[k]
    BY BitNumber
  <2> QED BY <2>1, WidthFacts
<1>2. Filled(y, k, 1)
  <2>1. y \in Word
    <3>1. Pow[k + 1] - 1 \in Word
      BY <1>1, MaskBits
    <3> QED BY <1>1, <3>1, WidthFacts
  <2>2. ASSUME NEW i \in Bits, k < i PROVE Bit(y, i) = 0
    <3>1. y \in 0 .. Pow[k + 1] - 1 /\ k + 1 <= i /\ i \in 0 .. 31
      BY <1>1, <2>2
    <3> QED BY <1>1, <3>1, HighBits
  <2>3. Bit(y, k) = 1
    <3>1. y = 1 * Pow[k] + (y - Pow[k]) /\ y - Pow[k] \in Nat /\ y - Pow[k] < Pow[k]
      BY <1>1
    <3>2. y \div Pow[k] = 1
      BY <1>1, <3>1, Division
    <3> QED BY <1>1, <3>2, BitFacts
  <2>4. \A i \in Bits : k - 1 < i /\ i <= k => i = k
    BY <1>1
  <2> QED BY <2>1, <2>2, <2>3, <2>4 DEF Filled
<1>3. Filled(Smear(y, 1), k, 2)
  BY <1>2, SmearFills
<1>4. Filled(Smear(Smear(y, 1), 2), k, 4)
  BY <1>3, SmearFills
<1>5. Filled(Smear(Smear(Smear(y, 1), 2), 4), k, 8)
  BY <1>4, SmearFills
<1>6. Filled(Smear(Smear(Smear(Smear(y, 1), 2), 4), 8), k, 16)
  BY <1>5, SmearFills
<1>7. Filled(Smeared(y), k, 32)
  BY <1>6, SmearFills DEF Smeared
<1>8. ASSUME NEW i \in Bits PROVE Bit(Smeared(y), i) = Bit(Pow[k + 1] - 1, i)
  <2>1. Bit(Pow[k + 1] - 1, i) = IF i < k + 1 THEN 1 ELSE 0
    BY <1>1, MaskBits
  <2>2. i \in 0 .. 31
    BY <1>1
  <2>3. CASE i <= k
    <3>1. k - 32 < i /\ i < k + 1
      BY <1>1, <2>2, <2>3
    <3> QED BY <1>7, <2>1, <2>3, <3>1 DEF Filled
  <2>4. CASE k < i
    <3>1. ~(i < k + 1)
      BY <1>1, <2>2, <2>4
    <3> QED BY <1>7, <2>1, <2>4, <3>1 DEF Filled
  <2> QED BY <1>1, <2>2, <2>3, <2>4
<1>9. Smeared(y) \in Word /\ Pow[k + 1] - 1 \in Word
  BY <1>1, <1>7, MaskBits DEF Filled
<1> QED BY <1>8, <1>9, WordBits

(* Nothing is filled in zero.                                              *)
LEMMA SmearedZero == Smeared(0) = 0
<1>1. \A i \in Bits : Bit(0, i) = 0 /\ i \in 0 .. 31
  <2> TAKE i \in Bits
  <2>1. i \in 0 .. 31 /\ 0 \in 0 .. 32 /\ 0 \in 0 .. Pow[0] - 1 /\ 0 <= i
    <3>1. i \in 0 .. 31
      BY BitNumber
    <3>2. Pow[0] - 1 = 0
      BY PowFacts
    <3> QED BY <3>1, <3>2
  <2> QED BY <2>1, HighBits
<1>2. 0 \in Word /\ 0 \in Nat
  BY WidthFacts
<1>3. ASSUME NEW m \in 1 .. 16 PROVE Smear(0, m) = 0
  <2>1. shiftR(0, m) = 0
    <3>1. m \in 0 .. 31 /\ 0 \in 0 .. 31 /\ Pow[m] \in Nat \ {0}
      BY PowFacts
    <3>2. shiftR(0, m) = 0 \div Pow[m]
      BY <3>1, ShiftedBits
    <3>3. \A p \in Nat \ {0} : 0 \div p = 0
      OBVIOUS
    <3> QED BY <3>1, <3>2, <3>3
  <2>2. Smear(0, m) \in Word /\ \A i \in Bits : Bit(Smear(0, m), i) = 0
    BY <1>1, <1>2, <2>1, OrBits DEF Smear
  <2> QED BY <1>1, <1>2, <2>2, WordBits
<1>4. Smear(0, 1) = 0 /\ Smear(0, 2) = 0 /\ Smear(0, 4) = 0 /\ Smear(0, 8) = 0 /\ Smear(0, 16) = 0
  BY <1>3
<1> QED BY <1>4 DEF Smeared

(* roundUpPower2 and log2i, for every number that has a power above it.    *)
LEMMA RoundsUp ==
  ASSUME NEW n \in 1 .. Pow[Width - 1]
  PROVE  RoundUpPower2(n) = Pow[LeastPower(n)] /\ Log2i(n) = LeastPower(n)
<1> DEFINE j == LeastPower(n)
<1>1. j \in Bits /\ n <= Pow[j] /\ \A i \in Bits : n <= Pow[i] => j <= i
  BY LeastPowerIs
<1> HIDE DEF j
<1>2. /\ j \in 0 .. 32 /\ Width \in 0 .. 32 /\ j < Width /\ Width - 1 \in 0 .. 32 /\ 0 \in Bits
      /\ Pow[Width - 1] \in Nat /\ Pow[Width] \in Nat \ {0} /\ Pow[j] \in Nat \ {0} /\ Pow[0] = 1
      /\ Bits \subseteq 0 .. 31 /\ Width - 1 \in Bits
  <2>1. Width \in 0 .. 32 /\ Width - 1 \in Bits /\ 0 \in Bits /\ Bits \subseteq 0 .. 31 /\ Width - 1 \in 0 .. 32
    BY WidthFacts DEF Bits
  <2>2. Pow[0] = 1 /\ Pow[Width] \in Nat \ {0}
    BY PowFacts, WidthFacts
  <2>3. Pow[Width - 1] \in Nat
    BY <2>1, BitNumber
  <2>4. j \in 0 .. 32 /\ j < Width /\ Pow[j] \in Nat \ {0}
    BY <1>1, BitNumber
  <2> QED BY <2>1, <2>2, <2>3, <2>4
<1>3. Pow[Width - 1] < Pow[Width] /\ Pow[j] < Pow[Width]
  <2>1. j \in 0 .. Width /\ Width - 1 \in 0 .. Width /\ Width - 1 < Width
    BY <1>2
  <2> QED BY <1>2, <2>1, Exponent
<1>4. n - 1 \in Nat /\ n - 1 < Pow[Width]
  BY <1>2, <1>3
<1>5. Wrap(n - 1) = n - 1 /\ \A x \in 0 .. Pow[Width] - 1 : Wrap(x) = x
  <2>1. 2 ^ Width = Pow[Width]
    BY <1>2, PowIs
  <2>2. \A x : Wrap(x) = x % Pow[Width]
    BY <2>1, Zenon DEF Wrap
  <2>3. \A x \in 0 .. Pow[Width] - 1 : x % Pow[Width] = x
    BY <1>2
  <2> QED BY <1>2, <1>4, <2>2, <2>3
<1>6. Smeared(n - 1) = Pow[j] - 1
  <2>1. CASE n = 1
    <3>1. j = 0
      BY <1>1, <1>2, <2>1
    <3> QED BY <1>2, <2>1, <3>1, SmearedZero
  <2>2. CASE n # 1
    <3>1. j # 0
      BY <1>1, <1>2, <2>2
    <3> DEFINE k == j - 1
    <3>2. k \in Bits /\ k + 1 = j /\ Pow[k] \in Nat
      <4>1. k \in Bits /\ k + 1 = j
        BY <1>1, <1>2, <3>1 DEF Bits
      <4>2. Pow[k] \in Nat
        BY <4>1, BitNumber
      <4> QED BY <4>1, <4>2
    <3>3. ~(n <= Pow[k])
      BY <1>1, <1>2, <3>2
    <3> HIDE DEF k
    <3>4. Pow[k] <= n - 1 /\ n - 1 < Pow[k + 1]
      BY <1>1, <1>2, <3>2, <3>3
    <3> QED BY <1>4, <3>2, <3>4, SmearedIs
  <2> QED BY <2>1, <2>2
<1>7. RoundUpPower2(n) = Pow[j]
  <2>1. RoundUpPower2(n) = Wrap(Smeared(n - 1) + 1)
    BY <1>5 DEF RoundUpPower2, Smeared
  <2>2. (Pow[j] - 1) + 1 = Pow[j] /\ Pow[j] \in 0 .. Pow[Width] - 1
    BY <1>2, <1>3
  <2> QED BY <1>5, <1>6, <2>1, <2>2
<1>8. Log2i(n) = j
  <2>1. CASE n = 1
    <3>1. j = 0
      BY <1>1, <1>2, <2>1
    <3> QED BY <2>1, <3>1 DEF Log2i
  <2>2. CASE n # 1
    <3> DEFINE S == {i \in 0 .. Width - 1 : 2 ^ i >= Pow[j]}
    <3>1. Log2i(n) = Min(S)
      BY <1>7, <2>2 DEF Log2i
    <3>2. \A i \in Bits : (2 ^ i >= Pow[j]) <=> Pow[i] >= Pow[j]
      <4>1. \A i \in Bits : 2 ^ i = Pow[i]
        <5>1. \A i \in Bits : i \in 0 .. 32
          BY <1>2
        <5> QED BY <5>1, PowIs
      <4> QED BY <4>1, Zenon
    <3>3. j \in S /\ S \in SUBSET Nat
      BY <1>1, <1>2, <3>2 DEF Bits
    <3>4. ASSUME NEW i \in S PROVE j <= i
      <4>1. i \in Bits /\ i \in 0 .. 32 /\ Pow[i] \in Nat /\ Pow[i] >= Pow[j]
        <5>1. i \in Bits /\ 2 ^ i >= Pow[j]
          BY DEF Bits
        <5>2. i \in 0 .. 32 /\ Pow[i] \in Nat
          BY <5>1, BitNumber
        <5> QED BY <3>2, <5>1, <5>2
      <4>2. i < j => Pow[i] < Pow[j]
        BY <1>2, <4>1, PowGrows
      <4> QED BY <1>2, <4>1, <4>2
    <3>5. Min(S) \in S /\ \A i \in S : Min(S) <= i
      BY <3>3, MinIn
    <3>6. Min(S) \in Nat
      BY <3>3, <3>5
    <3> QED BY <1>2, <3>1, <3>3, <3>4, <3>5, <3>6
  <2> QED BY <2>1, <2>2
<1> QED BY <1>7, <1>8 DEF j

-----------------------------------------------------------------------------
(* What main builds from the command line kn: every container is one of    *)
(* these at every moment.                                                  *)

LevelFactor(kn) == Log2i(kn.numcaches) * 4

PrivateCache(kn, i, parent) == NewCache(i - 1, parent, kn.csize, kn.assoc, kn.bsize)
PrivateCaches(kn, n, parent) == [i \in 1 .. n |-> PrivateCache(kn, i, parent)]
SharedCache(kn, parent) ==
  NewCache(LLC, parent, LevelFactor(kn) * kn.csize, LevelFactor(kn) * kn.assoc, kn.bsize)
MainMemory(kn) == NewCache(Main, NULL, kn.csize * 64, kn.assoc * 64, kn.bsize)

Growing(kn, n) ==
  [privateCaches |-> PrivateCaches(kn, n, UNSET), llc |-> <<>>, main |-> <<>>,
   llc_memory |-> UNSET, main_memory |-> UNSET]
Shared(kn) ==
  [privateCaches |-> PrivateCaches(kn, kn.numcaches, LLC), llc |-> <<SharedCache(kn, UNSET)>>,
   main |-> <<>>, llc_memory |-> LLC, main_memory |-> UNSET]
Whole(kn) ==
  [privateCaches |-> PrivateCaches(kn, kn.numcaches, LLC), llc |-> <<SharedCache(kn, Main)>>,
   main |-> <<MainMemory(kn)>>, llc_memory |-> LLC, main_memory |-> Main]

AllGrowing(kn) == {Growing(kn, n) : n \in 0 .. kn.numcaches}
Containers(kn) == AllGrowing(kn) \cup {c \in {Shared(kn), Whole(kn)} : LevelFactor(kn) # 0}

(* The inductive invariant: only while main is between two create calls    *)
(* does it matter which shape the latest container has.                    *)
ConstructionInv ==
  /\ pc \in {"open", "private", "main", "reference", "running", "exited", "crashed",
            "calledNull"}
  /\ knobs \in KnobValues
  /\ Caches \in Seq(Containers(knobs)) /\ Len(Caches) <= Protocols
  /\ pc = "private" => Caches # <<>> /\ Latest \in AllGrowing(knobs)
  /\ pc = "main" => Caches # <<>> /\ Latest = Shared(knobs) /\ LevelFactor(knobs) # 0
  /\ ref \in {<<>>} \cup {<<c>> : c \in AllGrowing(knobs)}
  /\ pc = "reference" => ref # <<>>
  /\ pc = "crashed" => LevelFactor(knobs) = 0

(* The command line names one to sixteen caches.                           *)
LEMMA KnobFacts ==
  ASSUME NEW kn \in KnobValues
  PROVE  /\ kn.numcaches \in 1 .. 16 /\ kn.numcaches \in CacheCounts
         /\ kn.csize \in Nat \ {0} /\ kn.csize \in CacheSizes
         /\ kn.assoc \in Nat \ {0} /\ kn.assoc \in Assocs
         /\ kn.bsize \in Nat \ {0} /\ kn.bsize \in BlockSizes
BY KnobsAssumption DEF KnobValues

(* The private caches are a sequence, whose members are told apart.        *)
LEMMA PrivateCachesAre ==
  ASSUME NEW kn \in KnobValues, NEW n \in 0 .. kn.numcaches, NEW p
  PROVE  /\ Len(PrivateCaches(kn, n, p)) = n /\ DOMAIN PrivateCaches(kn, n, p) = 1 .. n
         /\ \A i \in 1 .. n : PrivateCaches(kn, n, p)[i] = PrivateCache(kn, i, p)
<1>1. n \in Nat
  BY KnobFacts
<1> QED BY <1>1 DEF PrivateCaches

(* A container begins with no cache.                                       *)
LEMMA StartsEmpty ==
  ASSUME NEW kn \in KnobValues
  PROVE  NewContainer = Growing(kn, 0) /\ Growing(kn, 0) \in AllGrowing(kn)
<1>1. PrivateCaches(kn, 0, UNSET) = <<>>
  BY DEF PrivateCaches
<1>2. 0 \in 0 .. kn.numcaches
  BY KnobFacts
<1> QED BY <1>1, <1>2 DEF NewContainer, Growing, AllGrowing

(* createNewCache makes a container with n caches one with n + 1.          *)
LEMMA AddsOne ==
  ASSUME knobs \in KnobValues, NEW n \in 0 .. knobs.numcaches, n < knobs.numcaches
  PROVE  /\ createNewCache(Growing(knobs, n)) = Growing(knobs, n + 1)
         /\ Growing(knobs, n + 1) \in AllGrowing(knobs)
<1> DEFINE old == PrivateCaches(knobs, n, UNSET)
           new == PrivateCaches(knobs, n + 1, UNSET)
           k == NewCache(n, UNSET, knobs.csize, knobs.assoc, knobs.bsize)
<1>1. knobs.numcaches \in Nat /\ n \in Nat /\ n + 1 \in 0 .. knobs.numcaches
  BY KnobFacts
<1>2. k = PrivateCache(knobs, n + 1, UNSET)
  <2>1. (n + 1) - 1 = n
    BY <1>1
  <2> QED BY <2>1 DEF PrivateCache
<1>3. /\ Len(old) = n /\ old = [i \in 1 .. n |-> PrivateCache(knobs, i, UNSET)]
      /\ new = [i \in 1 .. n + 1 |-> PrivateCache(knobs, i, UNSET)]
  BY PrivateCachesAre DEF PrivateCaches
<1> HIDE DEF old, new, k
<1>4. Append(old, k) = new
  <2>1. Append(old, k) = [i \in 1 .. n + 1 |-> IF i = n + 1 THEN k ELSE old[i]]
    <3> DEFINE S == {k} \cup {PrivateCache(knobs, i, UNSET) : i \in 1 .. n}
    <3>1. old \in [1 .. n -> S]
      BY <1>3
    <3>2. old \in Seq(S) /\ k \in S
      BY <1>1, <3>1
    <3> HIDE DEF S
    <3>3. /\ Append(old, k) \in Seq(S) /\ Len(Append(old, k)) = n + 1
          /\ \A i \in 1 .. n : Append(old, k)[i] = old[i]
          /\ Append(old, k)[n + 1] = k
      BY <1>3, <3>2, AppendProperties
    <3>4. \A i \in 1 .. n + 1 : i = n + 1 \/ i \in 1 .. n
      BY <1>1
    <3>5. \A i \in 1 .. n + 1 : Append(old, k)[i] = IF i = n + 1 THEN k ELSE old[i]
      BY <1>1, <3>3, <3>4
    <3>6. Append(old, k) \in [1 .. n + 1 -> S]
      BY <3>3, LenProperties
    <3> QED BY <3>5, <3>6
  <2>2. ASSUME NEW i \in 1 .. n + 1
        PROVE  (IF i = n + 1 THEN k ELSE old[i]) = PrivateCache(knobs, i, UNSET)
    <3>1. i # n + 1 => i \in 1 .. n
      BY <1>1
    <3> QED BY <1>2, <1>3, <3>1
  <2> QED BY <1>3, <2>1, <2>2
<1>5. createNewCache(Growing(knobs, n)) = [Growing(knobs, n) EXCEPT !.privateCaches = Append(old, k)]
  BY <1>3 DEF createNewCache, Growing, old, k
<1>6. createNewCache(Growing(knobs, n)) = Growing(knobs, n + 1)
  BY <1>4, <1>5 DEF Growing, new
<1> QED BY <1>1, <1>6 DEF AllGrowing

(* The last-level cache becomes the parent of the private ones.            *)
LEMMA AdoptsPrivate ==
  ASSUME NEW kn \in KnobValues, NEW n \in 0 .. kn.numcaches
  PROVE  Adopted(PrivateCaches(kn, n, UNSET), LLC) = PrivateCaches(kn, n, LLC)
<1>1. \A i \in 1 .. n : [PrivateCache(kn, i, UNSET) EXCEPT !.parent = LLC] = PrivateCache(kn, i, LLC)
  BY DEF PrivateCache, NewCache
<1>2. /\ DOMAIN PrivateCaches(kn, n, UNSET) = 1 .. n
      /\ \A i \in 1 .. n : PrivateCaches(kn, n, UNSET)[i] = PrivateCache(kn, i, UNSET)
  BY PrivateCachesAre
<1> QED BY <1>1, <1>2 DEF Adopted, PrivateCaches

(* createLLC, once all private caches exist.                               *)
LEMMA AddsLLC ==
  ASSUME knobs \in KnobValues
  PROVE  /\ Factor(Growing(knobs, knobs.numcaches)) = LevelFactor(knobs)
         /\ createLLC(Growing(knobs, knobs.numcaches)) = Shared(knobs)
<1> DEFINE n == knobs.numcaches
           old == PrivateCaches(knobs, n, UNSET)
           c == Growing(knobs, n)
           new == SharedCache(knobs, UNSET)
<1>1. n \in 0 .. n
  BY KnobFacts
<1>2. Len(old) = n /\ Adopted(old, LLC) = PrivateCaches(knobs, n, LLC)
  BY <1>1, PrivateCachesAre, AdoptsPrivate
<1>3. /\ c.privateCaches = old /\ c.llc = <<>> /\ c.main_memory = UNSET
      /\ c = [privateCaches |-> old, llc |-> <<>>, main |-> <<>>, llc_memory |-> UNSET, main_memory |-> UNSET]
  BY DEF Growing
<1>4. Factor(c) = LevelFactor(knobs)
  BY <1>2, <1>3 DEF Factor, LevelFactor
<1>5. Append(<<>>, new) = <<new>>
  OBVIOUS
<1> HIDE DEF c, old
<1>6. createLLC(c) = [c EXCEPT !.llc = Append(@, new), !.llc_memory = LLC, !.privateCaches = Adopted(@, LLC)]
  BY <1>3, <1>4 DEF createLLC, SharedCache
<1> HIDE DEF new
<1>7. createLLC(c) = [privateCaches |-> Adopted(old, LLC), llc |-> Append(<<>>, new), main |-> <<>>,
                      llc_memory |-> LLC, main_memory |-> UNSET]
  <2>1. c = [privateCaches |-> old, llc |-> <<>>, main |-> <<>>, llc_memory |-> UNSET, main_memory |-> UNSET]
    BY <1>3
  <2> QED BY <1>6, <2>1
<1>8. createLLC(c) = Shared(knobs)
  BY <1>2, <1>5, <1>7 DEF Shared, new
<1> QED BY <1>4, <1>8 DEF c

(* createMain completes a container.                                       *)
LEMMA AddsMain ==
  ASSUME knobs \in KnobValues
  PROVE  createMain(Shared(knobs)) = Whole(knobs)
<1> DEFINE c == Shared(knobs)
           private == PrivateCaches(knobs, knobs.numcaches, LLC)
           old == <<SharedCache(knobs, UNSET)>>
           new == MainMemory(knobs)
<1>1. c = [privateCaches |-> private, llc |-> old, main |-> <<>>, llc_memory |-> LLC, main_memory |-> UNSET]
  BY DEF Shared
<1>2. Adopted(old, Main) = <<SharedCache(knobs, Main)>>
  <2>1. [SharedCache(knobs, UNSET) EXCEPT !.parent = Main] = SharedCache(knobs, Main)
    BY DEF SharedCache, NewCache
  <2> QED BY <2>1 DEF Adopted
<1>3. Append(<<>>, new) = <<new>>
  OBVIOUS
<1>4. createMain(c) = [c EXCEPT !.main = Append(@, new), !.main_memory = Main, !.llc = Adopted(@, Main)]
  BY DEF createMain, MainMemory
<1> HIDE DEF c, private, old, new
<1>5. createMain(c) = [privateCaches |-> private, llc |-> Adopted(old, Main), main |-> Append(<<>>, new),
                       llc_memory |-> LLC, main_memory |-> Main]
  BY <1>1, <1>4
<1> QED BY <1>2, <1>3, <1>5 DEF Whole, c, private, new

(* Putting a container back where the latest one was.                      *)
LEMMA Reopened ==
  ASSUME NEW S, Caches \in Seq(S), Caches # <<>>, NEW c \in S, Reopen(c)
  PROVE  Caches' \in Seq(S) /\ Len(Caches') = Len(Caches) /\ Caches' # <<>> /\ Latest' = c
<1>1. Len(Caches) \in 1 .. Len(Caches) /\ Len(Caches) \in Nat
  BY EmptySeq, LenProperties
<1>2. Caches' = [Caches EXCEPT ![Len(Caches)] = c]
  BY DEF Reopen
<1>3. /\ Caches' \in Seq(S) /\ Len(Caches') = Len(Caches)
      /\ \A j \in 1 .. Len(Caches) : Caches'[j] = IF j = Len(Caches) THEN c ELSE Caches[j]
  BY <1>1, <1>2, ExceptSeq
<1>4. Caches' # <<>>
  BY <1>1, <1>3, EmptySeq
<1> QED BY <1>1, <1>3, <1>4 DEF Latest

(* main starts with no container.                                          *)
LEMMA ConstructionStarts == Init => ConstructionInv
<1> SUFFICES ASSUME Init PROVE ConstructionInv
  OBVIOUS
<1>1. <<>> \in Seq(Containers(knobs)) /\ Len(<<>>) = 0
  OBVIOUS
<1>2. 0 <= Protocols
  BY KnobsAssumption
<1> QED BY <1>1, <1>2 DEF Init, ConstructionInv

(* Every step of main leads from shape to shape.                           *)
LEMMA ConstructionSteps == ConstructionInv /\ [Next]_vars => ConstructionInv'
<1> SUFFICES ASSUME ConstructionInv, [Next]_vars PROVE ConstructionInv'
  OBVIOUS
<1>1. CASE UNCHANGED vars
  BY <1>1 DEF vars, ConstructionInv, Latest
<1>2. knobs \in KnobValues /\ Caches \in Seq(Containers(knobs)) /\ Len(Caches) \in Nat /\ Len(Caches) <= Protocols
  <2>1. knobs \in KnobValues /\ Caches \in Seq(Containers(knobs)) /\ Len(Caches) <= Protocols
    BY DEF ConstructionInv
  <2> QED BY <2>1, LenProperties
<1>3. CASE OpenProtocol
  <2>1. Protocols \in Nat /\ knobs' = knobs /\ ref' = ref /\ pc = "open" /\ Len(Caches) < Protocols
    BY <1>3, KnobsAssumption DEF OpenProtocol
  <2>2. CASE pc' = "private" /\ Caches' = Append(Caches, NewContainer)
    <3>1. NewContainer \in AllGrowing(knobs) /\ NewContainer \in Containers(knobs)
      BY <1>2, StartsEmpty DEF Containers
    <3>2. /\ Caches' \in Seq(Containers(knobs)) /\ Caches' # <<>> /\ Len(Caches') = Len(Caches) + 1
          /\ Caches'[Len(Caches) + 1] = NewContainer
      BY <1>2, <2>2, <3>1, AppendProperties
    <3>3. Len(Caches') <= Protocols /\ Latest' \in AllGrowing(knobs)
      BY <1>2, <2>1, <3>1, <3>2 DEF Latest
    <3> QED BY <1>2, <2>1, <2>2, <3>2, <3>3 DEF ConstructionInv
  <2>3. CASE pc' \in {"exited", "calledNull"} /\ UNCHANGED Caches
    BY <1>2, <2>1, <2>3 DEF ConstructionInv
  <2> QED BY <1>3, <2>2, <2>3 DEF OpenProtocol
<1>4. CASE CreateNewCache
  <2>1. /\ pc = "private" /\ pc' = pc /\ knobs' = knobs /\ ref' = ref /\ Reopen(createNewCache(Latest))
        /\ Len(Latest.privateCaches) < knobs.numcaches
    BY <1>4 DEF CreateNewCache
  <2>2. PICK n \in 0 .. knobs.numcaches : Latest = Growing(knobs, n)
    BY <2>1 DEF ConstructionInv, AllGrowing
  <2>3. n < knobs.numcaches
    <3>1. Len(PrivateCaches(knobs, n, UNSET)) = n
      BY <1>2, PrivateCachesAre
    <3> QED BY <2>1, <2>2, <3>1 DEF Growing
  <2>4. createNewCache(Latest) \in AllGrowing(knobs) /\ createNewCache(Latest) \in Containers(knobs)
    BY <1>2, <2>2, <2>3, AddsOne DEF Containers
  <2>5. Caches # <<>>
    BY <2>1 DEF ConstructionInv
  <2>6. Caches' \in Seq(Containers(knobs)) /\ Len(Caches') = Len(Caches) /\ Caches' # <<>>
        /\ Latest' = createNewCache(Latest)
    BY <1>2, <2>1, <2>4, <2>5, Reopened
  <2> QED BY <1>2, <2>1, <2>4, <2>6 DEF ConstructionInv
<1>5. CASE CreateLLC
  <2>1. /\ pc = "private" /\ knobs' = knobs /\ ref' = ref /\ Len(Latest.privateCaches) = knobs.numcaches
        /\ \/ Factor(Latest) = 0 /\ pc' = "crashed" /\ UNCHANGED Caches
           \/ Factor(Latest) # 0 /\ pc' = "main" /\ Reopen(createLLC(Latest))
    BY <1>5 DEF CreateLLC
  <2>2. PICK n \in 0 .. knobs.numcaches : Latest = Growing(knobs, n)
    BY <2>1 DEF ConstructionInv, AllGrowing
  <2>3. n = knobs.numcaches
    <3>1. Len(PrivateCaches(knobs, n, UNSET)) = n
      BY <1>2, PrivateCachesAre
    <3> QED BY <2>1, <2>2, <3>1 DEF Growing
  <2>4. Factor(Latest) = LevelFactor(knobs) /\ createLLC(Latest) = Shared(knobs)
    BY <1>2, <2>2, <2>3, AddsLLC
  <2>5. CASE Factor(Latest) = 0 /\ pc' = "crashed" /\ UNCHANGED Caches
    BY <1>2, <2>1, <2>4, <2>5 DEF ConstructionInv
  <2>6. CASE Factor(Latest) # 0 /\ pc' = "main" /\ Reopen(createLLC(Latest))
    <3>1. Shared(knobs) \in Containers(knobs) /\ Caches # <<>> /\ LevelFactor(knobs) # 0
      BY <2>1, <2>4, <2>6 DEF Containers, ConstructionInv
    <3>2. Caches' \in Seq(Containers(knobs)) /\ Len(Caches') = Len(Caches) /\ Caches' # <<>>
          /\ Latest' = Shared(knobs)
      BY <1>2, <2>4, <2>6, <3>1, Reopened
    <3> QED BY <1>2, <2>1, <2>6, <3>1, <3>2 DEF ConstructionInv
  <2> QED BY <2>1, <2>5, <2>6
<1>6. CASE CreateMain
  <2>1. pc = "main" /\ pc' = "open" /\ knobs' = knobs /\ ref' = ref /\ Reopen(createMain(Latest))
    BY <1>6 DEF CreateMain
  <2>2. Caches # <<>> /\ Latest = Shared(knobs) /\ LevelFactor(knobs) # 0
    BY <2>1 DEF ConstructionInv
  <2>3. createMain(Latest) = Whole(knobs) /\ Whole(knobs) \in Containers(knobs)
    BY <1>2, <2>2, AddsMain DEF Containers
  <2>4. Caches' \in Seq(Containers(knobs)) /\ Len(Caches') = Len(Caches)
    BY <1>2, <2>1, <2>2, <2>3, Reopened
  <2> QED BY <1>2, <2>1, <2>4 DEF ConstructionInv
<1>7. CASE OpenReference
  <2>1. NewContainer \in AllGrowing(knobs)
    BY <1>2, StartsEmpty
  <2>2. /\ knobs' = knobs /\ Caches' = Caches
        /\ \/ pc' = "reference" /\ ref' = <<NewContainer>>
           \/ pc' = "exited" /\ ref' = ref
           \/ pc' = "calledNull" /\ ref' = <<NewContainer>>
    BY <1>7 DEF OpenReference
  <2>3. <<NewContainer>> # <<>>
    OBVIOUS
  <2> QED BY <1>2, <2>1, <2>2, <2>3 DEF ConstructionInv
<1>8. CASE CreateReferenceCache
  <2>1. /\ pc = "reference" /\ pc' = pc /\ knobs' = knobs /\ Caches' = Caches
        /\ Len(ref[1].privateCaches) < knobs.numcaches /\ ref' = <<createNewCache(ref[1])>>
    BY <1>8 DEF CreateReferenceCache
  <2>2. PICK c \in AllGrowing(knobs) : ref = <<c>>
    BY <2>1 DEF ConstructionInv
  <2>3. PICK n \in 0 .. knobs.numcaches : c = Growing(knobs, n)
    BY DEF AllGrowing
  <2>4. n < knobs.numcaches
    <3>1. Len(PrivateCaches(knobs, n, UNSET)) = n
      BY <1>2, PrivateCachesAre
    <3> QED BY <2>1, <2>2, <2>3, <3>1 DEF Growing
  <2>5. createNewCache(c) \in AllGrowing(knobs) /\ ref' = <<createNewCache(c)>> /\ ref' # <<>>
    BY <1>2, <2>1, <2>2, <2>3, <2>4, AddsOne
  <2> QED BY <1>2, <2>1, <2>5 DEF ConstructionInv
<1>9. CASE StartProgram
  BY <1>2, <1>9 DEF StartProgram, ConstructionInv
<1> QED BY <1>1, <1>3, <1>4, <1>5, <1>6, <1>7, <1>8, <1>9 DEF Next

(* So the shapes are those of every reachable state.                       *)
LEMMA ConstructionAlways == Spec => []ConstructionInv
BY ConstructionStarts, ConstructionSteps, PTL DEF Spec

-----------------------------------------------------------------------------
(* Every cache belongs to one of three levels, which differ in a factor.   *)

Level(kn, k) ==
  \/ \E i \in 1 .. kn.numcaches, p \in {UNSET, LLC} : k = PrivateCache(kn, i, p)
  \/ LevelFactor(kn) # 0 /\ \E p \in {UNSET, Main} : k = SharedCache(kn, p)
  \/ k = MainMemory(kn)

(* While the container grows it has private caches only, without a parent. *)
LEMMA CachesOfGrowing ==
  ASSUME NEW kn \in KnobValues, NEW c \in AllGrowing(kn), NEW k \in CachesOf(c)
  PROVE  \E i \in 1 .. kn.numcaches : k = PrivateCache(kn, i, UNSET)
<1>1. PICK n \in 0 .. kn.numcaches : c = Growing(kn, n)
  BY DEF AllGrowing
<1>2. c.privateCaches = PrivateCaches(kn, n, UNSET) /\ c.llc = <<>> /\ c.main = <<>>
  BY <1>1 DEF Growing
<1>3. ToSet(<<>>) = {}
  BY DEF ToSet
<1>4. PICK i \in DOMAIN PrivateCaches(kn, n, UNSET) : k = PrivateCaches(kn, n, UNSET)[i]
  BY <1>2, <1>3 DEF CachesOf, ToSet
<1>5. i \in 1 .. n /\ k = PrivateCache(kn, i, UNSET)
  BY <1>4, PrivateCachesAre
<1>6. i \in 1 .. kn.numcaches
  BY <1>5, KnobFacts
<1> QED BY <1>5, <1>6

(* Once the last-level cache exists, the private ones have it for parent.  *)
LEMMA CachesOfShared ==
  ASSUME NEW kn \in KnobValues, NEW c \in {Shared(kn), Whole(kn)}, NEW k \in CachesOf(c)
  PROVE  \/ \E i \in 1 .. kn.numcaches : k = PrivateCache(kn, i, LLC)
         \/ c = Shared(kn) /\ k = SharedCache(kn, UNSET)
         \/ c = Whole(kn) /\ (k = SharedCache(kn, Main) \/ k = MainMemory(kn))
<1>1. \A x : ToSet(<<x>>) = {x}
  BY DEF ToSet
<1>2. ToSet(<<>>) = {}
  BY DEF ToSet
<1>3. c.privateCaches = PrivateCaches(kn, kn.numcaches, LLC)
  BY DEF Shared, Whole
<1>4. ASSUME k \in ToSet(c.privateCaches) PROVE \E i \in 1 .. kn.numcaches : k = PrivateCache(kn, i, LLC)
  <2>1. kn.numcaches \in 0 .. kn.numcaches
    BY KnobFacts
  <2>2. PICK i \in DOMAIN c.privateCaches : k = c.privateCaches[i]
    BY <1>4 DEF ToSet
  <2> QED BY <1>3, <2>1, <2>2, PrivateCachesAre
<1>5. CASE c = Shared(kn)
  <2>1. c.llc = <<SharedCache(kn, UNSET)>> /\ c.main = <<>>
    BY <1>5 DEF Shared
  <2>2. ToSet(c.llc) = {SharedCache(kn, UNSET)} /\ ToSet(c.main) = {}
    BY <1>1, <1>2, <2>1
  <2> QED BY <1>4, <1>5, <2>2 DEF CachesOf
<1>6. CASE c = Whole(kn)
  <2>1. c.llc = <<SharedCache(kn, Main)>> /\ c.main = <<MainMemory(kn)>>
    BY <1>6 DEF Whole
  <2>2. ToSet(c.llc) = {SharedCache(kn, Main)} /\ ToSet(c.main) = {MainMemory(kn)}
    BY <1>1, <2>1
  <2> QED BY <1>4, <1>6, <2>2 DEF CachesOf
<1> QED BY <1>5, <1>6

(* In every shape, a cache is of one of the levels.                        *)
LEMMA CachesAreLevels ==
  ASSUME NEW kn \in KnobValues, NEW c \in Containers(kn), NEW k \in CachesOf(c)
  PROVE  Level(kn, k)
<1>1. CASE c \in AllGrowing(kn)
  BY <1>1, CachesOfGrowing DEF Level
<1>2. CASE c \in {Shared(kn), Whole(kn)} /\ LevelFactor(kn) # 0
  BY <1>2, CachesOfShared DEF Level
<1> QED BY <1>1, <1>2 DEF Containers

(* Every container, the reference's too, is of the shapes.                 *)
LEMMA ContainersAre ==
  ASSUME ConstructionInv, NEW c \in ToSet(Caches) \cup ToSet(ref)
  PROVE  c \in Containers(knobs) /\ (c \in ToSet(ref) => c \in AllGrowing(knobs))
<1>1. Caches \in Seq(Containers(knobs)) /\ ref \in {<<>>} \cup {<<d>> : d \in AllGrowing(knobs)}
  BY DEF ConstructionInv
<1>2. ASSUME c \in ToSet(Caches) PROVE c \in Containers(knobs)
  <2>1. PICK i \in DOMAIN Caches : c = Caches[i]
    BY <1>2 DEF ToSet
  <2> QED BY <1>1, <2>1, LenProperties
<1>3. ASSUME c \in ToSet(ref) PROVE c \in AllGrowing(knobs)
  <2>1. PICK i \in DOMAIN ref : c = ref[i]
    BY <1>3 DEF ToSet
  <2>2. CASE ref = <<>>
    BY <2>1, <2>2
  <2>3. CASE ref \in {<<d>> : d \in AllGrowing(knobs)}
    BY <2>1, <2>3
  <2> QED BY <1>1, <2>2, <2>3
<1> QED BY <1>2, <1>3 DEF Containers

(* The factor grows by four when the caches double.                        *)
LEMMA FactorIs ==
  ASSUME NEW kn \in KnobValues
  PROVE  /\ LevelFactor(kn) \in 0 .. 16 /\ (LevelFactor(kn) = 0 => kn.numcaches = 1)
         /\ LevelFactor(kn) # 0 /\ kn.numcaches \notin 5 .. 8 => LevelFactor(kn) \in {4, 8, 16}
<1> DEFINE n == kn.numcaches
           j == Log2i(n)
<1>1. Pow[0] = 1 /\ Pow[1] = 2 /\ Pow[2] = 4 /\ Pow[3] = 8 /\ Pow[4] = 16
  <2>1. Pow[0] = 1 /\ Pow[1] = 2 * Pow[0] /\ Pow[2] = 2 * Pow[1] /\ Pow[3] = 2 * Pow[2] /\ Pow[4] = 2 * Pow[3]
    <3>1. /\ 0 \in 0 .. 31 /\ 1 \in 0 .. 31 /\ 2 \in 0 .. 31 /\ 3 \in 0 .. 31
          /\ 0 + 1 = 1 /\ 1 + 1 = 2 /\ 2 + 1 = 3 /\ 3 + 1 = 4
      OBVIOUS
    <3> QED BY <3>1, PowFacts
  <2> QED BY <2>1
<1>2. 0 \in Bits /\ 1 \in Bits /\ 2 \in Bits /\ 3 \in Bits /\ 4 \in Bits
  BY WidthAssumption DEF Bits
<1>3. n \in 1 .. 16 /\ n \in 1 .. Pow[Width - 1]
  <2>1. n \in 1 .. 16
    BY KnobFacts
  <2>2. Pow[4] < Pow[Width - 1] /\ Pow[Width - 1] \in Nat
    <3>1. 4 \in 0 .. 32 /\ Width - 1 \in 0 .. 32 /\ 4 < Width - 1
      BY WidthAssumption
    <3> QED BY <3>1, PowFacts, PowGrows
  <2> QED BY <1>1, <2>1, <2>2
<1>4. j \in Bits /\ n <= Pow[j] /\ \A i \in Bits : n <= Pow[i] => j <= i
  <2>1. j = LeastPower(n)
    BY <1>3, RoundsUp
  <2> QED BY <1>3, <2>1, LeastPowerIs
<1>5. LevelFactor(kn) = j * 4
  BY DEF LevelFactor
<1>6. j \in Nat
  BY <1>4, BitNumber
<1> HIDE DEF j, n
<1>7. j \in 0 .. 4
  BY <1>1, <1>2, <1>3, <1>4, <1>6
<1>8. j = 3 => n \in 5 .. 8
  <2>1. ASSUME j = 3 PROVE n \in 5 .. 8
    <3>1. n <= 8 /\ ~(n <= 4)
      BY <1>1, <1>2, <1>4, <2>1
    <3> QED BY <1>3, <3>1
  <2> QED BY <2>1
<1>9. j = 0 => n = 1
  BY <1>1, <1>3, <1>4
<1> QED BY <1>5, <1>7, <1>8, <1>9 DEF n

(* So the geometries are those of the private caches, times a factor.      *)
LEMMA GeometriesAre ==
  ASSUME ConstructionInv, NEW k \in AllCaches
  PROVE  /\ Level(knobs, k)
         /\ \E f \in 1 .. 64 :
              /\ f \in {1, LevelFactor(knobs), 64}
              /\ k.geometry = Geometry(f * knobs.csize, f * knobs.assoc, knobs.bsize)
<1>1. knobs \in KnobValues
  BY DEF ConstructionInv
<1>2. PICK c \in ToSet(Caches) \cup ToSet(ref) : k \in CachesOf(c)
  BY DEF AllCaches
<1>3. Level(knobs, k)
  <2>1. c \in Containers(knobs)
    BY <1>2, ContainersAre
  <2> QED BY <1>1, <1>2, <2>1, CachesAreLevels
<1>4. knobs.csize \in Nat /\ knobs.assoc \in Nat /\ LevelFactor(knobs) \in 0 .. 16
  BY <1>1, KnobFacts, FactorIs
<1>5. CASE \E i \in 1 .. knobs.numcaches, p \in {UNSET, LLC} : k = PrivateCache(knobs, i, p)
  <2>1. k.geometry = Geometry(knobs.csize, knobs.assoc, knobs.bsize)
    BY <1>5 DEF PrivateCache, NewCache
  <2>2. 1 * knobs.csize = knobs.csize /\ 1 * knobs.assoc = knobs.assoc /\ 1 \in 1 .. 64
    BY <1>4
  <2> QED BY <1>3, <2>1, <2>2
<1>6. CASE LevelFactor(knobs) # 0 /\ \E p \in {UNSET, Main} : k = SharedCache(knobs, p)
  <2>1. k.geometry = Geometry(LevelFactor(knobs) * knobs.csize, LevelFactor(knobs) * knobs.assoc, knobs.bsize)
    BY <1>6 DEF SharedCache, NewCache
  <2>2. LevelFactor(knobs) \in 1 .. 64
    BY <1>4, <1>6
  <2> QED BY <1>3, <2>1, <2>2
<1>7. CASE k = MainMemory(knobs)
  <2>1. k.geometry = Geometry(knobs.csize * 64, knobs.assoc * 64, knobs.bsize)
    BY <1>7 DEF MainMemory, NewCache
  <2>2. knobs.csize * 64 = 64 * knobs.csize /\ knobs.assoc * 64 = 64 * knobs.assoc /\ 64 \in 1 .. 64
    BY <1>4
  <2> QED BY <1>3, <2>1, <2>2
<1> QED BY <1>3, <1>5, <1>6, <1>7 DEF Level

-----------------------------------------------------------------------------
(* The geometry of one cache.                                              *)

(* The largest cache and three blocks are within a machine word, and the   *)
(* ways of the largest cache can be rounded up within it.                  *)
KnobsFit ==
  /\ \A s \in CacheSizes : 64 * s < 2 ^ Width
  /\ \A a \in Assocs : 64 * a <= 2 ^ (Width - 1)
  /\ \A b \in BlockSizes : 3 * b < 2 ^ Width

(* The rounded-up logarithm is the number of a bit.                        *)
LEMMA Log2Is ==
  ASSUME NEW n \in 1 .. Pow[Width - 1]
  PROVE  Log2i(n) \in Bits /\ Log2i(n) \in Word
<1>1. Log2i(n) \in Bits
  BY RoundsUp, LeastPowerIs
<1>2. \A i \in Bits : i \in Word
  <2>1. Width <= Pow[Width]
    <3>1. 5 \in 0 .. 32 /\ Width \in 0 .. 32 /\ 5 < Width /\ Pow[5] = 32 /\ Pow[Width] \in Nat
      <4>1. 5 \in 0 .. 32 /\ Width \in 0 .. 32 /\ 5 < Width
        BY WidthAssumption
      <4>2. Pow[5] = 2 ^ 5 /\ 2 ^ 5 = 32
        BY <4>1, PowIs
      <4>3. Pow[Width] \in Nat
        BY <4>1, PowFacts
      <4> QED BY <4>1, <4>2, <4>3
    <3>2. Pow[5] < Pow[Width]
      BY <3>1, PowGrows
    <3> QED BY <3>1, <3>2
  <2> QED BY <2>1, WidthFacts DEF Bits
<1> QED BY <1>1, <1>2

(* The logarithm of a power of two is exact.                               *)
LEMMA Log2OfPower ==
  ASSUME NEW e \in Bits
  PROVE  Log2i(Pow[e]) = e /\ Pow[e] \in 1 .. Pow[Width - 1]
<1>1. Pow[e] \in 1 .. Pow[Width - 1]
  <2>1. /\ e \in 0 .. 32 /\ Pow[e] \in Nat \ {0} /\ Width - 1 \in 0 .. 32 /\ e <= Width - 1
    <3>1. e \in 0 .. 32 /\ Pow[e] \in Nat \ {0} /\ e \in 0 .. Width /\ e < Width
      BY BitNumber
    <3> QED BY <3>1, WidthFacts
  <2>2. Pow[Width - 1] \in Nat /\ (e < Width - 1 => Pow[e] < Pow[Width - 1])
    BY <2>1, PowFacts, PowGrows
  <2>3. e < Width - 1 \/ e = Width - 1
    BY <2>1
  <2> QED BY <2>1, <2>2, <2>3
<1> DEFINE j == LeastPower(Pow[e])
<1>2. j \in Bits /\ Pow[e] <= Pow[j] /\ \A i \in Bits : Pow[e] <= Pow[i] => j <= i
  BY <1>1, LeastPowerIs
<1>3. Log2i(Pow[e]) = j
  BY <1>1, RoundsUp
<1> HIDE DEF j
<1>4. j <= e
  <2>1. Pow[e] <= Pow[e]
    BY <1>1
  <2> QED BY <1>2, <2>1
<1>5. ~(j < e)
  <2>1. j \in 0 .. 32 /\ e \in 0 .. 32 /\ Pow[j] \in Nat /\ Pow[e] \in Nat
    BY <1>2, BitNumber
  <2>2. j < e => Pow[j] < Pow[e]
    BY <2>1, PowGrows
  <2> QED BY <1>2, <2>1, <2>2
<1>6. j = e
  <2>1. j \in Nat /\ e \in Nat
    BY <1>2, BitNumber
  <2> QED BY <1>4, <1>5, <2>1
<1> QED BY <1>1, <1>3, <1>6

(* PowerOfTwo, in the values of Pow.                                       *)
LEMMA PowerOfTwoIs == \A n : PowerOfTwo(n) <=> \E e \in Bits : n = Pow[e]
<1>1. \A e \in Bits : e \in 0 .. 32
  BY BitNumber
<1>2. \A e \in Bits : Pow[e] = 2 ^ e
  BY <1>1, PowIs
<1> QED BY <1>2, Zenon DEF PowerOfTwo, Bits

(* What the knobs are bounded by, in the values of Pow.                    *)
LEMMA FittingKnobs ==
  ASSUME KnobsFit, NEW kn \in KnobValues, NEW f \in 1 .. 64
  PROVE  /\ f * kn.csize \in 1 .. Pow[Width] - 1 /\ kn.csize \in 1 .. Pow[Width] - 1
         /\ f * kn.assoc \in 1 .. Pow[Width - 1] /\ kn.assoc \in 1 .. Pow[Width - 1]
         /\ kn.bsize \in 1 .. Pow[Width - 1] /\ 3 * kn.bsize < Pow[Width]
<1>1. Pow[Width] \in Nat /\ Pow[Width - 1] \in Nat /\ Pow[Width] = 2 * Pow[Width - 1]
  <2>1. Width - 1 \in Bits /\ (Width - 1) + 1 = Width
    BY WidthFacts DEF Bits
  <2> QED BY <2>1, BitNumber
<1>2. Pow[Width] = 2 ^ Width /\ Pow[Width - 1] = 2 ^ (Width - 1)
  <2>1. Width \in 0 .. 32 /\ Width - 1 \in 0 .. 32
    BY WidthAssumption
  <2> QED BY <2>1, PowIs
<1>3. 64 * kn.csize < Pow[Width] /\ 64 * kn.assoc <= Pow[Width - 1] /\ 3 * kn.bsize < Pow[Width]
  <2>1. kn.csize \in CacheSizes /\ kn.assoc \in Assocs /\ kn.bsize \in BlockSizes
    BY KnobFacts
  <2> QED BY <1>2, <2>1, Zenon DEF KnobsFit
<1>4. kn.csize \in Nat \ {0} /\ kn.assoc \in Nat \ {0} /\ kn.bsize \in Nat \ {0}
  BY KnobFacts
<1>5. ASSUME NEW x \in Nat \ {0} PROVE f * x \in Nat \ {0} /\ f * x <= 64 * x /\ x <= 64 * x
  OBVIOUS
<1>6. /\ f * kn.csize \in Nat \ {0} /\ f * kn.csize <= 64 * kn.csize /\ kn.csize <= 64 * kn.csize
      /\ f * kn.assoc \in Nat \ {0} /\ f * kn.assoc <= 64 * kn.assoc /\ kn.assoc <= 64 * kn.assoc
  BY <1>4, <1>5
<1> QED BY <1>1, <1>3, <1>4, <1>6

(* Every number that a constructor computes is a machine word.             *)
LEMMA GeometryFits ==
  ASSUME NEW s \in 1 .. Pow[Width] - 1, NEW a \in 1 .. Pow[Width - 1], NEW b \in 1 .. Pow[Width - 1]
  PROVE  \A f \in DOMAIN Geometry(s, a, b) : Geometry(s, a, b)[f] \in Word
<1>1. Pow[Width - 1] \in Nat /\ Pow[Width - 1] < Pow[Width] /\ Pow[Width] \in Nat
  <2>1. Width - 1 \in 0 .. Width /\ Width - 1 < Width /\ Width \in 0 .. Width
    BY WidthFacts
  <2> QED BY <2>1, Exponent
<1>2. s \in Word /\ a \in Word /\ b \in Word
  BY <1>1, WidthFacts
<1>3. Log2i(a) \in Word /\ Log2i(b) \in Word
  BY Log2Is
<1>4. ASSUME NEW x \in Word, NEW y \in Nat \ {0} PROVE x \div y \in Word
  <2>1. x \in Nat /\ x < Pow[Width]
    BY <1>1, WidthFacts
  <2>2. x \div y \in Nat /\ x \div y <= x
    <3> DEFINE q == x \div y
               r == x % y
    <3>1. q \in Nat /\ r \in Nat /\ x = q * y + r
      BY <2>1, Divided
    <3> HIDE DEF q, r
    <3>2. q <= q * y
      BY <3>1
    <3>3. q \in Nat /\ q <= x
      BY <2>1, <3>1, <3>2
    <3> QED BY <3>3 DEF q
  <2> QED BY <1>1, <2>1, <2>2, WidthFacts
<1>5. s \div b \in Word /\ (s \div b) \div a \in Word
  <2>1. a \in Nat \ {0} /\ b \in Nat \ {0}
    BY <1>1
  <2>2. s \div b \in Word
    BY <1>2, <1>4, <2>1
  <2> QED BY <1>4, <2>1, <2>2
<1> QED BY <1>2, <1>3, <1>5 DEF Geometry

(* Shifting left is multiplying, as long as nothing is shifted out.        *)
LEMMA ShiftedLeft ==
  ASSUME NEW x \in Nat, NEW e \in Bits, x * Pow[e] < Pow[Width]
  PROVE  shiftL(x, e) = x * Pow[e]
<1>1. e \in 0 .. 32 /\ Width \in 0 .. 32 /\ Pow[e] \in Nat /\ Pow[Width] \in Nat \ {0}
  BY BitNumber, WidthFacts
<1>2. Pow[e] = 2 ^ e /\ Pow[Width] = 2 ^ Width
  BY <1>1, PowIs
<1>3. shiftL(x, e) = (x * Pow[e]) % Pow[Width]
  BY <1>2, Zenon DEF shiftL, Wrap
<1> DEFINE y == x * Pow[e]
<1>4. y \in Nat /\ y < Pow[Width]
  BY <1>1
<1> HIDE DEF y
<1>5. y % Pow[Width] = y
  BY <1>1, <1>4
<1> QED BY <1>3, <1>5 DEF y

(* A block of a power of two bytes: the tag and the offset are the two     *)
(* parts of the address.                                                   *)
LEMMA AddressSplits ==
  ASSUME NEW g, NEW e \in Bits, g.lineSize = Pow[e], g.log2AddrLs = e,
         NEW addr \in Nat, addr < Pow[Width]
  PROVE  calcAddr4Tag(g, calcTag(g, addr)) + calcOffset(g, addr) = addr
<1> DEFINE q == addr \div Pow[e]
           r == addr % Pow[e]
<1>1. Pow[e] \in Nat \ {0} /\ e \in 0 .. 31 /\ 0 \in 0 .. 31 /\ e \in 0 .. Width /\ Pow[Width] \in Nat
  BY BitNumber, WidthFacts
<1>2. q \in Nat /\ r \in Nat /\ addr = q * Pow[e] + r
  BY <1>1, Divided
<1>3. calcTag(g, addr) = q
  BY <1>1, ShiftedBits DEF calcTag
<1>4. calcOffset(g, addr) = r
  BY <1>1, Masked DEF calcOffset
<1> HIDE DEF q, r
<1>5. q * Pow[e] < Pow[Width]
  <2> DEFINE m == q * Pow[e]
  <2>1. m \in Nat /\ addr = m + r
    BY <1>1, <1>2
  <2> HIDE DEF m
  <2>2. m < Pow[Width]
    BY <1>1, <1>2, <2>1
  <2> QED BY <2>2 DEF m
<1>6. calcAddr4Tag(g, q) = q * Pow[e]
  BY <1>2, <1>5, ShiftedLeft DEF calcAddr4Tag
<1> QED BY <1>2, <1>3, <1>4, <1>6

(* Ways that are a power of two: the rows follow each other in the array.  *)
LEMMA RowsFollow ==
  ASSUME NEW s \in 1 .. Pow[Width] - 1, NEW e \in Bits, NEW b \in Nat \ {0},
         NEW g, g = Geometry(s, Pow[e], b), NEW set \in 0 .. g.sets - 1
  PROVE  calcIndex4Set(g, set) = set * Pow[e] /\ set * Pow[e] + Pow[e] <= g.numLines
<1> DEFINE p == Pow[e]
           lines == s \div b
           sets == lines \div p
<1>1. p \in Nat \ {0} /\ Pow[Width] \in Nat /\ s \in Nat /\ s < Pow[Width]
  BY BitNumber, WidthFacts
<1>2. lines \in Nat /\ lines <= s
  <2> DEFINE r == s % b
  <2>1. lines \in Nat /\ r \in Nat /\ s = lines * b + r
    BY <1>1, Divided
  <2> HIDE DEF lines, r
  <2>2. lines <= lines * b
    BY <2>1
  <2> QED BY <1>1, <2>1, <2>2
<1>3. g.sets = sets /\ g.numLines = lines /\ g.log2Assoc = e
  <2>1. Log2i(Pow[e]) = e
    BY Log2OfPower
  <2> QED BY <2>1 DEF Geometry
<1> HIDE DEF p, lines
<1>4. sets \in Nat /\ sets * p <= lines
  <2> DEFINE r == lines % p
  <2>1. sets \in Nat /\ r \in Nat /\ lines = sets * p + r
    BY <1>1, <1>2, Divided
  <2> HIDE DEF sets, r
  <2> QED BY <1>1, <1>2, <2>1
<1> HIDE DEF sets
<1>5. set \in Nat /\ set + 1 <= sets
  BY <1>3, <1>4
<1>6. (set + 1) * p <= sets * p
  BY <1>1, <1>4, <1>5
<1>7. set * p + p <= lines /\ set * p < Pow[Width]
  <2> DEFINE m == set * p
             top == sets * p
  <2>1. (set + 1) * p = m + p /\ m \in Nat /\ top \in Nat
    BY <1>1, <1>4, <1>5
  <2>2. m + p <= top /\ top <= lines
    BY <1>4, <1>6, <2>1
  <2> HIDE DEF m, top
  <2>3. m + p <= lines /\ m < Pow[Width]
    BY <1>1, <1>2, <2>1, <2>2
  <2> QED BY <2>3 DEF m
<1>8. calcIndex4Set(g, set) = set * p
  BY <1>3, <1>5, <1>7, ShiftedLeft DEF calcIndex4Set, p
<1> QED BY <1>3, <1>7, <1>8 DEF p

(* Sizes, ways and blocks that are powers of two: the number of sets is a  *)
(* power of two, and the same whatever the factor of the level.            *)
LEMMA SetsArePower ==
  ASSUME NEW i \in Bits, NEW j \in Bits, NEW k \in Bits, Pow[j] * Pow[k] <= Pow[i]
  PROVE  \E d \in Bits : \A f \in Nat \ {0} : Geometry(f * Pow[i], f * Pow[j], Pow[k]).sets = Pow[d]
<1>1. /\ i \in 0 .. 32 /\ j \in 0 .. 32 /\ k \in 0 .. 32 /\ i \in 0 .. Width /\ i < Width
      /\ Pow[i] \in Nat \ {0} /\ Pow[j] \in Nat \ {0} /\ Pow[k] \in Nat \ {0}
  BY BitNumber
<1>2. j <= i
  <2>1. i < j => Pow[i] < Pow[j]
    BY <1>1, PowGrows
  <2>2. Pow[j] <= Pow[j] * Pow[k]
    BY <1>1
  <2> QED BY <1>1, <2>1, <2>2
<1> DEFINE l == i - j
<1>3. l \in 0 .. 32 /\ Pow[l] \in Nat \ {0} /\ Pow[i] = Pow[j] * Pow[l]
  <2>1. l \in 0 .. 32
    BY <1>1, <1>2
  <2> QED BY <1>1, <1>2, <2>1, PowSplits, PowFacts
<1>4. k <= l
  <2>1. l < k => Pow[l] < Pow[k]
    BY <1>1, <1>3, PowGrows
  <2> HIDE DEF l
  <2>2. Pow[l] < Pow[k] => Pow[j] * Pow[l] < Pow[j] * Pow[k]
    BY <1>1, <1>3
  <2> QED BY <1>1, <1>3, <2>1, <2>2
<1> DEFINE d == l - k
<1>5. d \in Bits /\ Pow[d] \in Nat \ {0} /\ Pow[l] = Pow[k] * Pow[d]
  <2>1. d \in Bits
    BY <1>1, <1>2, <1>4, WidthFacts DEF Bits
  <2>2. Pow[d] \in Nat \ {0}
    BY <2>1, BitNumber
  <2>3. Pow[l] = Pow[k] * Pow[d]
    BY <1>1, <1>3, <1>4, PowSplits
  <2> QED BY <2>1, <2>2, <2>3
<1> HIDE DEF l, d
<1>6. ASSUME NEW f \in Nat \ {0} PROVE Geometry(f * Pow[i], f * Pow[j], Pow[k]).sets = Pow[d]
  <2> DEFINE a == f * Pow[j]
             s == f * Pow[i]
             m == Pow[k] * a
  <2>1. a \in Nat \ {0} /\ s \in Nat
    BY <1>1
  <2>2. s = Pow[d] * m
    BY <1>1, <1>3, <1>5
  <2>3. Geometry(s, a, Pow[k]).sets = (s \div Pow[k]) \div a
    BY DEF Geometry
  <2> HIDE DEF a, s
  <2>4. m \in Nat \ {0}
    BY <1>1, <2>1
  <2>5. (s \div Pow[k]) \div a = s \div m
    BY <1>1, <2>1, DivideTwice
  <2> HIDE DEF m
  <2>6. (Pow[d] * m + 0) \div m = Pow[d]
    BY <1>5, <2>4, Division
  <2>7. Pow[d] * m + 0 = Pow[d] * m
    BY <1>5, <2>4
  <2> QED BY <2>2, <2>3, <2>5, <2>6, <2>7 DEF a, s
<1> QED BY <1>5, <1>6

(* Sets that are a power of two: masking the tag picks the set.            *)
LEMMA MaskPicksSet ==
  ASSUME NEW g, NEW d \in Bits, g.sets = Pow[d], NEW tag \in Nat
  PROVE  calcSet4Tag(g, tag) = tag % g.sets
<1>1. d \in 0 .. Width
  BY BitNumber
<1> QED BY <1>1, Masked DEF calcSet4Tag

-----------------------------------------------------------------------------
(* Powers of two on the command line: the constructor's comment asks for   *)
(* them.  A cache holds at least one row.                                  *)
BlocksArePowers == \A b \in BlockSizes : PowerOfTwo(b)
WaysArePowers == \A a \in Assocs : PowerOfTwo(a)
SizesArePowers == \A s \in CacheSizes : PowerOfTwo(s) /\ \A a \in Assocs, b \in BlockSizes : a * b <= s

(* With powers of two on the command line and a factor that is one, the    *)
(* ways of every level are a power of two.                                 *)
LEMMA WaysOfLevels ==
  ASSUME ConstructionInv, KnobsFit, WaysArePowers, CacheCounts \cap 5 .. 8 = {}, NEW k \in AllCaches
  PROVE  \E f \in 1 .. 64, e \in Bits :
           /\ f * knobs.csize \in 1 .. Pow[Width] - 1 /\ f * knobs.assoc \in 1 .. Pow[Width - 1]
           /\ f * knobs.assoc = Pow[e]
           /\ k.geometry = Geometry(f * knobs.csize, f * knobs.assoc, knobs.bsize)
<1> DEFINE g == k.geometry
<1>1. knobs \in KnobValues
  BY DEF ConstructionInv
<1>2. PICK f \in 1 .. 64 : /\ f \in {1, LevelFactor(knobs), 64}
                           /\ g = Geometry(f * knobs.csize, f * knobs.assoc, knobs.bsize)
  BY GeometriesAre
<1>3. PICK j \in 0 .. 6 : f = Pow[j]
  <2>1. f \in {1, 4, 8, 16, 64}
    <3>1. knobs.numcaches \notin 5 .. 8
      BY <1>1, KnobFacts
    <3>2. f = LevelFactor(knobs) => f \in {4, 8, 16}
      BY <1>1, <3>1, FactorIs
    <3> QED BY <1>2, <3>2
  <2>2. 2 ^ 0 = 1 /\ 2 ^ 2 = 4 /\ 2 ^ 3 = 8 /\ 2 ^ 4 = 16 /\ 2 ^ 6 = 64
    OBVIOUS
  <2>3. 0 \in 0 .. 32 /\ 2 \in 0 .. 32 /\ 3 \in 0 .. 32 /\ 4 \in 0 .. 32 /\ 6 \in 0 .. 32
    OBVIOUS
  <2>4. Pow[0] = 1 /\ Pow[2] = 4 /\ Pow[3] = 8 /\ Pow[4] = 16 /\ Pow[6] = 64
    BY <2>2, <2>3, PowIs
  <2> QED BY <2>1, <2>4
<1>4. PICK i \in Bits : knobs.assoc = Pow[i]
  BY <1>1, KnobFacts, PowerOfTwoIs DEF WaysArePowers
<1>5. f * knobs.assoc \in 1 .. Pow[Width - 1] /\ f * knobs.csize \in 1 .. Pow[Width] - 1
      /\ knobs.bsize \in Nat \ {0}
  BY <1>1, FittingKnobs, KnobFacts
<1>6. PICK e \in Bits : f * knobs.assoc = Pow[e]
  <2>1. i \in 0 .. 31 /\ j \in 0 .. 32 /\ i \in 0 .. 32 /\ i \in 0 .. Width
    BY BitNumber
  <2>2. f * knobs.assoc = Pow[j] * Pow[i]
    BY <1>3, <1>4
  <2>3. j + i \in 0 .. 32 /\ j + i < Width
    <3> SUFFICES ASSUME j + i >= Width PROVE FALSE
      BY <2>1, WidthAssumption
    <3> DEFINE m == Width - 1 - i
    <3>1. m \in 0 .. 32 /\ m < j /\ Width - 1 \in 0 .. 32 /\ i <= Width - 1 /\ m = (Width - 1) - i
      <4>1. i < Width
        BY BitNumber
      <4> QED BY <2>1, <4>1, WidthAssumption
    <3>2. Pow[Width - 1] = Pow[i] * Pow[m]
      BY <2>1, <3>1, PowSplits
    <3> HIDE DEF m
    <3>3. Pow[m] < Pow[j] /\ Pow[m] \in Nat /\ Pow[j] \in Nat /\ Pow[i] \in Nat \ {0}
      BY <2>1, <3>1, PowGrows, PowFacts
    <3>4. Pow[i] * Pow[m] < Pow[j] * Pow[i]
      BY <3>3
    <3>5. Pow[j] * Pow[i] \in 1 .. Pow[Width - 1]
      BY <1>5, <2>2
    <3> QED BY <3>2, <3>3, <3>4, <3>5
  <2>4. Pow[j] * Pow[i] = Pow[j + i]
    <3>1. i \in 0 .. 32 /\ j \in 0 .. 32 /\ j + i <= 32
      BY <2>1, <2>3
    <3> QED BY <3>1, PowAdds
  <2>5. j + i \in Bits
    BY <2>3, WidthAssumption DEF Bits
  <2> QED BY <2>2, <2>4, <2>5
<1>7. /\ f * knobs.csize \in 1 .. Pow[Width] - 1 /\ f * knobs.assoc \in 1 .. Pow[Width - 1]
      /\ f * knobs.assoc = Pow[e] /\ k.geometry = Geometry(f * knobs.csize, f * knobs.assoc, knobs.bsize)
  BY <1>2, <1>5, <1>6
<1> QED BY <1>7

(* Every level has the same number of sets, a power of two.                *)
LEMMA SetsOfLevels ==
  ASSUME ConstructionInv, BlocksArePowers, WaysArePowers, SizesArePowers
  PROVE  \E d \in Bits : \A k \in AllCaches : k.geometry.sets = Pow[d]
<1>1. knobs \in KnobValues
  BY DEF ConstructionInv
<1>2. PICK i \in Bits, j \in Bits, l \in Bits :
        knobs.csize = Pow[i] /\ knobs.assoc = Pow[j] /\ knobs.bsize = Pow[l]
  <2>1. knobs.csize \in CacheSizes /\ knobs.assoc \in Assocs /\ knobs.bsize \in BlockSizes
    BY <1>1, KnobFacts
  <2>2. PowerOfTwo(knobs.csize) /\ PowerOfTwo(knobs.assoc) /\ PowerOfTwo(knobs.bsize)
    BY <2>1 DEF BlocksArePowers, WaysArePowers, SizesArePowers
  <2> QED BY <2>2, PowerOfTwoIs
<1>3. Pow[j] * Pow[l] <= Pow[i]
  <2>1. knobs.csize \in CacheSizes /\ knobs.assoc \in Assocs /\ knobs.bsize \in BlockSizes
    BY <1>1, KnobFacts
  <2> QED BY <1>2, <2>1 DEF SizesArePowers
<1>4. PICK d \in Bits : \A f \in Nat \ {0} : Geometry(f * Pow[i], f * Pow[j], Pow[l]).sets = Pow[d]
  BY <1>3, SetsArePower
<1>5. ASSUME NEW k \in AllCaches PROVE k.geometry.sets = Pow[d]
  <2>1. PICK f \in 1 .. 64 : k.geometry = Geometry(f * knobs.csize, f * knobs.assoc, knobs.bsize)
    BY GeometriesAre
  <2>2. f \in Nat \ {0}
    OBVIOUS
  <2> QED BY <1>2, <1>4, <2>1, <2>2
<1> QED BY <1>5

-----------------------------------------------------------------------------
(* The theorems.                                                           *)

(* log2i and roundUpPower2 agree with the least power of two, for every    *)
(* number up to the ways of main memory.                                   *)
THEOREM SnippetsAlwaysRoundUp == ASSUME KnobsFit PROVE Spec => []SnippetsRoundUp
<1>1. ConstructionInv => SnippetsRoundUp
  <2> SUFFICES ASSUME ConstructionInv, NEW n \in 1 .. 64 * knobs.assoc
               PROVE  Log2i(n) = LeastPower(n) /\ RoundUpPower2(n) = 2 ^ LeastPower(n)
    BY DEF SnippetsRoundUp
  <2>1. 64 * knobs.assoc \in 1 .. Pow[Width - 1] /\ Pow[Width - 1] \in Nat
    <3>1. knobs \in KnobValues /\ 64 \in 1 .. 64 /\ Width - 1 \in 0 .. 32
      BY WidthFacts DEF ConstructionInv
    <3> QED BY <3>1, FittingKnobs, PowFacts
  <2>2. n \in 1 .. Pow[Width - 1]
    BY <2>1
  <2>3. LeastPower(n) \in 0 .. 32
    BY <2>2, LeastPowerIs, BitNumber
  <2> QED BY <2>2, <2>3, RoundsUp, PowIs
<1> QED BY <1>1, ConstructionAlways, PTL

(* Type invariant of construction: the containers have the levels that     *)
(* main creates, numbered as findCacheByCPUId expects, and no size, count  *)
(* or shift that a constructor computes overflows.                         *)
THEOREM ConstructionTypeCorrect == ASSUME KnobsFit PROVE Spec => []ConstructionTypeOK
<1>1. ASSUME ConstructionInv PROVE ConstructionTypeOK
  <2>1. knobs \in KnobValues
    BY <1>1 DEF ConstructionInv
  <2>2. Len(ref) <= 1
    <3>1. \A c : Len(<<c>>) = 1
      OBVIOUS
    <3>2. Len(<<>>) = 0
      OBVIOUS
    <3>3. CASE ref = <<>>
      BY <3>2, <3>3
    <3>4. CASE \E c \in AllGrowing(knobs) : ref = <<c>>
      BY <3>1, <3>4
    <3> QED BY <1>1, <3>3, <3>4 DEF ConstructionInv
  <2>3. ASSUME NEW c \in ToSet(Caches) \cup ToSet(ref)
        PROVE  /\ \A i \in DOMAIN c.privateCaches : c.privateCaches[i].CPUId = i - 1
               /\ Len(c.llc) <= 1 /\ Len(c.main) <= Len(c.llc)
    <3>1. c \in Containers(knobs)
      BY <1>1, <2>3, ContainersAre
    <3>2. \A x : Len(<<x>>) = 1
      OBVIOUS
    <3>3. Len(<<>>) = 0
      OBVIOUS
    <3>4. Len(c.llc) <= 1 /\ Len(c.main) <= Len(c.llc)
      <4>1. CASE c \in AllGrowing(knobs)
        <5>1. c.llc = <<>> /\ c.main = <<>>
          BY <4>1 DEF AllGrowing, Growing
        <5> QED BY <3>3, <5>1
      <4>2. CASE c = Shared(knobs)
        <5>1. c.llc = <<SharedCache(knobs, UNSET)>> /\ c.main = <<>>
          BY <4>2 DEF Shared
        <5> QED BY <3>2, <3>3, <5>1
      <4>3. CASE c = Whole(knobs)
        <5>1. c.llc = <<SharedCache(knobs, Main)>> /\ c.main = <<MainMemory(knobs)>>
          BY <4>3 DEF Whole
        <5> QED BY <3>2, <5>1
      <4> QED BY <3>1, <4>1, <4>2, <4>3 DEF Containers
    <3>5. PICK n \in 0 .. knobs.numcaches, p \in {UNSET, LLC} : c.privateCaches = PrivateCaches(knobs, n, p)
      <4>1. knobs.numcaches \in 0 .. knobs.numcaches
        BY <2>1, KnobFacts
      <4> QED BY <3>1, <4>1 DEF Containers, AllGrowing, Growing, Shared, Whole
    <3>6. ASSUME NEW i \in DOMAIN c.privateCaches PROVE c.privateCaches[i].CPUId = i - 1
      <4>1. c.privateCaches[i] = PrivateCache(knobs, i, p)
        BY <2>1, <3>5, PrivateCachesAre
      <4> QED BY <4>1 DEF PrivateCache, NewCache
    <3> QED BY <3>4, <3>6
  <2>4. ASSUME NEW c \in ToSet(Caches) \cup ToSet(ref), NEW k \in CachesOf(c)
        PROVE  /\ k.parent \in {LLC, Main, NULL, UNSET}
               /\ \A f \in DOMAIN k.geometry : k.geometry[f] \in Word
    <3>1. k \in AllCaches
      BY DEF AllCaches
    <3>2. Level(knobs, k)
      BY <1>1, <3>1, GeometriesAre
    <3>3. k.parent \in {LLC, Main, NULL, UNSET}
      BY <3>2 DEF Level, PrivateCache, SharedCache, MainMemory, NewCache
    <3>4. PICK f \in 1 .. 64 : k.geometry = Geometry(f * knobs.csize, f * knobs.assoc, knobs.bsize)
      BY <1>1, <3>1, GeometriesAre
    <3>5. /\ f * knobs.csize \in 1 .. Pow[Width] - 1 /\ f * knobs.assoc \in 1 .. Pow[Width - 1]
          /\ knobs.bsize \in 1 .. Pow[Width - 1]
      BY <2>1, FittingKnobs
    <3> QED BY <3>3, <3>4, <3>5, GeometryFits
  <2> QED BY <1>1, <2>1, <2>2, <2>3, <2>4 DEF ConstructionInv, ConstructionTypeOK
<1> QED BY <1>1, ConstructionAlways, PTL

(* A tag and an offset give the address back, in every cache that main     *)
(* builds.                                                                 *)
THEOREM AddressesAlwaysSplit ==
  ASSUME KnobsFit, BlocksArePowers
  PROVE  Spec => []AddressesSplit
<1>1. ASSUME ConstructionInv PROVE AddressesSplit
  <2> SUFFICES ASSUME NEW k \in AllCaches, NEW addr \in 0 .. 3 * k.geometry.lineSize
               PROVE  calcAddr4Tag(k.geometry, calcTag(k.geometry, addr)) + calcOffset(k.geometry, addr) = addr
    BY DEF AddressesSplit, Geometries
  <2>1. knobs \in KnobValues
    BY <1>1 DEF ConstructionInv
  <2>2. PICK f \in 1 .. 64 : k.geometry = Geometry(f * knobs.csize, f * knobs.assoc, knobs.bsize)
    BY <1>1, GeometriesAre
  <2>3. PICK e \in Bits : knobs.bsize = Pow[e]
    BY <2>1, KnobFacts, PowerOfTwoIs DEF BlocksArePowers
  <2>4. k.geometry.lineSize = Pow[e] /\ k.geometry.log2AddrLs = e
    <3>1. Log2i(Pow[e]) = e
      BY Log2OfPower
    <3> QED BY <2>2, <2>3, <3>1 DEF Geometry
  <2>5. addr \in Nat /\ addr < Pow[Width]
    <3>1. 3 * Pow[e] < Pow[Width]
      BY <2>1, <2>2, <2>3, FittingKnobs
    <3>2. Pow[e] \in Nat /\ Pow[Width] \in Nat
      BY BitNumber, WidthFacts
    <3> QED BY <2>4, <3>1, <3>2
  <2> QED BY <2>4, <2>5, AddressSplits
<1> QED BY <1>1, ConstructionAlways, PTL

(* The row of each set lies in the array of lines, past the row before it, *)
(* at every level: the factor of the last-level cache must itself be a     *)
(* power of two, which it is not for five to eight caches.                 *)
THEOREM RowsStayInside ==
  ASSUME KnobsFit, WaysArePowers, CacheCounts \cap 5 .. 8 = {}
  PROVE  Spec => []RowsInside
<1>1. ASSUME ConstructionInv PROVE RowsInside
  <2> SUFFICES ASSUME NEW k \in AllCaches, NEW set \in 0 .. k.geometry.sets - 1
               PROVE  LET g == k.geometry
                      IN  /\ calcIndex4Set(g, set) >= (IF set = 0 THEN 0 ELSE calcIndex4Set(g, set - 1) + g.assoc)
                          /\ calcIndex4Set(g, set) + g.assoc <= g.numLines
    BY DEF RowsInside, Geometries
  <2> DEFINE g == k.geometry
  <2>1. knobs \in KnobValues
    BY <1>1 DEF ConstructionInv
  <2>2. PICK f \in 1 .. 64, e \in Bits :
          /\ f * knobs.csize \in 1 .. Pow[Width] - 1 /\ f * knobs.assoc \in 1 .. Pow[Width - 1]
          /\ f * knobs.assoc = Pow[e] /\ g = Geometry(f * knobs.csize, f * knobs.assoc, knobs.bsize)
    BY <1>1, WaysOfLevels
  <2>5. f * knobs.assoc \in 1 .. Pow[Width - 1] /\ f * knobs.csize \in 1 .. Pow[Width] - 1
        /\ knobs.bsize \in Nat \ {0}
    BY <2>1, <2>2, KnobFacts
  <2>7. g = Geometry(f * knobs.csize, Pow[e], knobs.bsize) /\ g.assoc = Pow[e]
    BY <2>2 DEF Geometry
  <2>8. Pow[e] \in Nat \ {0} /\ set \in Nat
    BY BitNumber
  <2> HIDE DEF g
  <2>9. \A x \in 0 .. g.sets - 1 :
          calcIndex4Set(g, x) = x * Pow[e] /\ x * Pow[e] + Pow[e] <= g.numLines
    BY <2>5, <2>7, RowsFollow
  <2>10. calcIndex4Set(g, set) = set * Pow[e] /\ set * Pow[e] + Pow[e] <= g.numLines
    BY <2>9 DEF g
  <2>11. CASE set = 0
    <3>1. set * Pow[e] = 0
      BY <2>8, <2>11
    <3> QED BY <2>7, <2>8, <2>10, <2>11, <3>1 DEF g
  <2>12. CASE set # 0
    <3>1. set - 1 \in 0 .. g.sets - 1
      <4>1. set \in 0 .. g.sets - 1 /\ g.sets \in Int
        <5>1. g.sets \in Word
          <6>1. \A h \in DOMAIN g : g[h] \in Word
            <7>1. knobs.bsize \in 1 .. Pow[Width - 1]
              BY <2>1, <2>2, FittingKnobs
            <7> QED BY <2>2, <2>5, <7>1, GeometryFits DEF g
          <6>2. "sets" \in DOMAIN g
            BY <2>7 DEF Geometry
          <6> QED BY <6>1, <6>2
        <5> QED BY <5>1, WidthFacts DEF g
      <4> QED BY <2>8, <2>12, <4>1
    <3>2. calcIndex4Set(g, set - 1) = (set - 1) * Pow[e]
      BY <2>9, <3>1
    <3>3. (set - 1) * Pow[e] + Pow[e] = set * Pow[e]
      BY <2>8
    <3>4. set * Pow[e] >= set * Pow[e]
      BY <2>8
    <3> QED BY <2>7, <2>10, <2>12, <3>2, <3>3, <3>4 DEF g
  <2> QED BY <2>11, <2>12
<1> QED BY <1>1, ConstructionAlways, PTL

(* A complete container is the hierarchy that MSI_SMPCache assumes: one    *)
(* number of sets, a power of two, at all levels, and each cache linked to *)
(* the next level, though the links are set only after the caches exist.   *)
THEOREM AlwaysBuiltAsModelled ==
  ASSUME KnobsFit, BlocksArePowers, WaysArePowers, SizesArePowers
  PROVE  Spec => []BuiltAsModelled
<1>1. ASSUME ConstructionInv PROVE BuiltAsModelled
  <2>1. knobs \in KnobValues
    BY <1>1 DEF ConstructionInv
  <2>4. PICK d \in Bits : \A k \in AllCaches : k.geometry.sets = Pow[d]
    BY <1>1, SetsOfLevels
  <2>5. \A k \in AllCaches : k.geometry.sets = Pow[d]
    BY <2>4
  <2>6. Pow[d] \in Nat \ {0} /\ Pow[d] \in Word /\ PowerOfTwo(Pow[d])
    <3>1. Pow[d] \in Nat \ {0} /\ d \in 0 .. Width /\ d < Width
      BY BitNumber
    <3>2. Pow[d] < Pow[Width]
      BY <3>1, Exponent
    <3> QED BY <3>1, <3>2, WidthFacts, PowerOfTwoIs
  <2> SUFFICES ASSUME NEW c \in ToSet(Caches), Complete(c)
               PROVE  /\ \E sets \in Word : \A k \in CachesOf(c) : k.geometry.sets = sets /\ PowerOfTwo(sets)
                      /\ \A k \in CachesOf(c) : \A tag \in 0 .. 2 * k.geometry.sets :
                           calcSet4Tag(k.geometry, tag) = tag % k.geometry.sets
                      /\ \A k \in CachesOf(c) :
                           k.parent = IF k.CPUId = Main THEN NULL ELSE IF k.CPUId = LLC THEN Main ELSE LLC
    BY DEF BuiltAsModelled
  <2>7. \A k \in CachesOf(c) : k \in AllCaches
    BY DEF AllCaches
  <2>8. ASSUME NEW k \in CachesOf(c), NEW tag \in 0 .. 2 * k.geometry.sets
        PROVE  calcSet4Tag(k.geometry, tag) = tag % k.geometry.sets
    <3>1. k.geometry.sets = Pow[d]
      BY <2>5, <2>7
    <3>2. tag \in Nat
      BY <2>6, <3>1
    <3> QED BY <3>1, <3>2, MaskPicksSet
  <2>9. c = Whole(knobs)
    <3>1. c \in Containers(knobs)
      BY <1>1, ContainersAre
    <3>2. c.main # <<>>
      <4>1. Len(<<>>) = 0
        OBVIOUS
      <4>2. Len(c.main) = 1
        BY DEF Complete
      <4>3. Len(c.main) # Len(<<>>)
        BY <4>1, <4>2
      <4> QED BY <4>3
    <3>3. c \notin AllGrowing(knobs) /\ c # Shared(knobs)
      BY <3>2 DEF AllGrowing, Growing, Shared
    <3> QED BY <3>1, <3>3 DEF Containers
  <2>10. Shared(knobs) # Whole(knobs)
    <3>1. Shared(knobs).main = <<>> /\ Whole(knobs).main = <<MainMemory(knobs)>>
      BY DEF Shared, Whole
    <3>2. <<MainMemory(knobs)>> # <<>>
      OBVIOUS
    <3> QED BY <3>1, <3>2
  <2>11. ASSUME NEW k \in CachesOf(c)
         PROVE  k.parent = IF k.CPUId = Main THEN NULL ELSE IF k.CPUId = LLC THEN Main ELSE LLC
    <3>1. \/ \E n \in 1 .. knobs.numcaches : k = PrivateCache(knobs, n, LLC)
          \/ k = SharedCache(knobs, Main)
          \/ k = MainMemory(knobs)
      BY <2>1, <2>9, <2>10, CachesOfShared
    <3>2. CASE \E n \in 1 .. knobs.numcaches : k = PrivateCache(knobs, n, LLC)
      <4>1. PICK n \in 1 .. knobs.numcaches : k = PrivateCache(knobs, n, LLC)
        BY <3>2
      <4>2. k.CPUId = n - 1 /\ k.parent = LLC
        BY <4>1 DEF PrivateCache, NewCache
      <4>3. n - 1 # LLC /\ n - 1 # Main
        <5>1. knobs.numcaches \in 1 .. 16
          BY <2>1, KnobFacts
        <5> QED BY <5>1 DEF LLC, Main
      <4> QED BY <4>2, <4>3
    <3>3. CASE k = SharedCache(knobs, Main)
      BY <3>3 DEF SharedCache, NewCache, LLC, Main
    <3>4. CASE k = MainMemory(knobs)
      BY <3>4 DEF MainMemory, NewCache
    <3> QED BY <3>1, <3>2, <3>3, <3>4
  <2> QED BY <2>5, <2>6, <2>7, <2>8, <2>11
<1> QED BY <1>1, ConstructionAlways, PTL

(* What the constructor's comment asks of the ways and the sets holds at   *)
(* every level, except for five to eight caches.                           *)
THEOREM WaysAndSetsArePowers ==
  ASSUME KnobsFit, BlocksArePowers, WaysArePowers, SizesArePowers, CacheCounts \cap 5 .. 8 = {}
  PROVE  Spec => []PowersOfTwo
<1>1. ASSUME ConstructionInv PROVE PowersOfTwo
  <2> SUFFICES ASSUME NEW k \in AllCaches PROVE PowerOfTwo(k.geometry.assoc) /\ PowerOfTwo(k.geometry.sets)
    BY DEF PowersOfTwo, Geometries
  <2>1. PICK f \in 1 .. 64, e \in Bits :
          f * knobs.assoc = Pow[e] /\ k.geometry = Geometry(f * knobs.csize, f * knobs.assoc, knobs.bsize)
    BY <1>1, WaysOfLevels
  <2>2. k.geometry.assoc = Pow[e]
    BY <2>1 DEF Geometry
  <2>3. \E d \in Bits : k.geometry.sets = Pow[d]
    BY <1>1, SetsOfLevels
  <2> QED BY <2>2, <2>3, PowerOfTwoIs
<1> QED BY <1>1, ConstructionAlways, PTL

(* The construction crashes for one cache only, whose logarithm leaves the *)
(* last-level cache without ways.                                          *)
THEOREM OnlyOneCacheCrashes == ASSUME 1 \notin CacheCounts PROVE Spec => []ConstructionCompletes
<1>1. ASSUME ConstructionInv PROVE ConstructionCompletes
  <2> SUFFICES ASSUME pc = "crashed" PROVE FALSE
    BY DEF ConstructionCompletes
  <2>1. knobs \in KnobValues /\ LevelFactor(knobs) = 0
    BY <1>1 DEF ConstructionInv
  <2> QED BY <2>1, FactorIs, KnobFacts
<1> QED BY <1>1, ConstructionAlways, PTL

=============================================================================
