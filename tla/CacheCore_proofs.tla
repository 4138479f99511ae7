-------------------------- MODULE CacheCore_proofs --------------------------
(***************************************************************************)
(* Lemmas about the row operators of CacheCore, for rows of any length:    *)
(* lookups and fills keep a row well formed, and a lookup only permutes it.*)
(***************************************************************************)
EXTENDS CacheCore, WellFoundedInduction, TLAPS

-----------------------------------------------------------------------------
(* Min and Max are CHOOSE expressions: that they lie in the set has to be  *)
(* shown.                                                                  *)

Below == {ss \in Nat \X Nat : ss[1] < ss[2]}

(* The order that the well-foundedness of the naturals speaks of.          *)
LEMMA BelowWellFounded == IsWellFoundedOn(Below, Nat)
  BY NatLessThanWellFounded, Zenon DEF OpToRel, Below

(* A set of naturals that is not empty has a least element.                *)
LEMMA LeastExists ==
  ASSUME NEW S \in SUBSET Nat, S # {}
  PROVE  \E x \in S : \A y \in S : x <= y
<1>1. \E x \in S : \A y \in S : ~(<<y, x>> \in Below)
  BY BelowWellFounded, WFMin
<1>2. PICK x \in S : \A y \in S : ~(<<y, x>> \in Below)
  BY <1>1
<1>3. ASSUME NEW y \in S PROVE x <= y
  <2>1. x \in Nat /\ y \in Nat
    OBVIOUS
  <2>2. <<y, x>> \in Nat \X Nat /\ <<y, x>>[1] = y /\ <<y, x>>[2] = x
    BY <2>1
  <2>3. ~(y < x)
    BY <1>2, <2>2 DEF Below
  <2> QED BY <2>1, <2>3
<1> QED BY <1>3

(* Min and Max of such sets are what their names say.                      *)
LEMMA MinIn ==
  ASSUME NEW S \in SUBSET Nat, S # {}
  PROVE  Min(S) \in S /\ \A y \in S : Min(S) <= y
BY LeastExists DEF Min

(* For Max the set has to have a bound.                                    *)
LEMMA MaxIn ==
  ASSUME NEW n \in Nat, NEW S \in SUBSET (0 .. n), S # {}
  PROVE  Max(S) \in S /\ \A y \in S : y <= Max(S)
<1> DEFINE T == {n - x : x \in S}
<1>1. T \in SUBSET Nat /\ T # {}
  <2>1. \A x \in S : x \in 0 .. n
    OBVIOUS
  <2>2. \A x \in S : n - x \in Nat
    BY <2>1
  <2> QED BY <2>2
<1>2. PICK z \in T : \A y \in T : z <= y
  BY <1>1, LeastExists
<1>3. PICK x \in S : z = n - x
  OBVIOUS
<1>4. ASSUME NEW y \in S PROVE x >= y
  <2>1. n - y \in T
    OBVIOUS
  <2>2. n - x <= n - y
    BY <1>2, <1>3, <2>1
  <2> QED BY <2>2
<1>5. \E m \in S : \A y \in S : m >= y
  BY <1>4
<1> QED BY <1>5 DEF Max

-----------------------------------------------------------------------------
(* Types.                                                                  *)

(* A lookup that finds a tag finds it at a position of the row, and        *)
(* prefers a live line.                                                    *)
LEMMA FindPosIn ==
  ASSUME NEW n \in Nat \ {0}, NEW row \in Row(n), NEW t, Found(row, t)
  PROVE  /\ FindPos(row, t) \in 1 .. n
         /\ row[FindPos(row, t)].tag = t
         /\ Live(row, t) # {} => FindPos(row, t) \in Live(row, t)
<1> DEFINE S == IF Live(row, t) # {} THEN Live(row, t) ELSE Matches(row, t)
<1>1. DOMAIN row = 1 .. n
  BY DEF Row
<1>2. S \in SUBSET Matches(row, t) /\ S # {} /\ Matches(row, t) \subseteq 1 .. n
  BY <1>1 DEF Live, Matches, Found
<1>3. S \in SUBSET Nat
  BY <1>2
<1>4. FindPos(row, t) = Min(S)
  BY DEF FindPos
<1>5. FindPos(row, t) \in S
  BY <1>2, <1>3, <1>4, MinIn
<1> QED BY <1>2, <1>5 DEF Matches

(* Where the line that MoveToFront(row, p) puts at place q comes from.     *)
Src(p, q) == IF q = 1 THEN p ELSE IF q <= p THEN q - 1 ELSE q

(* Moving a line to the front permutes the row.                            *)
LEMMA MoveToFrontPermutes ==
  ASSUME NEW n \in Nat \ {0}, NEW row \in Row(n), NEW p \in 1 .. n
  PROVE  /\ MoveToFront(row, p) \in Row(n)
         /\ \A q \in 1 .. n : Src(p, q) \in 1 .. n /\ MoveToFront(row, p)[q] = row[Src(p, q)]
         /\ \A q, r \in 1 .. n : q # r => Src(p, q) # Src(p, r)
<1>1. DOMAIN row = 1 .. n
  BY DEF Row
<1>2. \A q \in 1 .. n : Src(p, q) \in 1 .. n
  BY DEF Src
<1>3. \A q \in 1 .. n : MoveToFront(row, p)[q] = row[Src(p, q)]
  BY <1>1 DEF MoveToFront, Src
<1>4. \A q, r \in 1 .. n : q # r => Src(p, q) # Src(p, r)
  BY DEF Src
<1>5. MoveToFront(row, p) = [q \in 1 .. n |-> row[Src(p, q)]]
  BY <1>1, <1>2 DEF MoveToFront, Src
<1>6. MoveToFront(row, p) \in Row(n)
  BY <1>2, <1>5 DEF Row
<1> QED BY <1>2, <1>3, <1>4, <1>6

(* A lookup yields a row of the same type.                                 *)
LEMMA FindLineType ==
  ASSUME NEW n \in Nat \ {0}, NEW row \in Row(n), NEW t
  PROVE  FindLine(row, t) \in Row(n)
BY FindPosIn, MoveToFrontPermutes DEF FindLine, Found

(* findLine2Replace always has a line to offer.                            *)
LEMMA ReplacePosIn ==
  ASSUME NEW n \in Nat \ {0}, NEW row \in Row(n), NEW t
  PROVE  ReplacePos(row, t) \in 1 .. n
<1>1. DOMAIN row = 1 .. n
  BY DEF Row
<1>2. Live(row, t) \in SUBSET (1 .. n) /\ Free(row) \in SUBSET (1 .. n)
  BY <1>1 DEF Live, Matches, Free
<1>3. CASE 1 \in Live(row, t)
  BY <1>3 DEF ReplacePos
<1>4. CASE 1 \notin Live(row, t) /\ Live(row, t) # {}
  <2>1. Max(Live(row, t)) \in Live(row, t)
    <3>1. Live(row, t) \in SUBSET (0 .. n)
      BY <1>2
    <3> QED BY <1>4, <3>1, MaxIn
  <2> QED BY <1>2, <1>4, <2>1 DEF ReplacePos
<1>5. CASE Live(row, t) = {} /\ Free(row) # {}
  <2>1. Free(row) \in SUBSET Nat
    BY <1>2
  <2>2. Min(Free(row)) \in Free(row)
    BY <1>5, <2>1, MinIn
  <2> QED BY <1>2, <1>5, <2>2 DEF ReplacePos
<1>6. CASE Live(row, t) = {} /\ Free(row) = {}
  <2> DEFINE S == 1 .. n
  <2>1. S \in SUBSET (0 .. n) /\ S # {}
    OBVIOUS
  <2>2. Max(S) \in S
    <3> HIDE DEF S
    <3> QED BY <2>1, MaxIn
  <2> QED BY <1>1, <1>6, <2>2 DEF ReplacePos
<1> QED BY <1>3, <1>4, <1>5, <1>6

(* The victim of a fill is a line.                                         *)
LEMMA VictimType ==
  ASSUME NEW n \in Nat \ {0}, NEW row \in Row(n), NEW t
  PROVE  Victim(row, t) \in Line
BY ReplacePosIn DEF Victim, Row

(* A fill yields a row of the same type, with the new line at the place of *)
(* the slot.                                                               *)
LEMMA InstallType ==
  ASSUME NEW n \in Nat \ {0}, NEW row \in Row(n), NEW t \in Tags,
         NEW s \in States, NEW data \in LineData
  PROVE  /\ SlotPos(row, t) \in 1 .. n
         /\ FindLine2Replace(row, t) \in Row(n)
         /\ Install(row, t, s, data) \in Row(n)
<1>1. FindLine2Replace(row, t) \in Row(n)
  BY ReplacePosIn, MoveToFrontPermutes DEF FindLine2Replace
<1>2. SlotPos(row, t) \in 1 .. n
  BY ReplacePosIn DEF SlotPos
<1>3. [tag |-> t, state |-> s, islineInvalid |-> FALSE, data |-> data] \in Line
  BY DEF Line
<1> QED BY <1>1, <1>2, <1>3 DEF Install, Row

(* The updates of a line that the protocol makes yield a line.             *)
LEMMA LineUpdateType ==
  ASSUME NEW line \in Line
  PROVE  /\ \A s \in States : [line EXCEPT !.state = s] \in Line
         /\ \A data \in LineData : [line EXCEPT !.data = data, !.islineInvalid = FALSE] \in Line
         /\ [line EXCEPT !.state = "I", !.islineInvalid = TRUE] \in Line
BY DEF Line, States

(* The updates of the line in front keep the type of the row.              *)
LEMMA FrontUpdateType ==
  ASSUME NEW n \in Nat \ {0}, NEW row \in Row(n)
  PROVE  /\ \A s \in States : SetState(row, s) \in Row(n)
         /\ \A data \in LineData : SetData(row, data) \in Row(n)
         /\ Invalidate(row) \in Row(n)
<1>1. 1 \in 1 .. n /\ row[1] \in Line
  BY DEF Row
<1>2. \A line \in Line : [row EXCEPT ![1] = line] \in Row(n)
  BY <1>1 DEF Row
<1>3. ASSUME NEW s \in States PROVE SetState(row, s) \in Row(n)
  BY <1>1, <1>2, LineUpdateType DEF SetState
<1>4. ASSUME NEW data \in LineData PROVE SetData(row, data) \in Row(n)
  BY <1>1, <1>2, LineUpdateType DEF SetData
<1>5. Invalidate(row) \in Row(n)
  BY <1>1, <1>2, LineUpdateType DEF Invalidate
<1> QED BY <1>3, <1>4, <1>5

-----------------------------------------------------------------------------
(* Well-formed rows.                                                       *)

(* The two flags of every line agree, and no tag is live twice.            *)
Flagged(row) == \A p \in DOMAIN row : row[p].islineInvalid <=> row[p].state = "I"
Single(row) == \A p, q \in DOMAIN row :
  (p # q /\ row[p].tag = row[q].tag) => ~(IsValid(row[p]) /\ IsValid(row[q]))
RowOK(row) == Flagged(row) /\ Single(row)

(* What a row says to the other caches about a tag.                        *)
Has(row, t) == \E p \in DOMAIN row : row[p].tag = t /\ IsValid(row[p])
Owns(row, t) == \E p \in DOMAIN row : row[p].tag = t /\ row[p].state = "M"

(* A permutation changes none of this.                                     *)
LEMMA MoveToFrontOK ==
  ASSUME NEW n \in Nat \ {0}, NEW row \in Row(n), NEW p \in 1 .. n
  PROVE  /\ RowOK(row) => RowOK(MoveToFront(row, p))
         /\ \A t : Has(MoveToFront(row, p), t) <=> Has(row, t)
         /\ \A t : Owns(MoveToFront(row, p), t) <=> Owns(row, t)
<1> DEFINE new == MoveToFront(row, p)
<1>1. DOMAIN row = 1 .. n /\ DOMAIN new = 1 .. n
  BY MoveToFrontPermutes DEF Row
<1>2. \A q \in 1 .. n : Src(p, q) \in 1 .. n /\ new[q] = row[Src(p, q)]
  BY MoveToFrontPermutes
<1>3. \A q, r \in 1 .. n : q # r => Src(p, q) # Src(p, r)
  BY MoveToFrontPermutes
<1>4. \A r \in 1 .. n : \E q \in 1 .. n : Src(p, q) = r
  <2> SUFFICES ASSUME NEW r \in 1 .. n PROVE \E q \in 1 .. n : Src(p, q) = r
    OBVIOUS
  <2>1. CASE r = p
    BY <2>1 DEF Src
  <2>2. CASE r < p
    <3>1. r + 1 \in 1 .. n /\ Src(p, r + 1) = r
      BY <2>2 DEF Src
    <3> QED BY <3>1
  <2>3. CASE r > p
    BY <2>3 DEF Src
  <2> QED BY <2>1, <2>2, <2>3
<1>5. \A r \in 1 .. n : \E q \in 1 .. n : new[q] = row[r]
  BY <1>2, <1>4
<1> HIDE DEF new
<1>6. RowOK(row) => RowOK(new)
  <2> SUFFICES ASSUME RowOK(row) PROVE RowOK(new)
    OBVIOUS
  <2>1. Flagged(new)
    BY <1>1, <1>2 DEF RowOK, Flagged
  <2>2. Single(new)
    <3> SUFFICES ASSUME NEW q \in 1 .. n, NEW r \in 1 .. n, q # r, new[q].tag = new[r].tag
                 PROVE  ~(IsValid(new[q]) /\ IsValid(new[r]))
      BY <1>1 DEF Single
    <3>1. /\ Src(p, q) \in 1 .. n /\ new[q] = row[Src(p, q)]
          /\ Src(p, r) \in 1 .. n /\ new[r] = row[Src(p, r)]
          /\ Src(p, q) # Src(p, r)
      BY <1>2, <1>3
    <3> QED BY <1>1, <3>1 DEF RowOK, Single
  <2> QED BY <2>1, <2>2 DEF RowOK
<1>7. \A t : Has(new, t) <=> Has(row, t)
  <2> SUFFICES ASSUME NEW t PROVE Has(new, t) <=> Has(row, t)
    OBVIOUS
  <2>1. ASSUME Has(new, t) PROVE Has(row, t)
    <3>1. PICK q \in 1 .. n : new[q].tag = t /\ IsValid(new[q])
      BY <1>1, <2>1 DEF Has
    <3> QED BY <1>1, <1>2, <3>1 DEF Has
  <2>2. ASSUME Has(row, t) PROVE Has(new, t)
    <3>1. PICK r \in 1 .. n : row[r].tag = t /\ IsValid(row[r])
      BY <1>1, <2>2 DEF Has
    <3>2. PICK q \in 1 .. n : new[q] = row[r]
      BY <1>5
    <3> QED BY <1>1, <3>1, <3>2 DEF Has
  <2> QED BY <2>1, <2>2
<1>8. \A t : Owns(new, t) <=> Owns(row, t)
  <2> SUFFICES ASSUME NEW t PROVE Owns(new, t) <=> Owns(row, t)
    OBVIOUS
  <2>1. ASSUME Owns(new, t) PROVE Owns(row, t)
    <3>1. PICK q \in 1 .. n : new[q].tag = t /\ new[q].state = "M"
      BY <1>1, <2>1 DEF Owns
    <3> QED BY <1>1, <1>2, <3>1 DEF Owns
  <2>2. ASSUME Owns(row, t) PROVE Owns(new, t)
    <3>1. PICK r \in 1 .. n : row[r].tag = t /\ row[r].state = "M"
      BY <1>1, <2>2 DEF Owns
    <3>2. PICK q \in 1 .. n : new[q] = row[r]
      BY <1>5
    <3> QED BY <1>1, <3>1, <3>2 DEF Owns
  <2> QED BY <2>1, <2>2
<1> QED BY <1>6, <1>7, <1>8 DEF new

(* A row has a tag exactly if a lookup hits: the flag that the lookup      *)
(* prefers agrees with the state that the caller tests.                    *)
LEMMA HitsIffHas ==
  ASSUME NEW n \in Nat \ {0}, NEW row \in Row(n), RowOK(row), NEW t
  PROVE  Hits(row, t) <=> Has(row, t)
<1>1. DOMAIN row = 1 .. n
  BY DEF Row
<1>2. ASSUME Hits(row, t) PROVE Has(row, t)
  BY <1>1, <1>2, FindPosIn DEF Hits, Has
<1>3. ASSUME Has(row, t) PROVE Hits(row, t)
  <2>1. PICK p \in 1 .. n : row[p].tag = t /\ IsValid(row[p])
    BY <1>1, <1>3 DEF Has
  <2>2. ~row[p].islineInvalid
    BY <1>1, <2>1 DEF RowOK, Flagged, IsValid, Row, Line
  <2>3. p \in Matches(row, t) /\ p \in Live(row, t)
    BY <1>1, <2>1, <2>2 DEF Live, Matches
  <2>4. FindPos(row, t) \in Live(row, t)
    BY <2>3, FindPosIn DEF Found
  <2>5. IsValid(row[FindPos(row, t)])
    BY <1>1, <2>4 DEF Live, Matches, RowOK, Flagged, IsValid
  <2> QED BY <2>3, <2>5 DEF Hits, Found
<1> QED BY <1>2, <1>3

(* A lookup permutes the row, and leaves what it found in front.           *)
LEMMA FindLineOK ==
  ASSUME NEW n \in Nat \ {0}, NEW row \in Row(n), NEW t
  PROVE  /\ RowOK(row) => RowOK(FindLine(row, t))
         /\ \A u : Has(FindLine(row, t), u) <=> Has(row, u)
         /\ \A u : Owns(FindLine(row, t), u) <=> Owns(row, u)
         /\ Found(row, t) => FindLine(row, t)[1] = row[FindPos(row, t)]
         /\ Hits(row, t) => FindLine(row, t)[1].tag = t /\ IsValid(FindLine(row, t)[1])
<1>1. CASE ~Found(row, t)
  BY <1>1 DEF FindLine, Found, Hits
<1>2. CASE Found(row, t)
  <2> DEFINE p == FindPos(row, t)
  <2>1. p \in 1 .. n /\ row[p].tag = t
    BY <1>2, FindPosIn
  <2>2. FindLine(row, t) = MoveToFront(row, p)
    BY <1>2 DEF FindLine, Found
  <2>3. MoveToFront(row, p)[1] = row[p]
    BY <2>1 DEF MoveToFront, Row
  <2> HIDE DEF p
  <2>4. Hits(row, t) => IsValid(row[p])
    BY DEF Hits, p
  <2> QED BY <2>1, <2>2, <2>3, <2>4, MoveToFrontOK DEF p
<1> QED BY <1>1, <1>2

(* Moving the line in front to another live state touches no other tag.    *)
LEMMA SetStateOK ==
  ASSUME NEW n \in Nat \ {0}, NEW row \in Row(n), RowOK(row), IsValid(row[1]),
         NEW s \in {"M", "S"}
  PROVE  /\ RowOK(SetState(row, s))
         /\ \A u : Has(SetState(row, s), u) <=> Has(row, u)
         /\ \A u : Owns(SetState(row, s), u) =>
              IF u = row[1].tag THEN s = "M" ELSE Owns(row, u)
<1> DEFINE new == SetState(row, s)
<1>1. DOMAIN row = 1 .. n /\ DOMAIN new = 1 .. n /\ 1 \in 1 .. n
  BY DEF Row, SetState
<1>2. \A p \in 1 .. n : row[p] \in Line
  BY DEF Row
<1>3. /\ new[1].tag = row[1].tag /\ new[1].state = s
      /\ new[1].islineInvalid = row[1].islineInvalid
      /\ \A p \in 1 .. n : p # 1 => new[p] = row[p]
  BY <1>1, <1>2 DEF SetState, Line
<1> HIDE DEF new
<1>4. IsValid(new[1]) /\ \A p \in 1 .. n : IsValid(new[p]) <=> IsValid(row[p])
  BY <1>3 DEF IsValid
<1>5. \A p \in 1 .. n : new[p].tag = row[p].tag
  BY <1>3
<1>6. RowOK(new)
  <2>1. Flagged(new)
    BY <1>1, <1>3, <1>4 DEF RowOK, Flagged, IsValid
  <2>2. Single(new)
    BY <1>1, <1>4, <1>5 DEF RowOK, Single
  <2> QED BY <2>1, <2>2 DEF RowOK
<1>7. \A u : Has(new, u) <=> Has(row, u)
  BY <1>1, <1>4, <1>5 DEF Has
<1>8. ASSUME NEW u, Owns(new, u)
      PROVE  IF u = row[1].tag THEN s = "M" ELSE Owns(row, u)
  <2>1. PICK p \in 1 .. n : new[p].tag = u /\ new[p].state = "M"
    BY <1>1, <1>8 DEF Owns
  <2>2. CASE p = 1
    BY <1>3, <2>1, <2>2
  <2>3. CASE p # 1
    <3>1. row[p].tag = u /\ row[p].state = "M"
      BY <1>3, <2>1, <2>3
    <3>2. Owns(row, u)
      BY <1>1, <3>1 DEF Owns
    <3>3. u # row[1].tag
      BY <1>1, <2>3, <3>1 DEF RowOK, Single, IsValid
    <3> QED BY <3>2, <3>3
  <2> QED BY <2>2, <2>3
<1> QED BY <1>6, <1>7, <1>8 DEF new

(* Storing data in the live line in front changes neither flag.            *)
LEMMA SetDataOK ==
  ASSUME NEW n \in Nat \ {0}, NEW row \in Row(n), RowOK(row), IsValid(row[1]), NEW data
  PROVE  /\ RowOK(SetData(row, data))
         /\ \A u : Has(SetData(row, data), u) <=> Has(row, u)
         /\ \A u : Owns(SetData(row, data), u) <=> Owns(row, u)
<1> DEFINE new == SetData(row, data)
<1>1. DOMAIN row = 1 .. n /\ DOMAIN new = 1 .. n /\ 1 \in 1 .. n
  BY DEF Row, SetData
<1>2. \A p \in 1 .. n : row[p] \in Line
  BY DEF Row
<1>3. /\ new[1].tag = row[1].tag /\ new[1].state = row[1].state
      /\ new[1].islineInvalid = FALSE
      /\ \A p \in 1 .. n : p # 1 => new[p] = row[p]
  BY <1>1, <1>2 DEF SetData, Line
<1> HIDE DEF new
<1>4. \A p \in 1 .. n : new[p].tag = row[p].tag /\ new[p].state = row[p].state
  BY <1>3
<1>5. Flagged(new)
  BY <1>1, <1>3 DEF RowOK, Flagged, IsValid
<1>6. Single(new)
  BY <1>1, <1>4 DEF RowOK, Single, IsValid
<1>7. \A u : (Has(new, u) <=> Has(row, u)) /\ (Owns(new, u) <=> Owns(row, u))
  BY <1>1, <1>4 DEF Has, Owns, IsValid
<1> QED BY <1>5, <1>6, <1>7 DEF new, RowOK

(* Invalidating the live line in front removes its tag from the row.       *)
LEMMA InvalidateOK ==
  ASSUME NEW n \in Nat \ {0}, NEW row \in Row(n), RowOK(row), IsValid(row[1])
  PROVE  /\ RowOK(Invalidate(row))
         /\ ~Has(Invalidate(row), row[1].tag)
         /\ \A u : Has(Invalidate(row), u) => Has(row, u)
         /\ \A u : Owns(Invalidate(row), u) => Owns(row, u)
<1> DEFINE new == Invalidate(row)
<1>1. DOMAIN row = 1 .. n /\ DOMAIN new = 1 .. n /\ 1 \in 1 .. n
  BY DEF Row, Invalidate
<1>2. \A p \in 1 .. n : row[p] \in Line
  BY DEF Row
<1>3. /\ new[1].tag = row[1].tag /\ new[1].state = "I"
      /\ new[1].islineInvalid = TRUE
      /\ \A p \in 1 .. n : p # 1 => new[p] = row[p]
  BY <1>1, <1>2 DEF Invalidate, Line
<1> HIDE DEF new
<1>4. Flagged(new) /\ ~IsValid(new[1])
  BY <1>1, <1>3 DEF RowOK, Flagged, IsValid
<1>5. Single(new)
  BY <1>1, <1>3, <1>4 DEF RowOK, Single
<1>6. ~Has(new, row[1].tag)
  BY <1>1, <1>3, <1>4 DEF Has, RowOK, Single
<1>7. \A u : Has(new, u) => Has(row, u)
  BY <1>1, <1>3, <1>4 DEF Has
<1>8. \A u : Owns(new, u) => Owns(row, u)
  BY <1>1, <1>3 DEF Owns
<1> QED BY <1>4, <1>5, <1>6, <1>7, <1>8 DEF new, RowOK

(* A fill reuses the live line of its tag if there is one: it cannot leave *)
(* a second one.                                                           *)
LEMMA InstallOK ==
  ASSUME NEW n \in Nat \ {0}, NEW row \in Row(n), RowOK(row), NEW t,
         NEW s \in {"M", "S"}, NEW data
  PROVE  /\ RowOK(Install(row, t, s, data))
         /\ \A u : Has(Install(row, t, s, data), u) => u = t \/ Has(row, u)
         /\ \A u : Owns(Install(row, t, s, data), u) =>
              IF u = t THEN s = "M" ELSE Owns(row, u)
<1> DEFINE base == FindLine2Replace(row, t)
           slot == SlotPos(row, t)
           new == Install(row, t, s, data)
<1>1. DOMAIN row = 1 .. n
  BY DEF Row
<1>2. ReplacePos(row, t) \in 1 .. n
  BY ReplacePosIn
<1>3. /\ base \in Row(n) /\ RowOK(base) /\ slot \in 1 .. n
      /\ \A u : (Has(base, u) <=> Has(row, u)) /\ (Owns(base, u) <=> Owns(row, u))
  <2>1. CASE Live(row, t) # {}
    BY <1>2, <2>1 DEF FindLine2Replace, SlotPos
  <2>2. CASE Live(row, t) = {}
    <3> DEFINE p == ReplacePos(row, t)
    <3>1. base = MoveToFront(row, p) /\ slot = 1
      BY <2>2 DEF FindLine2Replace, SlotPos
    <3> HIDE DEF p, base, slot
    <3>2. /\ MoveToFront(row, p) \in Row(n) /\ RowOK(MoveToFront(row, p))
          /\ \A u : Has(MoveToFront(row, p), u) <=> Has(row, u)
          /\ \A u : Owns(MoveToFront(row, p), u) <=> Owns(row, u)
      BY <1>2, MoveToFrontPermutes, MoveToFrontOK DEF p
    <3> QED BY <3>1, <3>2
  <2> QED BY <2>1, <2>2
<1>4. DOMAIN base = 1 .. n
  BY <1>3 DEF Row
<1>5. /\ DOMAIN new = 1 .. n
      /\ new[slot].tag = t /\ new[slot].state = s /\ new[slot].islineInvalid = FALSE
      /\ \A p \in 1 .. n : p # slot => new[p] = base[p]
  BY <1>3, <1>4 DEF Install
<1>6. \A p \in 1 .. n : p # slot /\ base[p].tag = t => ~IsValid(base[p])
  <2>1. CASE Live(row, t) # {}
    <3>1. Live(row, t) \in SUBSET (0 .. n)
      BY <1>1 DEF Live, Matches
    <3>2. ReplacePos(row, t) \in Live(row, t)
      BY <2>1, <3>1, MaxIn DEF ReplacePos
    <3>3. base = row /\ slot \in Live(row, t)
      BY <2>1, <3>2 DEF FindLine2Replace, SlotPos
    <3>4. base[slot].tag = t /\ IsValid(base[slot])
      BY <1>3, <1>4, <3>3 DEF Live, Matches, RowOK, Flagged, IsValid
    <3> QED BY <1>3, <1>4, <3>4 DEF RowOK, Single
  <2>2. CASE Live(row, t) = {}
    <3>1. ~Has(row, t)
      <4> SUFFICES ASSUME Has(row, t) PROVE FALSE
        OBVIOUS
      <4>1. PICK p \in 1 .. n : row[p].tag = t /\ IsValid(row[p])
        BY <1>1 DEF Has
      <4>2. ~row[p].islineInvalid
        BY <1>1, <4>1 DEF RowOK, Flagged, IsValid
      <4> QED BY <1>1, <2>2, <4>1, <4>2 DEF Live, Matches
    <3> QED BY <1>3, <1>4, <3>1 DEF Has
  <2> QED BY <2>1, <2>2
<1> HIDE DEF base, slot, new
<1>7. IsValid(new[slot])
  BY <1>5 DEF IsValid
<1>8. Flagged(new)
  BY <1>3, <1>4, <1>5 DEF RowOK, Flagged
<1>9. Single(new)
  <2> SUFFICES ASSUME NEW p \in 1 .. n, NEW q \in 1 .. n, p # q, new[p].tag = new[q].tag,
                      IsValid(new[p]), IsValid(new[q])
               PROVE  FALSE
    BY <1>5 DEF Single
  <2>1. CASE p = slot
    BY <1>5, <1>6, <2>1
  <2>2. CASE q = slot
    BY <1>5, <1>6, <2>2
  <2>3. CASE p # slot /\ q # slot
    BY <1>3, <1>4, <1>5, <2>3 DEF RowOK, Single
  <2> QED BY <2>1, <2>2, <2>3
<1>10. ASSUME NEW u, Has(new, u), u # t PROVE Has(row, u)
  <2>1. PICK p \in 1 .. n : new[p].tag = u /\ IsValid(new[p])
    BY <1>5, <1>10 DEF Has
  <2>2. new[p] = base[p]
    BY <1>5, <1>10, <2>1
  <2>3. Has(base, u)
    BY <1>4, <2>1, <2>2 DEF Has
  <2> QED BY <1>3, <2>3
<1>11. ASSUME NEW u, Owns(new, u)
       PROVE  IF u = t THEN s = "M" ELSE Owns(row, u)
  <2>1. PICK p \in 1 .. n : new[p].tag = u /\ new[p].state = "M"
    BY <1>5, <1>11 DEF Owns
  <2>2. CASE p = slot
    BY <1>5, <2>1, <2>2
  <2>3. CASE p # slot
    <3>1. base[p].tag = u /\ base[p].state = "M" /\ IsValid(base[p])
      BY <1>5, <2>1, <2>3 DEF IsValid
    <3>2. u # t
      BY <1>6, <2>3, <3>1
    <3>3. Owns(base, u)
      BY <1>4, <3>1 DEF Owns
    <3> QED BY <1>3, <3>2, <3>3
  <2> QED BY <2>2, <2>3
<1> QED BY <1>8, <1>9, <1>10, <1>11 DEF new, RowOK
=============================================================================
