----------------------------- MODULE Memory_proofs -----------------------------
(***************************************************************************)
(* What the caches hold, for any number of caches, ways, sets, lines,      *)
(* words and values: the copies of a line agree, a read returns the        *)
(* content of memory, and the three levels implement one memory.           *)
(*                                                                         *)
(* The argument sees a cache as a function from tags to data.  Each        *)
(* operation is one equation about these functions; where a line is in its *)
(* row, and in which state, no longer matters.                             *)
(***************************************************************************)
EXTENDS Coherence_proofs, FiniteSetTheorems

-----------------------------------------------------------------------------
(* What a row holds for a tag.                                             *)

NoData == CHOOSE x : x \notin LineData

LiveAt(row, t) == CHOOSE p \in DOMAIN row : row[p].tag = t /\ IsValid(row[p])
DataIn(row, t) == IF Has(row, t) THEN row[LiveAt(row, t)].data ELSE NoData

(* Nothing is not data.                                                    *)
LEMMA NoDataFacts == NoData \notin LineData
BY NoSetContainsEverything DEF NoData

(* The one valid line of a tag decides.                                    *)
LEMMA DataIs ==
  ASSUME NEW n \in Nat \ {0}, NEW row \in Row(n), RowOK(row), NEW p \in 1 .. n, IsValid(row[p])
  PROVE  DataIn(row, row[p].tag) = row[p].data /\ Has(row, row[p].tag)
<1> DEFINE t == row[p].tag
           q == LiveAt(row, t)
<1>1. DOMAIN row = 1 .. n
  BY DEF Row
<1>2. Has(row, t)
  BY <1>1 DEF Has
<1>3. q \in 1 .. n /\ row[q].tag = t /\ IsValid(row[q])
  BY <1>1 DEF LiveAt
<1>4. q = p
  BY <1>1, <1>3 DEF RowOK, Single
<1> QED BY <1>2, <1>4 DEF DataIn

(* A row holds data exactly for the tags it has.                           *)
LEMMA DataType ==
  ASSUME NEW n \in Nat \ {0}, NEW row \in Row(n), RowOK(row), NEW t
  PROVE  /\ Has(row, t) => DataIn(row, t) \in LineData /\ t \in Tags
         /\ ~Has(row, t) => DataIn(row, t) = NoData
         /\ DataIn(row, t) # NoData <=> Has(row, t)
<1>1. ASSUME Has(row, t) PROVE DataIn(row, t) \in LineData /\ t \in Tags
  <2>1. PICK p \in 1 .. n : row[p].tag = t /\ IsValid(row[p])
    BY <1>1 DEF Has, Row
  <2>2. row[p] \in Line
    BY DEF Row
  <2>3. DataIn(row, t) = row[p].data
    BY <2>1, DataIs
  <2> QED BY <2>1, <2>2, <2>3 DEF Line
<1>2. ~Has(row, t) => DataIn(row, t) = NoData
  BY DEF DataIn
<1> QED BY <1>1, <1>2, NoDataFacts

(* Two rows whose valid lines are the same, wherever they stand, hold the  *)
(* same data.                                                              *)
LEMMA SameLines ==
  ASSUME NEW n \in Nat \ {0}, NEW row \in Row(n), NEW new \in Row(n), RowOK(row), RowOK(new),
         NEW t, Has(new, t) => Has(row, t),
         \A p \in 1 .. n : (row[p].tag = t /\ IsValid(row[p])) =>
           \E q \in 1 .. n : new[q].tag = t /\ IsValid(new[q]) /\ new[q].data = row[p].data
  PROVE  DataIn(new, t) = DataIn(row, t)
<1>1. CASE Has(row, t)
  <2>1. PICK p \in 1 .. n : row[p].tag = t /\ IsValid(row[p])
    BY <1>1 DEF Has, Row
  <2>2. PICK q \in 1 .. n : new[q].tag = t /\ IsValid(new[q]) /\ new[q].data = row[p].data
    BY <2>1
  <2>3. DataIn(row, t) = row[p].data
    BY <2>1, DataIs
  <2>4. DataIn(new, t) = new[q].data
    BY <2>2, DataIs
  <2> QED BY <2>2, <2>3, <2>4
<1>2. CASE ~Has(row, t)
  BY <1>2 DEF DataIn
<1> QED BY <1>1, <1>2

(* Every line of a row stands somewhere in its permutation.                *)
LEMMA MoveToFrontOnto ==
  ASSUME NEW n \in Nat \ {0}, NEW row \in Row(n), NEW p \in 1 .. n, NEW r \in 1 .. n
  PROVE  \E q \in 1 .. n : MoveToFront(row, p)[q] = row[r]
<1>1. \E q \in 1 .. n : Src(p, q) = r
  <2>1. CASE r = p
    BY <2>1 DEF Src
  <2>2. CASE r < p
    <3>1. r + 1 \in 1 .. n /\ Src(p, r + 1) = r
      BY <2>2 DEF Src
    <3> QED BY <3>1
  <2>3. CASE r > p
    BY <2>3 DEF Src
  <2> QED BY <2>1, <2>2, <2>3
<1>2. PICK q \in 1 .. n : Src(p, q) = r
  BY <1>1
<1>3. MoveToFront(row, p)[q] = row[Src(p, q)]
  BY MoveToFrontPermutes
<1> QED BY <1>2, <1>3

(* A permutation holds what the row held.                                  *)
LEMMA MoveToFrontData ==
  ASSUME NEW n \in Nat \ {0}, NEW row \in Row(n), RowOK(row), NEW p \in 1 .. n
  PROVE  \A t : DataIn(MoveToFront(row, p), t) = DataIn(row, t)
<1> DEFINE new == MoveToFront(row, p)
<1>1. new \in Row(n) /\ RowOK(new) /\ \A t : Has(new, t) <=> Has(row, t)
  BY MoveToFrontPermutes, MoveToFrontOK
<1>2. \A r \in 1 .. n : \E q \in 1 .. n : new[q] = row[r]
  BY MoveToFrontOnto
<1> HIDE DEF new
<1>3. ASSUME NEW t PROVE DataIn(new, t) = DataIn(row, t)
  <2>1. ASSUME NEW r \in 1 .. n, row[r].tag = t, IsValid(row[r])
        PROVE  \E q \in 1 .. n : new[q].tag = t /\ IsValid(new[q]) /\ new[q].data = row[r].data
    BY <1>2, <2>1
  <2> QED BY <1>1, <2>1, SameLines
<1> QED BY <1>3 DEF new

(* A lookup changes nothing that the row holds; if it hits, the line in    *)
(* front has it.                                                           *)
LEMMA FindLineData ==
  ASSUME NEW n \in Nat \ {0}, NEW row \in Row(n), RowOK(row), NEW t
  PROVE  /\ \A u : DataIn(FindLine(row, t), u) = DataIn(row, u)
         /\ Hits(row, t) => /\ row[FindPos(row, t)].data = DataIn(row, t)
                            /\ FindLine(row, t)[1].data = DataIn(row, t)
<1>1. \A u : DataIn(FindLine(row, t), u) = DataIn(row, u)
  BY FindPosIn, MoveToFrontData DEF FindLine, Found
<1>2. ASSUME Hits(row, t)
      PROVE  /\ row[FindPos(row, t)].data = DataIn(row, t)
             /\ FindLine(row, t)[1].data = DataIn(row, t)
  <2>1. Found(row, t) /\ IsValid(row[FindPos(row, t)])
    BY <1>2 DEF Hits
  <2>2. FindPos(row, t) \in 1 .. n /\ row[FindPos(row, t)].tag = t
    BY <2>1, FindPosIn
  <2>3. row[FindPos(row, t)].data = DataIn(row, t)
    BY <2>1, <2>2, DataIs
  <2> QED BY <2>1, <2>3, FindLineOK
<1> QED BY <1>1, <1>2

(* The line in front of a row, if it is valid, is what the row holds.      *)
LEMMA FrontIs ==
  ASSUME NEW n \in Nat \ {0}, NEW row \in Row(n), RowOK(row), IsValid(row[1])
  PROVE  DataIn(row, row[1].tag) = row[1].data /\ Has(row, row[1].tag)
<1>1. 1 \in 1 .. n
  OBVIOUS
<1> QED BY <1>1, DataIs

(* Neither does a change of state between live ones.                       *)
LEMMA SetStateData ==
  ASSUME NEW n \in Nat \ {0}, NEW row \in Row(n), RowOK(row), IsValid(row[1]),
         NEW s \in {"M", "S"}
  PROVE  \A u : DataIn(SetState(row, s), u) = DataIn(row, u)
<1> DEFINE new == SetState(row, s)
<1>1. new \in Row(n) /\ RowOK(new) /\ \A u : Has(new, u) <=> Has(row, u)
  BY FrontUpdateType, SetStateOK DEF States
<1>2. \A p \in 1 .. n : row[p] \in Line
  BY DEF Row
<1>3. \A p \in 1 .. n : /\ new[p].tag = row[p].tag /\ new[p].data = row[p].data
                        /\ IsValid(row[p]) => IsValid(new[p])
  BY <1>2 DEF SetState, Row, Line, IsValid
<1> HIDE DEF new
<1>4. ASSUME NEW u PROVE DataIn(new, u) = DataIn(row, u)
  BY <1>1, <1>3, SameLines
<1> QED BY <1>4 DEF new

(* Storing data in the valid line in front changes what the row holds for  *)
(* its tag.                                                                *)
LEMMA SetDataData ==
  ASSUME NEW n \in Nat \ {0}, NEW row \in Row(n), RowOK(row), IsValid(row[1]),
         NEW data \in LineData
  PROVE  \A u : DataIn(SetData(row, data), u) = IF u = row[1].tag THEN data ELSE DataIn(row, u)
<1> DEFINE new == SetData(row, data)
<1>1. new \in Row(n) /\ RowOK(new) /\ \A u : Has(new, u) <=> Has(row, u)
  BY FrontUpdateType, SetDataOK
<1>2. 1 \in 1 .. n /\ \A p \in 1 .. n : row[p] \in Line
  BY DEF Row
<1>3. /\ new[1].tag = row[1].tag /\ new[1].data = data /\ IsValid(new[1])
      /\ \A p \in 1 .. n : p # 1 => new[p] = row[p]
  BY <1>2 DEF SetData, Row, Line, IsValid
<1> HIDE DEF new
<1>4. DataIn(new, row[1].tag) = data
  BY <1>1, <1>2, <1>3, DataIs
<1>5. ASSUME NEW u, u # row[1].tag PROVE DataIn(new, u) = DataIn(row, u)
  <2>1. ASSUME NEW p \in 1 .. n, row[p].tag = u, IsValid(row[p])
        PROVE  \E q \in 1 .. n : new[q].tag = u /\ IsValid(new[q]) /\ new[q].data = row[p].data
    BY <1>3, <1>5, <2>1
  <2> QED BY <1>1, <2>1, SameLines
<1> QED BY <1>4, <1>5 DEF new

(* Invalidating it removes the tag and nothing else.                       *)
LEMMA InvalidateData ==
  ASSUME NEW n \in Nat \ {0}, NEW row \in Row(n), RowOK(row), IsValid(row[1])
  PROVE  \A u : DataIn(Invalidate(row), u) = IF u = row[1].tag THEN NoData ELSE DataIn(row, u)
<1> DEFINE new == Invalidate(row)
<1>1. /\ new \in Row(n) /\ RowOK(new)
      /\ ~Has(new, row[1].tag) /\ \A u : Has(new, u) => Has(row, u)
  BY FrontUpdateType, InvalidateOK
<1>2. \A p \in 1 .. n : p # 1 => new[p] = row[p]
  BY DEF Invalidate, Row
<1> HIDE DEF new
<1>3. DataIn(new, row[1].tag) = NoData
  BY <1>1 DEF DataIn
<1>4. ASSUME NEW u, u # row[1].tag PROVE DataIn(new, u) = DataIn(row, u)
  <2>1. ASSUME NEW p \in 1 .. n, row[p].tag = u, IsValid(row[p])
        PROVE  \E q \in 1 .. n : new[q].tag = u /\ IsValid(new[q]) /\ new[q].data = row[p].data
    BY <1>2, <1>4, <2>1
  <2> QED BY <1>1, <2>1, SameLines
<1> QED BY <1>3, <1>4 DEF new

(* The row is full: no line of it is free.                                 *)
AllValid(row) == \A p \in DOMAIN row : IsValid(row[p])

(* The line that a fill throws out.                                        *)
Drops(row, t, u) == ~Victim(row, t).islineInvalid /\ Victim(row, t).tag = u

(* What a fill chooses after a miss: a free line, or else the oldest of a  *)
(* full row.                                                               *)
LEMMA MissVictim ==
  ASSUME NEW n \in Nat \ {0}, NEW row \in Row(n), RowOK(row), NEW t, ~Has(row, t)
  PROVE  /\ Live(row, t) = {}
         /\ SlotPos(row, t) = 1
         /\ FindLine2Replace(row, t) = MoveToFront(row, ReplacePos(row, t))
         /\ IF Victim(row, t).islineInvalid
            THEN ~IsValid(Victim(row, t))
            ELSE AllValid(row) /\ Has(row, Victim(row, t).tag) /\ Victim(row, t).tag # t
                   /\ DataIn(row, Victim(row, t).tag) = Victim(row, t).data
<1>1. DOMAIN row = 1 .. n /\ \A p \in 1 .. n : row[p] \in Line
  BY DEF Row
<1>2. \A p \in 1 .. n : IsValid(row[p]) <=> ~row[p].islineInvalid
  BY <1>1 DEF RowOK, Flagged, IsValid, Line
<1>3. Live(row, t) = {}
  BY <1>1, <1>2 DEF Live, Matches, Has
<1>4. SlotPos(row, t) = 1 /\ FindLine2Replace(row, t) = MoveToFront(row, ReplacePos(row, t))
  BY <1>3 DEF SlotPos, FindLine2Replace
<1>5. ReplacePos(row, t) \in 1 .. n
  BY ReplacePosIn
<1>6. CASE Victim(row, t).islineInvalid
  <2>1. ~IsValid(Victim(row, t))
    BY <1>2, <1>5, <1>6 DEF Victim
  <2> QED BY <1>3, <1>4, <1>6, <2>1
<1>7. CASE ~Victim(row, t).islineInvalid
  <2>1. IsValid(Victim(row, t))
    BY <1>2, <1>5, <1>7 DEF Victim
  <2>2. Free(row) = {}
    <3> SUFFICES ASSUME Free(row) # {} PROVE FALSE
      OBVIOUS
    <3>1. Free(row) \in SUBSET Nat
      BY <1>1 DEF Free
    <3>2. Min(Free(row)) \in Free(row)
      BY <3>1, MinIn
    <3>3. ReplacePos(row, t) = Min(Free(row))
      BY <1>3 DEF ReplacePos
    <3> QED BY <2>1, <3>2, <3>3 DEF Free, Victim
  <2>3. AllValid(row)
    BY <1>1, <1>2, <2>2 DEF Free, AllValid
  <2>4. Has(row, Victim(row, t).tag) /\ DataIn(row, Victim(row, t).tag) = Victim(row, t).data
    BY <1>5, <2>1, DataIs DEF Victim
  <2> QED BY <1>3, <1>4, <1>7, <2>3, <2>4
<1> QED BY <1>6, <1>7

(* What a fill throws out after the lookup that missed was the oldest line *)
(* of a full row: had that lookup found a dead line of the tag, it would   *)
(* have been the one to reuse.                                             *)
LEMMA MissDropsOldest ==
  ASSUME NEW n \in Nat \ {0}, NEW row \in Row(n), RowOK(row), NEW t, ~Has(row, t),
         NEW u, Drops(FindLine(row, t), t, u)
  PROVE  AllValid(row) /\ row[n].tag = u
<1> DEFINE looked == FindLine(row, t)
<1>1. looked \in Row(n) /\ RowOK(looked) /\ ~Has(looked, t)
  BY FindLineType, FindLineOK
<1>2. AllValid(looked)
  BY <1>1, MissVictim DEF Drops
<1>3. ~Found(row, t)
  <2> SUFFICES ASSUME Found(row, t) PROVE FALSE
    OBVIOUS
  <2>1. looked[1] = row[FindPos(row, t)] /\ FindPos(row, t) \in 1 .. n /\ row[FindPos(row, t)].tag = t
    BY FindPosIn, FindLineOK
  <2>2. DOMAIN looked = 1 .. n /\ DOMAIN row = 1 .. n /\ 1 \in 1 .. n
    BY <1>1 DEF Row
  <2> QED BY <1>2, <2>1, <2>2 DEF AllValid, Has
<1>4. looked = row
  BY <1>3 DEF FindLine, Found
<1>5. AllValid(row)
  BY <1>2, <1>4
<1>6. ReplacePos(row, t) = Max(DOMAIN row)
  <2>1. Live(row, t) = {}
    BY MissVictim
  <2>2. Free(row) = {}
    BY <1>5 DEF Free, AllValid
  <2> QED BY <2>1, <2>2 DEF ReplacePos
<1>7. Max(DOMAIN row) = n
  <2>1. DOMAIN row = 1 .. n /\ DOMAIN row \in SUBSET (0 .. n) /\ n \in DOMAIN row
    BY DEF Row
  <2>2. Max(DOMAIN row) \in DOMAIN row /\ n <= Max(DOMAIN row)
    BY <2>1, MaxIn
  <2> QED BY <2>1, <2>2
<1>8. Victim(row, t).tag = u
  BY <1>4 DEF Drops
<1> QED BY <1>5, <1>6, <1>7, <1>8 DEF Victim

(* A fill after a miss adds its tag and drops its victim.                  *)
LEMMA InstallData ==
  ASSUME NEW n \in Nat \ {0}, NEW row \in Row(n), RowOK(row), NEW t \in Tags, ~Has(row, t),
         NEW s \in {"M", "S"}, NEW data \in LineData
  PROVE  /\ \A u : DataIn(Install(row, t, s, data), u) =
                   IF u = t THEN data ELSE IF Drops(row, t, u) THEN NoData ELSE DataIn(row, u)
         /\ AllValid(row) => AllValid(Install(row, t, s, data))
<1> DEFINE p == ReplacePos(row, t)
           base == MoveToFront(row, p)
           new == Install(row, t, s, data)
<1>1. p \in 1 .. n /\ 1 \in 1 .. n
  BY ReplacePosIn
<1>2. base \in Row(n) /\ RowOK(base) /\ \A u : DataIn(base, u) = DataIn(row, u)
  BY <1>1, MoveToFrontPermutes, MoveToFrontOK, MoveToFrontData
<1>3. base[1] = row[p]
  BY <1>1 DEF MoveToFront, Row
<1>4. new \in Row(n) /\ RowOK(new) /\ \A u : Has(new, u) => u = t \/ Has(row, u)
  BY InstallType, InstallOK DEF States
<1>5. new = [base EXCEPT ![1] = [tag |-> t, state |-> s, islineInvalid |-> FALSE, data |-> data]]
  BY MissVictim DEF Install
<1>6. Victim(row, t) = row[p]
  BY DEF Victim
<1>7. AllValid(row) => AllValid(base)
  <2>1. \A q \in 1 .. n : Src(p, q) \in 1 .. n /\ base[q] = row[Src(p, q)]
    BY <1>1, MoveToFrontPermutes
  <2>2. DOMAIN row = 1 .. n /\ DOMAIN base = 1 .. n
    BY <1>2 DEF Row
  <2> HIDE DEF base
  <2> QED BY <2>1, <2>2 DEF AllValid
<1> HIDE DEF base, p
<1>8. /\ DOMAIN base = 1 .. n /\ DOMAIN new = 1 .. n
      /\ new[1].tag = t /\ new[1].data = data /\ IsValid(new[1])
      /\ \A q \in 1 .. n : q # 1 => new[q] = base[q]
  BY <1>1, <1>2, <1>5 DEF Row, IsValid
<1> HIDE DEF new
<1>9. DataIn(new, t) = data
  BY <1>1, <1>4, <1>8, DataIs
<1>10. ASSUME NEW u, u # t, Drops(row, t, u) PROVE DataIn(new, u) = NoData
  <2>1. IsValid(base[1]) /\ base[1].tag = u
    BY <1>2, <1>1, <1>3, <1>6, <1>10 DEF Drops, RowOK, Flagged, IsValid, Row
  <2>2. \A q \in 1 .. n : q # 1 /\ base[q].tag = u => ~IsValid(base[q])
    BY <1>1, <1>2, <1>8, <2>1 DEF RowOK, Single
  <2>3. ~Has(new, u)
    BY <1>8, <1>10, <2>2 DEF Has
  <2> QED BY <2>3 DEF DataIn
<1>11. ASSUME NEW u, u # t, ~Drops(row, t, u) PROVE DataIn(new, u) = DataIn(base, u)
  <2>1. base[1].tag = u => ~IsValid(base[1])
    <3>1. IsValid(base[1]) => ~base[1].islineInvalid
      BY <1>1, <1>2, <1>8 DEF RowOK, Flagged, IsValid, Row, Line
    <3> QED BY <1>3, <1>6, <1>11, <3>1 DEF Drops
  <2>2. Has(new, u) => Has(base, u)
    BY <1>8, <1>11 DEF Has
  <2>3. ASSUME NEW q \in 1 .. n, base[q].tag = u, IsValid(base[q])
        PROVE  \E r \in 1 .. n : new[r].tag = u /\ IsValid(new[r]) /\ new[r].data = base[q].data
    <3>1. q # 1
      BY <2>1, <2>3
    <3> QED BY <1>8, <2>3, <3>1
  <2> QED BY <1>2, <1>4, <2>2, <2>3, SameLines
<1>12. AllValid(row) => AllValid(new)
  BY <1>7, <1>8 DEF AllValid
<1> QED BY <1>2, <1>9, <1>10, <1>11, <1>12 DEF new

(* A full row stays full when a lookup permutes it or data is stored.      *)
LEMMA StaysFull ==
  ASSUME NEW n \in Nat \ {0}, NEW row \in Row(n), AllValid(row), NEW t
  PROVE  /\ AllValid(FindLine(row, t))
         /\ \A data : AllValid(SetData(row, data))
<1>1. DOMAIN row = 1 .. n
  BY DEF Row
<1>2. ASSUME NEW p \in 1 .. n PROVE AllValid(MoveToFront(row, p))
  <2>1. /\ MoveToFront(row, p) \in Row(n)
        /\ \A q \in 1 .. n : Src(p, q) \in 1 .. n /\ MoveToFront(row, p)[q] = row[Src(p, q)]
    BY MoveToFrontPermutes
  <2>2. DOMAIN MoveToFront(row, p) = 1 .. n
    BY <2>1 DEF Row
  <2> QED BY <1>1, <2>1, <2>2 DEF AllValid
<1>3. AllValid(FindLine(row, t))
  BY <1>2, FindPosIn DEF FindLine, Found
<1>4. ASSUME NEW data PROVE AllValid(SetData(row, data))
  <2>1. \A p \in 1 .. n : row[p] \in Line
    BY DEF Row
  <2>2. DOMAIN SetData(row, data) = 1 .. n
    BY <1>1 DEF SetData
  <2>3. \A p \in 1 .. n : SetData(row, data)[p].state = row[p].state
    BY <1>1, <2>1 DEF SetData, Line
  <2> QED BY <1>1, <2>2, <2>3 DEF AllValid, IsValid
<1> QED BY <1>3, <1>4
-----------------------------------------------------------------------------
(* What a hierarchy holds.                                                 *)

Used == {CalcTag(l) : l \in Lines}

(* Lines in use have tags, and tags have sets.                             *)
LEMMA UsedFacts == Used \subseteq Tags /\ \A t \in Tags : SetOf(t) \in Sets
BY IndexFacts DEF Used

(* The valid lines are lines of the program, each in the row that a lookup *)
(* of it searches: a write-back of a victim goes to the right row below.   *)
Homed(h) == \A k \in Caches, s \in Sets : \A u :
  Has(h.cache[k][s], u) => u \in Used /\ SetOf(u) = s

Fine(h) == Good(h) /\ Homed(h)

Holds(h, k, t) == DataIn(RowOf(h, k, t), t)

(* g holds what h held, in every cache; a full row of main memory is full. *)
MainFull(h, t) == AllValid(RowOf(h, Main, t))
SameContent(g, h) == \A t \in Tags :
  /\ \A k \in Caches : Holds(g, k, t) = Holds(h, k, t)
  /\ MainFull(h, t) => MainFull(g, t)

(* A row of a hierarchy, and what it holds.                                *)
LEMMA HoldsFacts ==
  ASSUME NEW h, Good(h), NEW k \in Caches, NEW t \in Tags
  PROVE  /\ RowOf(h, k, t) \in Row(Assoc(k)) /\ RowOK(RowOf(h, k, t)) /\ Assoc(k) \in Nat \ {0}
         /\ HitsIn(h, k, t) <=> Has(RowOf(h, k, t), t)
         /\ HitsIn(h, k, t) <=> Holds(h, k, t) # NoData
         /\ HitsIn(h, k, t) => Holds(h, k, t) \in LineData
<1>1. RowOf(h, k, t) \in Row(Assoc(k)) /\ RowOK(RowOf(h, k, t)) /\ Assoc(k) \in Nat \ {0}
  BY RowGood
<1>2. HitsIn(h, k, t) <=> Has(RowOf(h, k, t), t)
  BY <1>1, HitsIffHas DEF HitsIn
<1> QED BY <1>1, <1>2, DataType DEF Holds

(* Storing a row that has no new tag but its own.                          *)
LEMMA WithRowFine ==
  ASSUME NEW h, Fine(h), NEW k \in Caches, NEW t \in Used,
         NEW row \in Row(Assoc(k)), RowOK(row),
         \A u : Has(row, u) => u = t \/ Has(RowOf(h, k, t), u)
  PROVE  /\ Fine(WithRow(h, k, t, row))
         /\ \A j \in Caches, u \in Tags :
              RowOf(WithRow(h, k, t, row), j, u) =
                IF j = k /\ SetOf(u) = SetOf(t) THEN row ELSE RowOf(h, j, u)
         /\ \A j \in Caches \ {k} : WithRow(h, k, t, row).cache[j] = h.cache[j]
<1> DEFINE g == WithRow(h, k, t, row)
<1>1. t \in Tags /\ SetOf(t) \in Sets /\ Good(h) /\ Homed(h) /\ HierType(h)
  BY UsedFacts DEF Fine, Good
<1>2. /\ Good(g)
      /\ \A j \in Caches, s \in Sets :
           g.cache[j][s] = IF j = k /\ s = SetOf(t) THEN row ELSE h.cache[j][s]
  BY <1>1, WithRowGood
<1>3. \A j \in Caches \ {k} : g.cache[j] = h.cache[j]
  <2> SUFFICES ASSUME NEW j \in Caches \ {k} PROVE g.cache[j] = h.cache[j]
    OBVIOUS
  <2>1. HierType(g)
    BY <1>2 DEF Good
  <2> HIDE DEF g
  <2>2. g.cache[j] \in [Sets -> AnyRow] /\ h.cache[j] \in [Sets -> AnyRow]
    BY <1>1, <2>1 DEF HierType
  <2>3. \A s \in Sets : g.cache[j][s] = h.cache[j][s]
    BY <1>2
  <2> QED BY <2>2, <2>3
<1> HIDE DEF g
<1>4. \A j \in Caches, u \in Tags :
        RowOf(g, j, u) = IF j = k /\ SetOf(u) = SetOf(t) THEN row ELSE RowOf(h, j, u)
  BY <1>2, UsedFacts DEF RowOf
<1>5. Homed(g)
  <2> SUFFICES ASSUME NEW j \in Caches, NEW s \in Sets, NEW u, Has(g.cache[j][s], u)
               PROVE  u \in Used /\ SetOf(u) = s
    BY DEF Homed
  <2>1. CASE j = k /\ s = SetOf(t)
    BY <1>1, <1>2, <2>1 DEF Homed, RowOf
  <2>2. CASE ~(j = k /\ s = SetOf(t))
    BY <1>1, <1>2, <2>2 DEF Homed
  <2> QED BY <2>1, <2>2
<1> QED BY <1>2, <1>3, <1>4, <1>5 DEF Fine, g

(* Counting changes no row.                                                *)
LEMMA SameCacheFine ==
  ASSUME NEW g, NEW h, g.cache = h.cache
  PROVE  /\ \A k, t : RowOf(g, k, t) = RowOf(h, k, t) /\ Holds(g, k, t) = Holds(h, k, t)
         /\ Homed(h) => Homed(g)
         /\ SameContent(g, h)
BY DEF RowOf, Holds, Homed, SameContent, MainFull

(* Counting changes no content.                                            *)
LEMMA CountFine ==
  ASSUME NEW h, Fine(h), NEW k \in Caches, NEW names
  PROVE  /\ Fine(Count(h, k, names)) /\ Count(h, k, names).cache = h.cache
         /\ SameContent(Count(h, k, names), h)
BY CountGood, SameCacheFine DEF Fine

(* Neither does a lookup change what is held, anywhere.                    *)
LEMMA LookFine ==
  ASSUME NEW h, Fine(h), NEW k \in Caches, NEW t \in Used
  PROVE  /\ Fine(Look(h, k, t))
         /\ SameContent(Look(h, k, t), h)
         /\ \A j \in Caches \ {k} : Look(h, k, t).cache[j] = h.cache[j]
         /\ RowOf(Look(h, k, t), k, t) = FindLine(RowOf(h, k, t), t)
         /\ HitsIn(h, k, t) => /\ RowOf(Look(h, k, t), k, t)[1].tag = t
                               /\ IsValid(RowOf(Look(h, k, t), k, t)[1])
                               /\ RowOf(Look(h, k, t), k, t)[1].data = Holds(h, k, t)
<1> DEFINE row == RowOf(h, k, t)
           new == FindLine(row, t)
           g == WithRow(h, k, t, new)
<1>1. t \in Tags /\ Good(h)
  BY UsedFacts DEF Fine
<1>2. row \in Row(Assoc(k)) /\ RowOK(row) /\ Assoc(k) \in Nat \ {0}
  BY <1>1, HoldsFacts
<1> HIDE DEF row
<1>3. /\ new \in Row(Assoc(k)) /\ RowOK(new)
      /\ \A u : Has(new, u) <=> Has(row, u)
      /\ \A u : DataIn(new, u) = DataIn(row, u)
      /\ AllValid(row) => AllValid(new)
      /\ Hits(row, t) => new[1].tag = t /\ IsValid(new[1]) /\ new[1].data = DataIn(row, t)
  BY <1>2, FindLineType, FindLineOK, FindLineData, StaysFull
<1> HIDE DEF new
<1>4. /\ Fine(g)
      /\ \A j \in Caches, u \in Tags :
           RowOf(g, j, u) = IF j = k /\ SetOf(u) = SetOf(t) THEN new ELSE RowOf(h, j, u)
      /\ \A j \in Caches \ {k} : g.cache[j] = h.cache[j]
  BY <1>3, WithRowFine DEF row
<1>5. Look(h, k, t) = g
  BY DEF Look, g, new, row
<1> HIDE DEF g
<1>6. \A u \in Tags : SetOf(u) = SetOf(t) => RowOf(h, k, u) = row
  BY DEF RowOf, row
<1>7. SameContent(g, h)
  BY <1>3, <1>4, <1>6, CacheFacts DEF SameContent, Holds, MainFull
<1> QED BY <1>1, <1>3, <1>4, <1>5, <1>7 DEF HitsIn, Holds, row, new

(* The same content, twice.                                                *)
LEMMA SameContentTrans ==
  ASSUME NEW f, NEW g, NEW h, SameContent(f, g), SameContent(g, h)
  PROVE  SameContent(f, h)
BY DEF SameContent

-----------------------------------------------------------------------------
(* Fills and stores.                                                       *)

(* What a fill of cache k evicts.                                          *)
Evicted(h, k, t, u) == Drops(RowOf(h, k, t), t, u)

(* The victim of a fill after a miss: what it held, and that it left a     *)
(* full row.                                                               *)
LEMMA EvictedFacts ==
  ASSUME NEW h, Fine(h), NEW k \in Caches, NEW t \in Used, Holds(h, k, t) = NoData,
         NEW u, Evicted(h, k, t, u)
  PROVE  /\ u \in Used /\ SetOf(u) = SetOf(t) /\ u # t
         /\ Victim(RowOf(h, k, t), t).data = Holds(h, k, u)
         /\ Holds(h, k, u) \in LineData /\ Holds(h, k, u) # NoData
         /\ AllValid(RowOf(h, k, t))
<1> DEFINE row == RowOf(h, k, t)
<1>1. t \in Tags /\ Good(h) /\ Homed(h) /\ SetOf(t) \in Sets
  BY UsedFacts DEF Fine
<1>2. row \in Row(Assoc(k)) /\ RowOK(row) /\ Assoc(k) \in Nat \ {0} /\ ~Has(row, t)
  BY <1>1, HoldsFacts
<1>3. row = h.cache[k][SetOf(t)]
  BY DEF RowOf
<1>4. ~Victim(row, t).islineInvalid /\ Victim(row, t).tag = u
  BY DEF Evicted, Drops
<1> HIDE DEF row
<1>5. AllValid(row) /\ Has(row, u) /\ u # t /\ DataIn(row, u) = Victim(row, t).data
  BY <1>2, <1>4, MissVictim
<1>6. u \in Used /\ SetOf(u) = SetOf(t)
  BY <1>1, <1>3, <1>5 DEF Homed
<1>7. RowOf(h, k, u) = row
  BY <1>3, <1>6 DEF RowOf
<1>8. DataIn(row, u) \in LineData /\ DataIn(row, u) # NoData
  BY <1>2, <1>5, DataType
<1> QED BY <1>5, <1>6, <1>7, <1>8 DEF Holds, row

(* A fill of cache k after a miss, once its victim has been pushed below.  *)
LEMMA InstallFine ==
  ASSUME NEW h, Fine(h), NEW g, Fine(g), NEW k \in Caches, g.cache[k] = h.cache[k],
         NEW t \in Used, Holds(h, k, t) = NoData,
         NEW s \in {"M", "S"}, NEW data \in LineData
  PROVE  LET f == WithRow(g, k, t, Install(RowOf(h, k, t), t, s, data))
         IN  /\ Fine(f)
             /\ \A j \in Caches \ {k} : f.cache[j] = g.cache[j]
             /\ Holds(f, k, t) = data
             /\ \A u \in Tags \ {t} : Holds(f, k, u) =
                  IF Evicted(h, k, t, u) THEN NoData ELSE Holds(h, k, u)
             /\ \A u \in Tags : AllValid(RowOf(h, k, u)) => AllValid(RowOf(f, k, u))
<1> DEFINE row == RowOf(h, k, t)
           new == Install(row, t, s, data)
           f == WithRow(g, k, t, new)
<1>1. t \in Tags /\ Good(h) /\ SetOf(t) \in Sets
  BY UsedFacts DEF Fine
<1>2. row \in Row(Assoc(k)) /\ RowOK(row) /\ Assoc(k) \in Nat \ {0} /\ ~Has(row, t)
  BY <1>1, HoldsFacts
<1>3. \A u \in Tags : RowOf(g, k, u) = RowOf(h, k, u)
  BY DEF RowOf
<1>4. \A u \in Tags : SetOf(u) = SetOf(t) => RowOf(h, k, u) = row
  BY DEF RowOf
<1>5. \A u : Evicted(h, k, t, u) <=> Drops(row, t, u)
  BY DEF Evicted
<1>6. RowOf(g, k, t) = row
  BY <1>1, <1>3
<1> HIDE DEF row
<1>7. /\ new \in Row(Assoc(k)) /\ RowOK(new)
      /\ \A u : Has(new, u) => u = t \/ Has(row, u)
      /\ \A u : DataIn(new, u) =
              IF u = t THEN data ELSE IF Drops(row, t, u) THEN NoData ELSE DataIn(row, u)
      /\ AllValid(row) => AllValid(new)
  <2>1. new \in Row(Assoc(k))
    BY <1>1, <1>2, InstallType DEF States
  <2>2. RowOK(new) /\ \A u : Has(new, u) => u = t \/ Has(row, u)
    BY <1>2, InstallOK
  <2>3. /\ \A u : DataIn(new, u) =
              IF u = t THEN data ELSE IF Drops(row, t, u) THEN NoData ELSE DataIn(row, u)
        /\ AllValid(row) => AllValid(new)
    BY <1>1, <1>2, InstallData
  <2> QED BY <2>1, <2>2, <2>3
<1> HIDE DEF new
<1>8. /\ Fine(f)
      /\ \A j \in Caches, u \in Tags :
           RowOf(f, j, u) = IF j = k /\ SetOf(u) = SetOf(t) THEN new ELSE RowOf(g, j, u)
      /\ \A j \in Caches \ {k} : f.cache[j] = g.cache[j]
  BY <1>6, <1>7, WithRowFine
<1> HIDE DEF f
<1>9. Holds(f, k, t) = data
  BY <1>1, <1>7, <1>8 DEF Holds
<1>10. ASSUME NEW u \in Tags \ {t}
       PROVE  Holds(f, k, u) = IF Evicted(h, k, t, u) THEN NoData ELSE Holds(h, k, u)
  <2>1. CASE SetOf(u) = SetOf(t)
    BY <1>4, <1>5, <1>7, <1>8, <2>1 DEF Holds
  <2>2. CASE SetOf(u) # SetOf(t)
    <3>1. RowOf(f, k, u) = RowOf(h, k, u)
      BY <1>3, <1>8, <2>2
    <3>2. ~Evicted(h, k, t, u)
      BY <2>2, EvictedFacts
    <3> QED BY <3>1, <3>2 DEF Holds
  <2> QED BY <2>1, <2>2
<1>11. \A u \in Tags : AllValid(RowOf(h, k, u)) => AllValid(RowOf(f, k, u))
  BY <1>3, <1>4, <1>7, <1>8
<1> QED BY <1>8, <1>9, <1>10, <1>11 DEF f, new, row

(* Overwriting the data of a line that a lookup brought to the front.      *)
LEMMA PutDataFine ==
  ASSUME NEW h, Fine(h), NEW k \in Caches, NEW t \in Used, ValidInFront(h, k, t),
         NEW data \in LineData
  PROVE  LET f == WithRow(h, k, t, SetData(RowOf(h, k, t), data))
         IN  /\ Fine(f)
             /\ \A j \in Caches \ {k} : f.cache[j] = h.cache[j]
             /\ Holds(f, k, t) = data
             /\ \A u \in Tags \ {t} : Holds(f, k, u) = Holds(h, k, u)
             /\ \A u \in Tags : AllValid(RowOf(h, k, u)) => AllValid(RowOf(f, k, u))
<1> DEFINE row == RowOf(h, k, t)
           new == SetData(row, data)
           f == WithRow(h, k, t, new)
<1>1. t \in Tags /\ Good(h)
  BY UsedFacts DEF Fine
<1>2. /\ row \in Row(Assoc(k)) /\ RowOK(row) /\ Assoc(k) \in Nat \ {0}
      /\ row[1].tag = t /\ IsValid(row[1])
  BY <1>1, HoldsFacts DEF ValidInFront
<1>3. \A u \in Tags : SetOf(u) = SetOf(t) => RowOf(h, k, u) = row
  BY DEF RowOf
<1>4. RowOf(h, k, t) = row
  OBVIOUS
<1> HIDE DEF row
<1>5. /\ new \in Row(Assoc(k)) /\ RowOK(new)
      /\ \A u : Has(new, u) <=> Has(row, u)
      /\ \A u : DataIn(new, u) = IF u = t THEN data ELSE DataIn(row, u)
      /\ AllValid(row) => AllValid(new)
  BY <1>2, FrontUpdateType, SetDataOK, SetDataData, StaysFull
<1> HIDE DEF new
<1>6. /\ Fine(f)
      /\ \A j \in Caches, u \in Tags :
           RowOf(f, j, u) = IF j = k /\ SetOf(u) = SetOf(t) THEN new ELSE RowOf(h, j, u)
      /\ \A j \in Caches \ {k} : f.cache[j] = h.cache[j]
  BY <1>4, <1>5, WithRowFine
<1> HIDE DEF f
<1>7. Holds(f, k, t) = data
  BY <1>1, <1>5, <1>6 DEF Holds
<1>8. \A u \in Tags \ {t} : Holds(f, k, u) = Holds(h, k, u)
  BY <1>3, <1>5, <1>6 DEF Holds
<1>9. \A u \in Tags : AllValid(RowOf(h, k, u)) => AllValid(RowOf(f, k, u))
  BY <1>3, <1>5, <1>6
<1> QED BY <1>6, <1>7, <1>8, <1>9 DEF f, new, row

-----------------------------------------------------------------------------
(* What main memory answers, and what the last-level cache above it does.  *)
(* A line can fall out of main memory, for good, once its row is full.     *)

MainOf(h, u) == IF Holds(h, Main, u) # NoData THEN Holds(h, Main, u) ELSE NaNLine
OutOfMain(h, u) == Holds(h, Main, u) = NoData /\ MainFull(h, u)
MainKept(g, h, u) ==
  /\ MainOf(g, u) = MainOf(h, u) \/ OutOfMain(g, u)
  /\ OutOfMain(h, u) => OutOfMain(g, u)

BelowOf(h, u) == IF Holds(h, LLC, u) # NoData THEN Holds(h, LLC, u) ELSE MainOf(h, u)
OutOfBelow(h, u) == Holds(h, LLC, u) = NoData /\ OutOfMain(h, u)
BelowKept(g, h, u) ==
  /\ BelowOf(g, u) = BelowOf(h, u) \/ OutOfBelow(g, u)
  /\ OutOfBelow(h, u) => OutOfBelow(g, u)

(* A step of main memory, and one of the two lower levels, that may change *)
(* the content of line t only.                                             *)
MainStep(g, h, t) ==
  /\ Fine(g)
  /\ \A k \in Caches \ {Main} : g.cache[k] = h.cache[k]
  /\ \A u \in Tags \ {t} : MainKept(g, h, u)
BelowStep(g, h, t) ==
  /\ Fine(g)
  /\ SamePrivate(g, h)
  /\ \A u \in Tags \ {t} : BelowKept(g, h, u)

(* Two steps of main memory.                                               *)
LEMMA MainStepTrans ==
  ASSUME NEW f, NEW g, NEW h, NEW t, MainStep(f, g, t), MainStep(g, h, t)
  PROVE  MainStep(f, h, t)
<1>1. \A u \in Tags \ {t} : MainKept(f, h, u)
  BY DEF MainStep, MainKept
<1> QED BY <1>1 DEF MainStep

(* Two steps of the levels below.                                          *)
LEMMA BelowStepTrans ==
  ASSUME NEW f, NEW g, NEW h, NEW t, BelowStep(f, g, t), BelowStep(g, h, t)
  PROVE  BelowStep(f, h, t)
<1>1. \A u \in Tags \ {t} : BelowKept(f, h, u)
  BY DEF BelowStep, BelowKept
<1> QED BY <1>1 DEF BelowStep, SamePrivate

(* A step that moves or counts only.                                       *)
LEMMA QuietMain ==
  ASSUME NEW g, Fine(g), NEW h, NEW t, SameContent(g, h),
         \A k \in Caches \ {Main} : g.cache[k] = h.cache[k]
  PROVE  MainStep(g, h, t) /\ \A u \in Tags : MainOf(g, u) = MainOf(h, u)
<1>1. Main \in Caches
  BY CacheFacts
<1> QED BY <1>1 DEF MainStep, MainKept, OutOfMain, MainOf, SameContent

(* A step that changes no content there is one.                            *)
LEMMA QuietBelow ==
  ASSUME NEW g, Fine(g), NEW h, NEW t, SameContent(g, h), SamePrivate(g, h)
  PROVE  BelowStep(g, h, t) /\ \A u \in Tags : BelowOf(g, u) = BelowOf(h, u)
<1>1. Main \in Caches /\ LLC \in Caches
  BY CacheFacts
<1> QED BY <1>1 DEF BelowStep, BelowKept, OutOfBelow, BelowOf, OutOfMain, MainOf, SameContent

(* A fill of main memory.                                                  *)
LEMMA MainFillKeeps ==
  ASSUME NEW h, Fine(h), NEW t \in Used, Holds(h, Main, t) = NoData,
         NEW s \in {"M", "S"}, NEW data \in LineData
  PROVE  /\ MainStep(FillLine(h, Main, t, s, data, NoWrite), h, t)
         /\ MainOf(FillLine(h, Main, t, s, data, NoWrite), t) = data
<1> DEFINE f == WithRow(h, Main, t, Install(RowOf(h, Main, t), t, s, data))
<1>1. Main \in Caches
  BY CacheFacts
<1>2. FillLine(h, Main, t, s, data, NoWrite) = f
  BY DEF FillLine, Evicts
<1>3. /\ Fine(f)
      /\ \A j \in Caches \ {Main} : f.cache[j] = h.cache[j]
      /\ Holds(f, Main, t) = data
      /\ \A u \in Tags \ {t} : Holds(f, Main, u) =
           IF Evicted(h, Main, t, u) THEN NoData ELSE Holds(h, Main, u)
      /\ \A u \in Tags : AllValid(RowOf(h, Main, u)) => AllValid(RowOf(f, Main, u))
  BY <1>1, InstallFine
<1> HIDE DEF f
<1>4. ASSUME NEW u \in Tags \ {t} PROVE MainKept(f, h, u)
  <2>1. CASE Evicted(h, Main, t, u)
    <3>1. SetOf(u) = SetOf(t) /\ Holds(h, Main, u) # NoData /\ AllValid(RowOf(h, Main, t))
      BY <1>1, <2>1, EvictedFacts
    <3>2. AllValid(RowOf(h, Main, u))
      BY <3>1 DEF RowOf
    <3> QED BY <1>3, <2>1, <3>1, <3>2 DEF MainKept, OutOfMain, MainFull
  <2>2. CASE ~Evicted(h, Main, t, u)
    BY <1>3, <2>2 DEF MainKept, OutOfMain, MainFull, MainOf
  <2> QED BY <2>1, <2>2
<1>5. MainOf(f, t) = data
  BY <1>3, NoDataFacts DEF MainOf
<1> QED BY <1>2, <1>3, <1>4, <1>5 DEF MainStep

(* A lookup at main memory, with what it counts.                           *)
LEMMA MainLook ==
  ASSUME NEW h, Fine(h), NEW t \in Used, NEW names
  PROVE  LET g == Count(Look(h, Main, t), Main, names)
         IN  /\ Fine(g) /\ g.cache = Look(h, Main, t).cache
             /\ MainStep(g, h, t)
             /\ \A u \in Tags : MainOf(g, u) = MainOf(h, u) /\ Holds(g, Main, u) = Holds(h, Main, u)
             /\ HitsIn(h, Main, t) => ValidInFront(g, Main, t)
<1> DEFINE looked == Look(h, Main, t)
           g == Count(looked, Main, names)
<1>1. Main \in Caches
  BY CacheFacts
<1>2. /\ Fine(looked) /\ SameContent(looked, h)
      /\ \A j \in Caches \ {Main} : looked.cache[j] = h.cache[j]
      /\ HitsIn(h, Main, t) => ValidInFront(looked, Main, t)
  BY <1>1, LookFine DEF ValidInFront
<1> HIDE DEF looked
<1>3. Fine(g) /\ g.cache = looked.cache /\ SameContent(g, looked)
  BY <1>1, <1>2, CountFine
<1> HIDE DEF g
<1>4. SameContent(g, h) /\ \A j \in Caches \ {Main} : g.cache[j] = h.cache[j]
  BY <1>2, <1>3, SameContentTrans
<1>5. MainStep(g, h, t) /\ \A u \in Tags : MainOf(g, u) = MainOf(h, u)
  BY <1>3, <1>4, QuietMain
<1>6. HitsIn(h, Main, t) => ValidInFront(g, Main, t)
  BY <1>2, <1>3 DEF ValidInFront, RowOf
<1>7. \A u \in Tags : Holds(g, Main, u) = Holds(h, Main, u)
  BY <1>1, <1>4 DEF SameContent
<1> QED BY <1>3, <1>5, <1>6, <1>7 DEF looked, g

(* A write-back that reaches main memory is there.                         *)
LEMMA MainWriteKeeps ==
  ASSUME NEW h, Fine(h), NEW t \in Used, NEW data \in LineData
  PROVE  /\ MainStep(MainWrite(h, t, data), h, t)
         /\ MainOf(MainWrite(h, t, data), t) = data
<1> DEFINE looked == Count(Look(h, Main, t), Main, {"numWritebacksReceived"})
<1>1. Main \in Caches /\ t \in Tags
  BY CacheFacts, UsedFacts
<1>2. /\ Fine(looked) /\ MainStep(looked, h, t)
      /\ Holds(looked, Main, t) = Holds(h, Main, t)
      /\ HitsIn(h, Main, t) => ValidInFront(looked, Main, t)
  BY <1>1, MainLook
<1>3. MainWrite(h, t, data) =
        IF HitsIn(h, Main, t)
        THEN Count(WithRow(looked, Main, t, SetData(RowOf(looked, Main, t), data)),
                   Main, {"numWriteHits"})
        ELSE FillLine(looked, Main, t, "M", data, NoWrite)
  BY DEF MainWrite, WriteLine, Received
<1> HIDE DEF looked
<1>4. CASE HitsIn(h, Main, t)
  <2> DEFINE put == WithRow(looked, Main, t, SetData(RowOf(looked, Main, t), data))
             hit == Count(put, Main, {"numWriteHits"})
  <2>1. /\ Fine(put)
        /\ \A j \in Caches \ {Main} : put.cache[j] = looked.cache[j]
        /\ Holds(put, Main, t) = data
        /\ \A u \in Tags \ {t} : Holds(put, Main, u) = Holds(looked, Main, u)
        /\ \A u \in Tags : AllValid(RowOf(looked, Main, u)) => AllValid(RowOf(put, Main, u))
    BY <1>1, <1>2, <1>4, PutDataFine
  <2> HIDE DEF put
  <2>2. MainStep(put, looked, t) /\ MainOf(put, t) = data
    BY <2>1, NoDataFacts DEF MainStep, MainKept, OutOfMain, MainFull, MainOf
  <2>3. MainStep(hit, put, t) /\ MainOf(hit, t) = MainOf(put, t)
    <3>1. Fine(hit) /\ hit.cache = put.cache /\ SameContent(hit, put)
      BY <1>1, <2>1, CountFine
    <3> HIDE DEF hit
    <3> QED BY <1>1, <3>1, QuietMain
  <2>4. MainWrite(h, t, data) = hit
    BY <1>3, <1>4 DEF hit, put
  <2> HIDE DEF hit
  <2> QED BY <1>2, <2>2, <2>3, <2>4, MainStepTrans
<1>5. CASE ~HitsIn(h, Main, t)
  <2>1. Holds(looked, Main, t) = NoData
    BY <1>1, <1>2, <1>5, HoldsFacts DEF Fine
  <2>2. /\ MainStep(FillLine(looked, Main, t, "M", data, NoWrite), looked, t)
        /\ MainOf(FillLine(looked, Main, t, "M", data, NoWrite), t) = data
    BY <1>2, <2>1, MainFillKeeps
  <2> QED BY <1>2, <1>3, <1>5, <2>2, MainStepTrans
<1> QED BY <1>4, <1>5

(* A line read that reaches main memory returns its content and changes    *)
(* none.                                                                   *)
LEMMA MainReadKeeps ==
  ASSUME NEW h, Fine(h), NEW t \in Used
  PROVE  /\ MainStep(MainRead(h, t).hier, h, t)
         /\ MainRead(h, t).data = MainOf(h, t)
         /\ MainOf(MainRead(h, t).hier, t) = MainOf(h, t)
<1> DEFINE hit == Count(Look(h, Main, t), Main, {"numReadHits"})
           missed == Count(Look(h, Main, t), Main, {"numReadMisses", "numReadRequestsSent"})
           filled == FillLine(missed, Main, t, "S", NaNLine, NoWrite)
<1>1. Main \in Caches /\ t \in Tags /\ Good(h)
  BY CacheFacts, UsedFacts DEF Fine
<1>2. MainRead(h, t) =
        IF HitsIn(h, Main, t) THEN [hier |-> hit, data |-> FrontData(Look(h, Main, t), Main, t)]
                              ELSE [hier |-> filled, data |-> NaNLine]
  BY DEF MainRead, ReadLine, NoRead
<1>3. CASE HitsIn(h, Main, t)
  <2>1. MainStep(hit, h, t) /\ MainOf(hit, t) = MainOf(h, t)
    BY <1>1, MainLook
  <2>2. FrontData(Look(h, Main, t), Main, t) = MainOf(h, t)
    BY <1>1, <1>3, LookFine, HoldsFacts DEF FrontData, MainOf
  <2> HIDE DEF hit
  <2> QED BY <1>2, <1>3, <2>1, <2>2
<1>4. CASE ~HitsIn(h, Main, t)
  <2>1. Fine(missed) /\ MainStep(missed, h, t) /\ Holds(missed, Main, t) = Holds(h, Main, t)
    BY <1>1, MainLook
  <2> HIDE DEF missed
  <2>2. Holds(h, Main, t) = NoData
    BY <1>1, <1>4, HoldsFacts
  <2>3. MainStep(filled, missed, t) /\ MainOf(filled, t) = NaNLine
    BY <2>1, <2>2, NaNLineType, MainFillKeeps
  <2> HIDE DEF filled
  <2>4. MainOf(h, t) = NaNLine
    BY <2>2 DEF MainOf
  <2> QED BY <1>2, <1>4, <2>1, <2>3, <2>4, MainStepTrans
<1> QED BY <1>3, <1>4

(* A step of main memory, as the last-level cache above it sees it: only   *)
(* the line that was pushed changes.                                       *)
LEMMA MainStepIsBelow ==
  ASSUME NEW g, NEW h, NEW t, MainStep(g, h, t)
  PROVE  /\ BelowStep(g, h, t)
         /\ g.cache[LLC] = h.cache[LLC]
         /\ \A u \in Tags : Holds(g, LLC, u) = Holds(h, LLC, u)
<1>1. LLC \in Caches \ {Main} /\ \A c \in Cpus : c \in Caches \ {Main}
  BY CacheFacts
<1>2. g.cache[LLC] = h.cache[LLC] /\ SamePrivate(g, h)
  BY <1>1 DEF MainStep, SamePrivate
<1>3. \A u \in Tags : Holds(g, LLC, u) = Holds(h, LLC, u)
  BY <1>2 DEF Holds, RowOf
<1>4. \A u \in Tags \ {t} : BelowKept(g, h, u)
  BY <1>3 DEF MainStep, MainKept, BelowKept, BelowOf, OutOfBelow
<1> QED BY <1>2, <1>3, <1>4 DEF BelowStep, MainStep

(* A fill of the last-level cache: its victim goes to main memory.         *)
LEMMA LLCFillKeeps ==
  ASSUME NEW h, Fine(h), NEW t \in Used, Holds(h, LLC, t) = NoData,
         NEW s \in {"M", "S"}, NEW data \in LineData
  PROVE  /\ BelowStep(FillLine(h, LLC, t, s, data, MainWrite), h, t)
         /\ BelowOf(FillLine(h, LLC, t, s, data, MainWrite), t) = data
<1> DEFINE victim == Victim(RowOf(h, LLC, t), t)
           written == MainWrite(h, victim.tag, victim.data)
           pushed == Count(written, LLC, {"numReplacements"})
           start == IF victim.islineInvalid THEN h ELSE pushed
           f == WithRow(start, LLC, t, Install(RowOf(h, LLC, t), t, s, data))
<1>1. LLC \in Caches /\ Main \in Caches /\ LLC # Main /\ LLC \notin Cpus
  BY CacheFacts
<1>2. FillLine(h, LLC, t, s, data, MainWrite) = f
  BY <1>1 DEF FillLine, Evicts
<1>3. \A u : Evicted(h, LLC, t, u) <=> ~victim.islineInvalid /\ victim.tag = u
  BY DEF Evicted, Drops
<1>4. \A u : Evicted(h, LLC, t, u) =>
        /\ u \in Used /\ SetOf(u) = SetOf(t) /\ u # t
        /\ victim.data = Holds(h, LLC, u)
        /\ Holds(h, LLC, u) \in LineData /\ Holds(h, LLC, u) # NoData
  BY <1>1, EvictedFacts
<1> HIDE DEF victim
<1>5. ASSUME ~victim.islineInvalid
      PROVE  MainStep(pushed, h, victim.tag) /\ MainOf(pushed, victim.tag) = victim.data
  <2>1. MainStep(written, h, victim.tag) /\ MainOf(written, victim.tag) = victim.data
    BY <1>3, <1>4, <1>5, MainWriteKeeps
  <2> HIDE DEF written
  <2>2. /\ Fine(pushed) /\ pushed.cache = written.cache
        /\ SameContent(pushed, written)
    BY <1>1, <2>1, CountFine DEF MainStep
  <2> HIDE DEF pushed
  <2>3. /\ MainStep(pushed, written, victim.tag)
        /\ \A u \in Tags : MainOf(pushed, u) = MainOf(written, u)
    BY <2>2, QuietMain
  <2>4. victim.tag \in Tags
    BY <1>3, <1>4, <1>5, UsedFacts
  <2> QED BY <2>1, <2>3, <2>4, MainStepTrans
<1> HIDE DEF pushed
<1>6. /\ Fine(start)
      /\ \A j \in Caches \ {Main} : start.cache[j] = h.cache[j]
      /\ \A u \in Tags : ~Evicted(h, LLC, t, u) => MainKept(start, h, u)
      /\ \A u \in Tags : Evicted(h, LLC, t, u) => MainOf(start, u) = Holds(h, LLC, u)
  <2>1. CASE victim.islineInvalid
    BY <1>3, <2>1 DEF MainKept
  <2>2. CASE ~victim.islineInvalid
    <3>1. start = pushed
      BY <2>2
    <3>2. \A u : Evicted(h, LLC, t, u) <=> u = victim.tag
      BY <1>3, <2>2
    <3> HIDE DEF start
    <3>3. MainStep(start, h, victim.tag) /\ MainOf(start, victim.tag) = victim.data
      BY <1>5, <2>2, <3>1
    <3>4. victim.data = Holds(h, LLC, victim.tag)
      BY <1>4, <3>2
    <3> QED BY <3>2, <3>3, <3>4 DEF MainStep
  <2> QED BY <2>1, <2>2
<1> HIDE DEF start
<1>7. /\ Fine(f)
      /\ \A j \in Caches \ {LLC} : f.cache[j] = start.cache[j]
      /\ Holds(f, LLC, t) = data
      /\ \A u \in Tags \ {t} : Holds(f, LLC, u) =
           IF Evicted(h, LLC, t, u) THEN NoData ELSE Holds(h, LLC, u)
  BY <1>1, <1>6, InstallFine
<1> HIDE DEF f
<1>8. \A u \in Tags : MainOf(f, u) = MainOf(start, u) /\ (OutOfMain(f, u) <=> OutOfMain(start, u))
  BY <1>1, <1>7 DEF MainOf, OutOfMain, MainFull, Holds, RowOf
<1>9. ASSUME NEW u \in Tags \ {t} PROVE BelowKept(f, h, u)
  <2>1. CASE Evicted(h, LLC, t, u)
    <3>1. BelowOf(f, u) = Holds(h, LLC, u) /\ BelowOf(h, u) = Holds(h, LLC, u)
      BY <1>4, <1>6, <1>7, <1>8, <2>1 DEF BelowOf
    <3>2. ~OutOfBelow(h, u)
      BY <1>4, <2>1 DEF OutOfBelow
    <3> QED BY <3>1, <3>2 DEF BelowKept
  <2>2. CASE ~Evicted(h, LLC, t, u)
    <3>1. MainKept(start, h, u) /\ Holds(f, LLC, u) = Holds(h, LLC, u)
      BY <1>6, <1>7, <2>2
    <3> QED BY <1>8, <3>1 DEF MainKept, BelowKept, BelowOf, OutOfBelow
  <2> QED BY <2>1, <2>2
<1>10. BelowOf(f, t) = data
  BY <1>7, NoDataFacts DEF BelowOf
<1>11. SamePrivate(f, h)
  BY <1>1, <1>6, <1>7, CacheFacts DEF SamePrivate
<1> QED BY <1>2, <1>7, <1>9, <1>10, <1>11 DEF BelowStep

(* A lookup at the last-level cache, with what it counts.                  *)
LEMMA LLCLook ==
  ASSUME NEW h, Fine(h), NEW t \in Used, NEW names
  PROVE  LET g == Count(Look(h, LLC, t), LLC, names)
         IN  /\ Fine(g) /\ g.cache = Look(h, LLC, t).cache
             /\ BelowStep(g, h, t)
             /\ \A u \in Tags : /\ BelowOf(g, u) = BelowOf(h, u)
                                /\ Holds(g, LLC, u) = Holds(h, LLC, u)
                                /\ MainOf(g, u) = MainOf(h, u)
             /\ HitsIn(h, LLC, t) => ValidInFront(g, LLC, t)
<1> DEFINE looked == Look(h, LLC, t)
           g == Count(looked, LLC, names)
<1>1. LLC \in Caches /\ Main \in Caches /\ \A c \in Cpus : c \in Caches \ {LLC}
  BY CacheFacts
<1>2. /\ Fine(looked) /\ SameContent(looked, h)
      /\ \A j \in Caches \ {LLC} : looked.cache[j] = h.cache[j]
      /\ HitsIn(h, LLC, t) => ValidInFront(looked, LLC, t)
  BY <1>1, LookFine DEF ValidInFront
<1> HIDE DEF looked
<1>3. Fine(g) /\ g.cache = looked.cache /\ SameContent(g, looked)
  BY <1>1, <1>2, CountFine
<1> HIDE DEF g
<1>4. SameContent(g, h) /\ SamePrivate(g, h)
  BY <1>1, <1>2, <1>3, SameContentTrans DEF SamePrivate
<1>5. BelowStep(g, h, t) /\ \A u \in Tags : BelowOf(g, u) = BelowOf(h, u)
  BY <1>3, <1>4, QuietBelow
<1>6. HitsIn(h, LLC, t) => ValidInFront(g, LLC, t)
  BY <1>2, <1>3 DEF ValidInFront, RowOf
<1>7. \A u \in Tags : Holds(g, LLC, u) = Holds(h, LLC, u) /\ MainOf(g, u) = MainOf(h, u)
  BY <1>1, <1>4 DEF SameContent, MainOf
<1> QED BY <1>3, <1>5, <1>6, <1>7 DEF looked, g

(* A write-back that reaches the last-level cache is there.                *)
LEMMA LLCWriteKeeps ==
  ASSUME NEW h, Fine(h), NEW t \in Used, NEW data \in LineData
  PROVE  /\ BelowStep(LLCWrite(h, t, data), h, t)
         /\ BelowOf(LLCWrite(h, t, data), t) = data
<1> DEFINE looked == Count(Look(h, LLC, t), LLC, {"numWritebacksReceived"})
<1>1. LLC \in Caches /\ Main \in Caches /\ LLC # Main /\ LLC \notin Cpus /\ t \in Tags
  BY CacheFacts, UsedFacts
<1>2. /\ Fine(looked) /\ BelowStep(looked, h, t)
      /\ Holds(looked, LLC, t) = Holds(h, LLC, t)
      /\ HitsIn(h, LLC, t) => ValidInFront(looked, LLC, t)
  BY <1>1, LLCLook
<1>3. LLCWrite(h, t, data) =
        IF HitsIn(h, LLC, t)
        THEN Count(WithRow(looked, LLC, t, SetData(RowOf(looked, LLC, t), data)),
                   LLC, {"numWriteHits"})
        ELSE FillLine(looked, LLC, t, "M", data, MainWrite)
  BY DEF LLCWrite, WriteLine, Received
<1> HIDE DEF looked
<1>4. CASE HitsIn(h, LLC, t)
  <2> DEFINE put == WithRow(looked, LLC, t, SetData(RowOf(looked, LLC, t), data))
             hit == Count(put, LLC, {"numWriteHits"})
  <2>1. /\ Fine(put)
        /\ \A j \in Caches \ {LLC} : put.cache[j] = looked.cache[j]
        /\ Holds(put, LLC, t) = data
        /\ \A u \in Tags \ {t} : Holds(put, LLC, u) = Holds(looked, LLC, u)
    BY <1>1, <1>2, <1>4, PutDataFine
  <2> HIDE DEF put
  <2>2. \A u \in Tags : MainOf(put, u) = MainOf(looked, u) /\ (OutOfMain(put, u) <=> OutOfMain(looked, u))
    BY <1>1, <2>1 DEF MainOf, OutOfMain, MainFull, Holds, RowOf
  <2>3. SamePrivate(put, looked)
    BY <1>1, <2>1, CacheFacts DEF SamePrivate
  <2>4. BelowStep(put, looked, t) /\ BelowOf(put, t) = data
    BY <2>1, <2>2, <2>3, NoDataFacts DEF BelowStep, BelowKept, OutOfBelow, BelowOf
  <2>5. BelowStep(hit, put, t) /\ BelowOf(hit, t) = BelowOf(put, t)
    <3>1. Fine(hit) /\ hit.cache = put.cache /\ SameContent(hit, put)
      BY <1>1, <2>1, CountFine
    <3> HIDE DEF hit
    <3> QED BY <1>1, <3>1, QuietBelow DEF SamePrivate
  <2>6. LLCWrite(h, t, data) = hit
    BY <1>3, <1>4 DEF hit, put
  <2> HIDE DEF hit
  <2> QED BY <1>2, <2>4, <2>5, <2>6, BelowStepTrans
<1>5. CASE ~HitsIn(h, LLC, t)
  <2>1. Holds(looked, LLC, t) = NoData
    BY <1>1, <1>2, <1>5, HoldsFacts DEF Fine
  <2>2. /\ BelowStep(FillLine(looked, LLC, t, "M", data, MainWrite), looked, t)
        /\ BelowOf(FillLine(looked, LLC, t, "M", data, MainWrite), t) = data
    BY <1>2, <2>1, LLCFillKeeps
  <2> QED BY <1>2, <1>3, <1>5, <2>2, BelowStepTrans
<1> QED BY <1>4, <1>5

(* A line read that reaches the last-level cache returns the content of    *)
(* the two lower levels and changes none.                                  *)
LEMMA LLCReadKeeps ==
  ASSUME NEW h, Fine(h), NEW t \in Used
  PROVE  /\ BelowStep(LLCRead(h, t).hier, h, t)
         /\ LLCRead(h, t).data = BelowOf(h, t)
         /\ BelowOf(LLCRead(h, t).hier, t) = BelowOf(h, t)
<1> DEFINE hit == Count(Look(h, LLC, t), LLC, {"numReadHits"})
           missed == Count(Look(h, LLC, t), LLC, {"numReadMisses", "numReadRequestsSent"})
           below == MainRead(missed, t)
           filled == FillLine(below.hier, LLC, t, "S", below.data, MainWrite)
<1>1. LLC \in Caches /\ t \in Tags /\ Good(h)
  BY CacheFacts, UsedFacts DEF Fine
<1>2. LLCRead(h, t) =
        IF HitsIn(h, LLC, t) THEN [hier |-> hit, data |-> FrontData(Look(h, LLC, t), LLC, t)]
                             ELSE [hier |-> filled, data |-> below.data]
  BY DEF LLCRead, ReadLine
<1>3. CASE HitsIn(h, LLC, t)
  <2>1. BelowStep(hit, h, t) /\ BelowOf(hit, t) = BelowOf(h, t)
    BY <1>1, LLCLook
  <2>2. FrontData(Look(h, LLC, t), LLC, t) = BelowOf(h, t)
    BY <1>1, <1>3, LookFine, HoldsFacts DEF FrontData, BelowOf
  <2> HIDE DEF hit
  <2> QED BY <1>2, <1>3, <2>1, <2>2
<1>4. CASE ~HitsIn(h, LLC, t)
  <2>1. /\ Fine(missed) /\ BelowStep(missed, h, t)
        /\ Holds(missed, LLC, t) = Holds(h, LLC, t) /\ MainOf(missed, t) = MainOf(h, t)
    BY <1>1, LLCLook
  <2> HIDE DEF missed
  <2>2. Holds(h, LLC, t) = NoData /\ BelowOf(h, t) = MainOf(h, t)
    BY <1>1, <1>4, HoldsFacts DEF BelowOf
  <2>3. /\ MainStep(below.hier, missed, t) /\ below.data = MainOf(missed, t)
        /\ MainOf(below.hier, t) = MainOf(missed, t)
    BY <2>1, MainReadKeeps
  <2>4. below.data \in LineData
    BY <1>1, <2>1, MainReadUnder DEF Fine
  <2> HIDE DEF below
  <2>5. /\ BelowStep(below.hier, missed, t) /\ Fine(below.hier)
        /\ Holds(below.hier, LLC, t) = NoData
    BY <1>1, <2>1, <2>2, <2>3, MainStepIsBelow DEF MainStep
  <2>6. BelowStep(filled, below.hier, t) /\ BelowOf(filled, t) = below.data
    BY <2>4, <2>5, LLCFillKeeps
  <2> HIDE DEF filled
  <2> QED BY <1>2, <1>4, <2>1, <2>2, <2>3, <2>5, <2>6, BelowStepTrans
<1> QED BY <1>3, <1>4

-----------------------------------------------------------------------------
(* The private caches: what the whole hierarchy holds.                     *)

Held(h, t) == \E c \in Cpus : Holds(h, c, t) # NoData
Holder(h, t) == CHOOSE c \in Cpus : Holds(h, c, t) # NoData

(* The private copies of a line agree, so any of them is its content.      *)
Agreed(h) == \A c, d \in Cpus, t \in Tags :
  (Holds(h, c, t) # NoData /\ Holds(h, d, t) # NoData) => Holds(h, c, t) = Holds(h, d, t)

Content(h, t) == IF Held(h, t) THEN Holds(h, Holder(h, t), t) ELSE BelowOf(h, t)

(* A line that no level has can only come back empty.                      *)
Gone(h, t) == ~Held(h, t) /\ OutOfBelow(h, t)
Kept(g, h, u) ==
  /\ Content(g, u) = Content(h, u) \/ Gone(g, u)
  /\ Gone(h, u) => Gone(g, u)

(* The inductive invariant: coherent rows, every line in its own row, and  *)
(* copies that agree.                                                      *)
Sound(h) == Coherent(h) /\ Homed(h) /\ Agreed(h)

(* A private cache loses a line; what the fill after a miss may throw out; *)
(* and who has the line modified in front.                                 *)
Loses(g, h, d, u) == Holds(h, d, u) # NoData /\ Holds(g, d, u) = NoData
ThrowsOut(h, c, t, u) == Drops(FindLine(RowOf(h, c, t), t), t, u)
OwnsFront(g, c, t) == ValidInFront(g, c, t) /\ RowOf(g, c, t)[1].state = "M"

(* A step of the hierarchy that may change the content of line t only.     *)
KeepsOthers(g, h, t) == Sound(g) /\ \A u \in Tags \ {t} : Kept(g, h, u)

(* What a sound hierarchy is.                                              *)
LEMMA SoundIsFine == \A h : Sound(h) => Fine(h) /\ Good(h) /\ Coherent(h) /\ Agreed(h)
BY DEF Sound, Fine, Coherent

(* Two steps of the hierarchy.                                             *)
LEMMA StepTrans ==
  ASSUME NEW f, NEW g, NEW h, NEW t, KeepsOthers(f, g, t), KeepsOthers(g, h, t)
  PROVE  KeepsOthers(f, h, t)
<1>1. \A u \in Tags \ {t} : Kept(f, h, u)
  BY DEF KeepsOthers, Kept
<1> QED BY <1>1 DEF KeepsOthers

(* Any copy is the content.                                                *)
LEMMA CopyIs ==
  ASSUME NEW h, Agreed(h), NEW t \in Tags
  PROVE  /\ \A c \in Cpus : Holds(h, c, t) # NoData => Held(h, t) /\ Content(h, t) = Holds(h, c, t)
         /\ ~Held(h, t) => Content(h, t) = BelowOf(h, t)
<1>1. ASSUME NEW c \in Cpus, Holds(h, c, t) # NoData
      PROVE  Held(h, t) /\ Content(h, t) = Holds(h, c, t)
  <2>1. Held(h, t)
    BY <1>1 DEF Held
  <2>2. Holder(h, t) \in Cpus /\ Holds(h, Holder(h, t), t) # NoData
    BY <1>1 DEF Holder
  <2> QED BY <1>1, <2>1, <2>2 DEF Agreed, Content
<1> QED BY <1>1 DEF Content

(* The content of a line is the data of a line.                            *)
LEMMA ContentType ==
  ASSUME NEW h, Sound(h), NEW t \in Tags
  PROVE  Content(h, t) \in LineData
<1>1. Good(h) /\ Agreed(h) /\ \A k \in Caches : Holds(h, k, t) # NoData => Holds(h, k, t) \in LineData
  BY SoundIsFine, HoldsFacts
<1>2. CASE Held(h, t)
  <2>1. PICK c \in Cpus : Holds(h, c, t) # NoData
    BY <1>2 DEF Held
  <2> QED BY <1>1, <2>1, CopyIs, CacheFacts
<1>3. CASE ~Held(h, t)
  BY <1>1, <1>3, CopyIs, CacheFacts, NaNLineType DEF BelowOf, MainOf
<1> QED BY <1>2, <1>3

(* A step that moves, counts or relabels lines changes no content.         *)
LEMMA QuietSound ==
  ASSUME NEW g, Coherent(g), Homed(g), NEW h, Agreed(h), SameContent(g, h), NEW t
  PROVE  /\ KeepsOthers(g, h, t)
         /\ \A u \in Tags : Content(g, u) = Content(h, u)
         /\ \A k \in Caches, u \in Tags : Holds(g, k, u) = Holds(h, k, u)
<1>1. Main \in Caches /\ LLC \in Caches /\ Cpus \subseteq Caches
  BY CacheFacts
<1>2. \A k \in Caches, u \in Tags : Holds(g, k, u) = Holds(h, k, u)
  BY DEF SameContent
<1>3. Agreed(g)
  BY <1>1, <1>2 DEF Agreed
<1>4. ASSUME NEW u \in Tags PROVE Content(g, u) = Content(h, u) /\ (Gone(h, u) => Gone(g, u))
  <2>1. BelowOf(g, u) = BelowOf(h, u) /\ (OutOfBelow(h, u) => OutOfBelow(g, u))
    BY <1>1, <1>2 DEF BelowOf, MainOf, OutOfBelow, OutOfMain, SameContent
  <2>2. Held(g, u) <=> Held(h, u)
    BY <1>1, <1>2 DEF Held
  <2>3. CASE Held(h, u)
    <3>1. PICK c \in Cpus : Holds(h, c, u) # NoData
      BY <2>3 DEF Held
    <3>2. Holds(g, c, u) = Holds(h, c, u)
      BY <1>1, <1>2
    <3>3. Content(g, u) = Holds(g, c, u) /\ Content(h, u) = Holds(h, c, u)
      BY <1>3, <3>1, <3>2, CopyIs
    <3> QED BY <2>3, <3>2, <3>3 DEF Gone
  <2>4. CASE ~Held(h, u)
    BY <2>1, <2>2, <2>4 DEF Content, Gone
  <2> QED BY <2>3, <2>4
<1>5. \A u \in Tags : Kept(g, h, u)
  BY <1>4 DEF Kept
<1> QED BY <1>2, <1>3, <1>4, <1>5 DEF KeepsOthers, Sound

(* What the levels below do keeps the content of every other line.         *)
LEMMA BelowSound ==
  ASSUME NEW g, NEW h, Sound(h), NEW t, BelowStep(g, h, t)
  PROVE  /\ KeepsOthers(g, h, t)
         /\ \A c \in Cpus, u \in Tags : Holds(g, c, u) = Holds(h, c, u)
         /\ \A u \in Tags : Held(g, u) <=> Held(h, u)
<1>1. SamePrivate(g, h) /\ Fine(g) /\ Good(g) /\ Homed(g)
  BY DEF BelowStep, Fine
<1>2. \A c \in Cpus, u \in Tags : Holds(g, c, u) = Holds(h, c, u)
  BY <1>1 DEF SamePrivate, Holds, RowOf
<1>3. \A u \in Tags : Held(g, u) <=> Held(h, u)
  BY <1>2 DEF Held
<1>4. Coherent(g) /\ Agreed(g)
  BY <1>1, <1>2, SameIsWeaker, WeakerExclusive DEF Sound, Coherent, Agreed
<1>5. ASSUME NEW u \in Tags \ {t} PROVE Kept(g, h, u)
  <2>1. BelowKept(g, h, u)
    BY DEF BelowStep
  <2>2. CASE Held(h, u)
    <3>1. PICK c \in Cpus : Holds(h, c, u) # NoData
      BY <2>2 DEF Held
    <3>2. Content(g, u) = Holds(g, c, u) /\ Content(h, u) = Holds(h, c, u)
      BY <1>2, <1>4, <3>1, CopyIs, SoundIsFine
    <3> QED BY <1>2, <2>2, <3>2 DEF Kept, Gone
  <2>3. CASE ~Held(h, u)
    BY <1>3, <2>1, <2>3 DEF Kept, Gone, Content, BelowKept
  <2> QED BY <2>2, <2>3
<1> QED BY <1>1, <1>2, <1>3, <1>4, <1>5 DEF KeepsOthers, Sound

(* A lookup of an access, with what it counts.                             *)
LEMMA LookSound ==
  ASSUME NEW h, Sound(h), NEW c \in Cpus, NEW t \in Used, NEW names
  PROVE  LET g == Count(Look(h, c, t), c, names)
         IN  /\ KeepsOthers(g, h, t) /\ Sound(Look(h, c, t))
             /\ g.cache = Look(h, c, t).cache
             /\ \A u \in Tags : Content(g, u) = Content(h, u)
             /\ \A k \in Caches, u \in Tags :
                  Holds(g, k, u) = Holds(h, k, u) /\ Holds(Look(h, c, t), k, u) = Holds(h, k, u)
             /\ HitsIn(h, c, t) => /\ ValidInFront(g, c, t)
                                   /\ FrontData(Look(h, c, t), c, t) = Content(h, t)
<1> DEFINE looked == Look(h, c, t)
           g == Count(looked, c, names)
<1>1. c \in Caches /\ t \in Tags /\ Fine(h) /\ Coherent(h) /\ Agreed(h) /\ Good(h)
  BY CacheFacts, UsedFacts, SoundIsFine
<1>2. Coherent(looked) /\ Coherent(g) /\ g.cache = looked.cache
  BY <1>1, AccessLook
<1>3. /\ Fine(looked) /\ SameContent(looked, h)
      /\ HitsIn(h, c, t) => /\ ValidInFront(looked, c, t)
                            /\ RowOf(looked, c, t)[1].data = Holds(h, c, t)
  BY <1>1, LookFine DEF ValidInFront
<1> HIDE DEF looked
<1>4. Fine(g) /\ SameContent(g, looked)
  BY <1>1, <1>3, CountFine
<1> HIDE DEF g
<1>5. SameContent(g, h)
  BY <1>3, <1>4, SameContentTrans
<1>6. /\ KeepsOthers(g, h, t) /\ \A u \in Tags : Content(g, u) = Content(h, u)
      /\ \A k \in Caches, u \in Tags : Holds(g, k, u) = Holds(h, k, u)
  BY <1>1, <1>2, <1>4, <1>5, QuietSound DEF Fine
<1>7. KeepsOthers(looked, h, t) /\ \A k \in Caches, u \in Tags : Holds(looked, k, u) = Holds(h, k, u)
  BY <1>1, <1>2, <1>3, QuietSound DEF Fine
<1>8. HitsIn(h, c, t) => Holds(h, c, t) = Content(h, t)
  BY <1>1, HoldsFacts, CopyIs
<1>9. HitsIn(h, c, t) => ValidInFront(g, c, t)
  BY <1>2, <1>3 DEF ValidInFront, RowOf
<1> QED BY <1>2, <1>3, <1>6, <1>7, <1>8, <1>9 DEF FrontData, KeepsOthers, g, looked

(* Counting, in an access.                                                 *)
LEMMA CountSound ==
  ASSUME NEW h, Sound(h), NEW c \in Cpus, NEW names, NEW t
  PROVE  LET g == Count(h, c, names)
         IN  /\ KeepsOthers(g, h, t) /\ g.cache = h.cache
             /\ \A u \in Tags : Content(g, u) = Content(h, u)
             /\ \A k \in Caches, u \in Tags : Holds(g, k, u) = Holds(h, k, u)
<1> DEFINE g == Count(h, c, names)
<1>1. c \in Caches /\ Fine(h) /\ Coherent(h) /\ Agreed(h)
  BY CacheFacts, SoundIsFine
<1>2. Coherent(g) /\ g.cache = h.cache /\ Fine(g) /\ SameContent(g, h)
  BY <1>1, CountCoherent, CountFine
<1> HIDE DEF g
<1> QED BY <1>1, <1>2, QuietSound DEF Fine, g

-----------------------------------------------------------------------------
(* The snoops.                                                             *)

(* What an asked sibling still holds.                                      *)
LEMMA AnswerData ==
  ASSUME NEW n \in Nat \ {0}, NEW row \in Row(n), RowOK(row), NEW t \in Tags
  PROVE  /\ \A u : DataIn(ReadAnswer(row, t), u) = DataIn(row, u)
         /\ \A u : DataIn(WriteAnswer(row, t), u) = IF u = t THEN NoData ELSE DataIn(row, u)
<1> DEFINE new == FindLine(row, t)
<1>1. /\ new \in Row(n) /\ RowOK(new)
      /\ \A u : DataIn(new, u) = DataIn(row, u)
      /\ Hits(row, t) => new[1].tag = t /\ IsValid(new[1])
  BY FindLineType, FindLineOK, FindLineData
<1> HIDE DEF new
<1>2. CASE Hits(row, t)
  <2>1. ReadAnswer(row, t) = SetState(new, "S") /\ WriteAnswer(row, t) = Invalidate(new)
    BY <1>2 DEF ReadAnswer, WriteAnswer, new
  <2>2. \A u : DataIn(SetState(new, "S"), u) = DataIn(new, u)
    BY <1>1, <1>2, SetStateData
  <2>3. \A u : DataIn(Invalidate(new), u) = IF u = t THEN NoData ELSE DataIn(new, u)
    BY <1>1, <1>2, InvalidateData
  <2> QED BY <1>1, <2>1, <2>2, <2>3
<1>3. CASE ~Hits(row, t)
  <2>1. ReadAnswer(row, t) = new /\ WriteAnswer(row, t) = new
    BY <1>3 DEF ReadAnswer, WriteAnswer, new
  <2>2. DataIn(row, t) = NoData
    BY <1>3, HitsIffHas DEF DataIn
  <2> QED BY <1>1, <2>1, <2>2
<1> QED BY <1>2, <1>3

(* A read's snoop changes nothing that is held.                            *)
LEMMA ReadRemoteSound ==
  ASSUME NEW h, Sound(h), NEW c \in Cpus, NEW t \in Used
  PROVE  LET g == ReadRemoteAction(h, c, t)
         IN  /\ KeepsOthers(g, h, t)
             /\ \A u \in Tags : Content(g, u) = Content(h, u)
             /\ \A k \in Caches, u \in Tags : Holds(g, k, u) = Holds(h, k, u)
<1> DEFINE g == ReadRemoteAction(h, c, t)
<1>1. /\ t \in Tags /\ SetOf(t) \in Sets
      /\ Coherent(h) /\ Good(h) /\ HierType(h) /\ Homed(h) /\ Agreed(h)
  BY UsedFacts, SoundIsFine DEF Sound, Good
<1>2. Good(g) /\ Weaker(g, h)
  BY <1>1, ReadRemoteGood
<1>3. \A k \in Caches, s \in Sets :
        g.cache[k][s] = IF k \in AskedOnRead(h, c, t) /\ s = SetOf(t)
                        THEN ReadAnswer(RowOf(h, k, t), t) ELSE h.cache[k][s]
  BY <1>1, RemoteType
<1> HIDE DEF g
<1>4. Coherent(g)
  BY <1>1, <1>2, WeakerExclusive DEF Coherent
<1>5. \A k \in Caches : /\ \A u : DataIn(ReadAnswer(RowOf(h, k, t), t), u) = DataIn(RowOf(h, k, t), u)
                        /\ \A u : Has(ReadAnswer(RowOf(h, k, t), t), u) => Has(RowOf(h, k, t), u)
  BY <1>1, HoldsFacts, AnswerData, AnswerGood
<1>6. \A k \in Caches, s \in Sets : \A u :
        /\ DataIn(g.cache[k][s], u) = DataIn(h.cache[k][s], u)
        /\ Has(g.cache[k][s], u) => Has(h.cache[k][s], u)
  BY <1>3, <1>5 DEF RowOf
<1>7. Homed(g)
  BY <1>1, <1>6 DEF Homed
<1>8. \A k \in Caches, u \in Tags : Holds(g, k, u) = Holds(h, k, u)
  BY <1>6, UsedFacts DEF Holds, RowOf
<1>9. \A u \in Tags : RowOf(g, Main, u) = RowOf(h, Main, u)
  BY <1>3, CacheFacts, UsedFacts DEF RowOf, AskedOnRead, Siblings
<1>10. SameContent(g, h)
  BY <1>8, <1>9 DEF SameContent, MainFull
<1> QED BY <1>1, <1>4, <1>7, <1>10, QuietSound DEF g

(* A write's snoop takes the line from the siblings, and nothing else from *)
(* anybody.                                                                *)
LEMMA WriteRemoteSound ==
  ASSUME NEW h, Sound(h), NEW c \in Cpus, NEW t \in Used
  PROVE  LET g == WriteRemoteAction(h, c, t)
         IN  /\ KeepsOthers(g, h, t)
             /\ BelowOf(g, t) = BelowOf(h, t)
             /\ \A d \in Siblings(c) : Holds(g, d, t) = NoData
             /\ \A u \in Tags : Holds(g, c, u) = Holds(h, c, u)
             /\ \A d \in Cpus, u \in Tags \ {t} : Holds(g, d, u) = Holds(h, d, u)
             /\ \A u \in Tags : RowOf(g, c, u) = RowOf(h, c, u)
<1> DEFINE g == WriteRemoteAction(h, c, t)
<1>1. /\ t \in Tags /\ SetOf(t) \in Sets /\ Main \in Caches /\ LLC \in Caches /\ Cpus \subseteq Caches
      /\ Coherent(h) /\ Good(h) /\ HierType(h) /\ Homed(h) /\ Agreed(h)
  BY UsedFacts, SoundIsFine, CacheFacts DEF Sound, Good
<1>2. Good(g) /\ Weaker(g, h)
  BY <1>1, WriteRemoteGood
<1>3. \A k \in Caches, s \in Sets :
        g.cache[k][s] = IF k \in Siblings(c) /\ s = SetOf(t)
                        THEN WriteAnswer(RowOf(h, k, t), t) ELSE h.cache[k][s]
  BY <1>1, RemoteType
<1> HIDE DEF g
<1>4. Coherent(g)
  BY <1>1, <1>2, WeakerExclusive DEF Coherent
<1>5. \A k \in Caches : /\ \A u : DataIn(WriteAnswer(RowOf(h, k, t), t), u) =
                                    IF u = t THEN NoData ELSE DataIn(RowOf(h, k, t), u)
                        /\ \A u : Has(WriteAnswer(RowOf(h, k, t), t), u) => Has(RowOf(h, k, t), u)
  BY <1>1, HoldsFacts, AnswerData, AnswerGood
<1>6. \A k \in Caches, s \in Sets : \A u :
        /\ DataIn(g.cache[k][s], u) =
             IF k \in Siblings(c) /\ s = SetOf(t) /\ u = t THEN NoData ELSE DataIn(h.cache[k][s], u)
        /\ Has(g.cache[k][s], u) => Has(h.cache[k][s], u)
  BY <1>3, <1>5 DEF RowOf
<1>7. Homed(g)
  BY <1>1, <1>6 DEF Homed
<1>8. \A k \in Caches, u \in Tags :
        Holds(g, k, u) = IF k \in Siblings(c) /\ u = t THEN NoData ELSE Holds(h, k, u)
  BY <1>6, UsedFacts DEF Holds, RowOf
<1>9. \A k \in {c, LLC, Main}, u \in Tags : RowOf(g, k, u) = RowOf(h, k, u)
  BY <1>1, <1>3, CacheFacts, UsedFacts DEF RowOf, Siblings
<1>10. \A u \in Tags : BelowOf(g, u) = BelowOf(h, u) /\ (OutOfBelow(h, u) => OutOfBelow(g, u))
  BY <1>9 DEF BelowOf, MainOf, OutOfBelow, OutOfMain, MainFull, Holds
<1>11. Agreed(g)
  BY <1>1, <1>8 DEF Agreed
<1>12. ASSUME NEW u \in Tags \ {t} PROVE Kept(g, h, u)
  <2>1. \A d \in Cpus : Holds(g, d, u) = Holds(h, d, u)
    BY <1>1, <1>8
  <2>2. CASE Held(h, u)
    <3>1. PICK d \in Cpus : Holds(h, d, u) # NoData
      BY <2>2 DEF Held
    <3>2. Content(g, u) = Holds(g, d, u) /\ Content(h, u) = Holds(h, d, u)
      BY <1>1, <1>11, <2>1, <3>1, CopyIs
    <3> QED BY <2>1, <2>2, <3>2 DEF Kept, Gone
  <2>3. CASE ~Held(h, u)
    BY <1>10, <2>1, <2>3 DEF Kept, Gone, Content, Held
  <2> QED BY <2>2, <2>3
<1>13. KeepsOthers(g, h, t)
  BY <1>4, <1>7, <1>11, <1>12 DEF KeepsOthers, Sound
<1>14. /\ \A d \in Siblings(c) : Holds(g, d, t) = NoData
       /\ \A u \in Tags : Holds(g, c, u) = Holds(h, c, u)
       /\ \A d \in Cpus, u \in Tags \ {t} : Holds(g, d, u) = Holds(h, d, u)
  BY <1>1, <1>8 DEF Siblings
<1> QED BY <1>1, <1>9, <1>10, <1>13, <1>14 DEF g

(* What a read miss fetches is the content of the line.                    *)
LEMMA FetchSound ==
  ASSUME NEW h, Sound(h), NEW c \in Cpus, NEW t \in Used, Holds(h, c, t) = NoData
  PROVE  LET f == Fetch(h, c, t)
         IN  /\ KeepsOthers(f.hier, h, t)
             /\ f.data = Content(h, t) /\ f.data \in LineData
             /\ \A d \in Cpus, u \in Tags : Holds(f.hier, d, u) = Holds(h, d, u)
<1> DEFINE asked == ReadRemoteAction(h, c, t)
           f == Fetch(h, c, t)
           p == Provider(h, c, t)
<1>1. c \in Caches /\ t \in Tags /\ Cpus \subseteq Caches /\ Good(h) /\ Coherent(h) /\ Agreed(h)
  BY CacheFacts, UsedFacts, SoundIsFine
<1>2. /\ KeepsOthers(asked, h, t) /\ Content(asked, t) = Content(h, t)
      /\ \A k \in Caches, u \in Tags : Holds(asked, k, u) = Holds(h, k, u)
  BY <1>1, ReadRemoteSound
<1>3. Content(h, t) \in LineData
  BY <1>1, ContentType
<1>4. \A d \in Cpus : Holds(h, d, t) # NoData => d \in ValidCopies(h, c, t)
  BY <1>1, HoldsFacts DEF ValidCopies, Siblings
<1>5. CASE ValidCopies(h, c, t) # {}
  <2>1. p \in ValidCopies(h, c, t) /\ p \in Siblings(c) /\ p \in Caches /\ p \in Cpus /\ HitsIn(h, p, t)
    BY <1>1, <1>5, ValidCopiesFacts DEF ValidCopies, Siblings
  <2>2. RowOf(asked, p, t) = ReadAnswer(RowOf(h, p, t), t)
    <3>1. p \in AskedOnRead(h, c, t)
      <4>1. p = Min(ValidCopies(h, c, t)) /\ p \in Int
        BY <2>1, HierarchyAssumption DEF Provider, Cpus
      <4> QED BY <2>1, <4>1 DEF AskedOnRead
    <3>2. HierType(h) /\ SetOf(t) \in Sets
      BY <1>1, UsedFacts DEF Good
    <3> QED BY <1>1, <2>1, <3>1, <3>2, RemoteType DEF RowOf
  <2>3. RowOf(asked, p, t)[1].data = Holds(h, p, t)
    <3> DEFINE row == RowOf(h, p, t)
               new == FindLine(row, t)
    <3>1. row \in Row(Assoc(p)) /\ RowOK(row) /\ Assoc(p) \in Nat \ {0}
      BY <1>1, <2>1, HoldsFacts
    <3>2. Hits(row, t) /\ Holds(h, p, t) = DataIn(row, t)
      BY <2>1 DEF HitsIn, Holds
    <3> HIDE DEF row
    <3>3. new[1].data = DataIn(row, t) /\ new \in Row(Assoc(p))
      BY <3>1, <3>2, FindLineData, FindLineType
    <3>4. ReadAnswer(row, t) = SetState(new, "S")
      BY <3>2 DEF ReadAnswer
    <3> HIDE DEF new
    <3>5. 1 \in DOMAIN new /\ new[1] \in Line
      BY <3>1, <3>3 DEF Row
    <3>6. SetState(new, "S")[1].data = new[1].data
      BY <3>5 DEF SetState, Line
    <3> QED BY <2>2, <3>2, <3>3, <3>4, <3>6 DEF row
  <2>4. Holds(h, p, t) = Content(h, t)
    BY <1>1, <2>1, HoldsFacts, CopyIs
  <2>5. PICK names : f.hier = Count(asked, c, names)
    BY <1>5 DEF Fetch
  <2>6. f.data = FrontData(asked, p, t)
    BY <1>5 DEF Fetch
  <2> HIDE DEF asked, f, p
  <2>7. /\ KeepsOthers(f.hier, asked, t)
        /\ \A k \in Caches, u \in Tags : Holds(f.hier, k, u) = Holds(asked, k, u)
    <3>1. Sound(asked)
      BY <1>2 DEF KeepsOthers
    <3>2. /\ KeepsOthers(Count(asked, c, names), asked, t)
          /\ \A k \in Caches, u \in Tags : Holds(Count(asked, c, names), k, u) = Holds(asked, k, u)
      BY <3>1, CountSound
    <3> QED BY <2>5, <3>2
  <2>8. f.data = Content(h, t)
    BY <2>3, <2>4, <2>6 DEF FrontData
  <2>9. KeepsOthers(f.hier, h, t)
    BY <1>2, <2>7, StepTrans
  <2>10. \A d \in Cpus, u \in Tags : Holds(f.hier, d, u) = Holds(h, d, u)
    BY <1>1, <1>2, <2>7
  <2> QED BY <1>3, <2>8, <2>9, <2>10 DEF f
<1>6. CASE ValidCopies(h, c, t) = {}
  <2>1. f = LLCRead(asked, t)
    BY <1>6 DEF Fetch
  <2> HIDE DEF asked
  <2>2. BelowStep(f.hier, asked, t) /\ f.data = BelowOf(asked, t)
    BY <1>2, <2>1, LLCReadKeeps, SoundIsFine DEF KeepsOthers
  <2> HIDE DEF f
  <2>3. /\ KeepsOthers(f.hier, asked, t)
        /\ \A d \in Cpus, u \in Tags : Holds(f.hier, d, u) = Holds(asked, d, u)
    BY <1>2, <2>2, BelowSound DEF KeepsOthers
  <2>4. ~Held(asked, t)
    BY <1>1, <1>2, <1>4, <1>6 DEF Held
  <2>5. f.data = Content(h, t)
    BY <1>2, <2>2, <2>4 DEF Content
  <2>6. KeepsOthers(f.hier, h, t)
    BY <1>2, <2>3, StepTrans
  <2>7. \A d \in Cpus, u \in Tags : Holds(f.hier, d, u) = Holds(h, d, u)
    BY <1>1, <1>2, <2>3
  <2> QED BY <1>3, <2>5, <2>6, <2>7 DEF f
<1> QED BY <1>5, <1>6

(* The reply to a write's snoop carries the content of the line.           *)
LEMMA ReplySound ==
  ASSUME NEW h, Sound(h), NEW c \in Cpus, NEW t \in Used, ValidCopies(h, c, t) # {}
  PROVE  InvalidateReply(h, c, t) = Content(h, t)
<1> DEFINE last == Max(ValidCopies(h, c, t))
           row == RowOf(h, last, t)
<1>1. t \in Tags /\ Good(h) /\ Agreed(h)
  BY UsedFacts, SoundIsFine
<1>2. last \in Caches /\ last \in Cpus /\ HitsIn(h, last, t)
  BY <1>1, ValidCopiesFacts DEF ValidCopies, Siblings
<1> HIDE DEF last
<1>3. /\ row \in Row(Assoc(last)) /\ RowOK(row) /\ Assoc(last) \in Nat \ {0}
      /\ Holds(h, last, t) # NoData /\ Hits(row, t)
  BY <1>1, <1>2, HoldsFacts DEF HitsIn
<1>4. row[FindPos(row, t)].data = Holds(h, last, t)
  BY <1>3, FindLineData DEF Holds
<1>5. Holds(h, last, t) = Content(h, t)
  BY <1>1, <1>2, <1>3, CopyIs
<1> QED BY <1>4, <1>5 DEF InvalidateReply, last, row

-----------------------------------------------------------------------------
(* Fills of and stores to the private caches.                              *)

(* A fill after a miss: its victim goes to the last-level cache, and the   *)
(* line has the content that the fill brought.                             *)
LEMMA PrivateFillSound ==
  ASSUME NEW h, Sound(h), NEW c \in Cpus, NEW t \in Used, Holds(h, c, t) = NoData,
         NEW s \in {"M", "S"}, NEW data \in LineData,
         NobodyElseOwns(h, c, t), s = "M" => NobodyElseHas(h, c, t),
         \A d \in Siblings(c) : Holds(h, d, t) # NoData => Holds(h, d, t) = data
  PROVE  /\ KeepsOthers(FillLine(h, c, t, s, data, LLCWrite), h, t)
         /\ Content(FillLine(h, c, t, s, data, LLCWrite), t) = data
         /\ ValidInFront(FillLine(h, c, t, s, data, LLCWrite), c, t)
         /\ RowOf(FillLine(h, c, t, s, data, LLCWrite), c, t)[1].state = s
         /\ \A d \in Cpus, u \in Tags : (d # c \/ ~Evicted(h, c, t, u)) /\ Holds(h, d, u) # NoData
              => Holds(FillLine(h, c, t, s, data, LLCWrite), d, u) # NoData
<1> DEFINE victim == Victim(RowOf(h, c, t), t)
           written == LLCWrite(h, victim.tag, victim.data)
           pushed == Count(written, c, {"numReplacements"})
           start == IF victim.islineInvalid THEN h ELSE pushed
           f == WithRow(start, c, t, Install(RowOf(h, c, t), t, s, data))
<1>1. /\ c \in Caches /\ c # Main /\ c # LLC /\ Main \in Caches /\ LLC \in Caches /\ Cpus \subseteq Caches
      /\ t \in Tags /\ Fine(h) /\ Coherent(h) /\ Good(h) /\ Agreed(h)
  BY CacheFacts, UsedFacts, SoundIsFine
<1>2. FillLine(h, c, t, s, data, LLCWrite) = f
  BY <1>1 DEF FillLine, Evicts
<1>3. \A u : Evicted(h, c, t, u) <=> ~victim.islineInvalid /\ victim.tag = u
  BY DEF Evicted, Drops
<1>4. \A u : Evicted(h, c, t, u) =>
        /\ u \in Used /\ SetOf(u) = SetOf(t) /\ u # t
        /\ victim.data = Holds(h, c, u)
        /\ Holds(h, c, u) \in LineData /\ Holds(h, c, u) # NoData
  BY <1>1, EvictedFacts
<1> HIDE DEF victim
<1>5. ASSUME ~victim.islineInvalid
      PROVE  BelowStep(pushed, h, victim.tag) /\ BelowOf(pushed, victim.tag) = victim.data
  <2>1. BelowStep(written, h, victim.tag) /\ BelowOf(written, victim.tag) = victim.data
    BY <1>1, <1>3, <1>4, <1>5, LLCWriteKeeps
  <2> HIDE DEF written
  <2>2. /\ Fine(pushed) /\ pushed.cache = written.cache
        /\ SameContent(pushed, written)
    BY <1>1, <2>1, CountFine DEF BelowStep
  <2> HIDE DEF pushed
  <2>3. /\ BelowStep(pushed, written, victim.tag)
        /\ \A u \in Tags : BelowOf(pushed, u) = BelowOf(written, u)
    BY <2>2, QuietBelow DEF SamePrivate
  <2>4. victim.tag \in Tags
    BY <1>3, <1>4, <1>5, UsedFacts
  <2> QED BY <2>1, <2>3, <2>4, BelowStepTrans
<1> HIDE DEF pushed
<1>6. /\ Fine(start) /\ SamePrivate(start, h)
      /\ \A u \in Tags : ~Evicted(h, c, t, u) => BelowKept(start, h, u)
      /\ \A u \in Tags : Evicted(h, c, t, u) => BelowOf(start, u) = Holds(h, c, u)
  <2>1. CASE victim.islineInvalid
    BY <1>1, <1>3, <2>1 DEF BelowKept, SamePrivate
  <2>2. CASE ~victim.islineInvalid
    <3>1. start = pushed
      BY <2>2
    <3>2. \A u : Evicted(h, c, t, u) <=> u = victim.tag
      BY <1>3, <2>2
    <3> HIDE DEF start
    <3>3. BelowStep(start, h, victim.tag) /\ BelowOf(start, victim.tag) = victim.data
      BY <1>5, <2>2, <3>1
    <3>4. victim.data = Holds(h, c, victim.tag)
      BY <1>4, <3>2
    <3> QED BY <3>2, <3>3, <3>4 DEF BelowStep
  <2> QED BY <2>1, <2>2
<1> HIDE DEF start
<1>7. start.cache[c] = h.cache[c] /\ \A d \in Cpus : start.cache[d] = h.cache[d]
  BY <1>6 DEF SamePrivate
<1>8. /\ Fine(f)
      /\ \A j \in Caches \ {c} : f.cache[j] = start.cache[j]
      /\ Holds(f, c, t) = data
      /\ \A u \in Tags \ {t} : Holds(f, c, u) =
           IF Evicted(h, c, t, u) THEN NoData ELSE Holds(h, c, u)
  BY <1>1, <1>6, <1>7, InstallFine
<1>9. Coherent(f) /\ RowOf(f, c, t) = Install(RowOf(h, c, t), t, s, data)
  BY <1>1, <1>2, PrivateFillCoherent DEF NobodyElseOwns, NobodyElseHas
<1> HIDE DEF f
<1>10. \A d \in Cpus \ {c}, u \in Tags : Holds(f, d, u) = Holds(h, d, u)
  BY <1>1, <1>7, <1>8 DEF Holds, RowOf
<1>11. \A u \in Tags : BelowOf(f, u) = BelowOf(start, u) /\ (OutOfBelow(f, u) <=> OutOfBelow(start, u))
  BY <1>1, <1>8 DEF BelowOf, MainOf, OutOfBelow, OutOfMain, MainFull, Holds, RowOf
<1>12. Agreed(f)
  <2> SUFFICES ASSUME NEW a \in Cpus, NEW b \in Cpus, NEW u \in Tags,
                      Holds(f, a, u) # NoData, Holds(f, b, u) # NoData
               PROVE  Holds(f, a, u) = Holds(f, b, u)
    BY DEF Agreed
  <2>1. CASE u = t
    BY <1>8, <1>10, <2>1 DEF Siblings
  <2>2. CASE u # t
    BY <1>1, <1>8, <1>10, <2>2 DEF Agreed
  <2> QED BY <2>1, <2>2
<1>13. Content(f, t) = data
  BY <1>1, <1>8, <1>12, NoDataFacts, CopyIs
<1>14. ASSUME NEW u \in Tags \ {t} PROVE Kept(f, h, u)
  <2>1. CASE \E d \in Cpus : Holds(f, d, u) # NoData
    <3>1. PICK d \in Cpus : Holds(f, d, u) # NoData
      BY <2>1
    <3>2. Holds(f, d, u) = Holds(h, d, u)
      BY <1>8, <1>10, <3>1
    <3>3. Content(f, u) = Holds(f, d, u) /\ Content(h, u) = Holds(h, d, u) /\ Held(h, u)
      BY <1>1, <1>12, <3>1, <3>2, CopyIs
    <3> QED BY <3>2, <3>3 DEF Kept, Gone
  <2>2. CASE ~(\E d \in Cpus : Holds(f, d, u) # NoData) /\ Evicted(h, c, t, u)
    <3>1. Content(f, u) = Holds(h, c, u)
      BY <1>6, <1>11, <2>2 DEF Content, Held
    <3>2. Content(h, u) = Holds(h, c, u) /\ Held(h, u)
      BY <1>1, <1>4, <2>2, CopyIs
    <3> QED BY <3>1, <3>2 DEF Kept, Gone
  <2>3. CASE ~(\E d \in Cpus : Holds(f, d, u) # NoData) /\ ~Evicted(h, c, t, u)
    <3>1. \A d \in Cpus : Holds(h, d, u) = NoData
      BY <1>8, <1>10, <2>3
    <3>2. BelowKept(start, h, u)
      BY <1>6, <2>3
    <3> QED BY <1>11, <2>3, <3>1, <3>2 DEF Kept, Gone, Content, Held, BelowKept
  <2> QED BY <2>1, <2>2, <2>3
<1>15. ValidInFront(f, c, t) /\ RowOf(f, c, t)[1].state = s
  <2> DEFINE row == RowOf(h, c, t)
             new == Install(row, t, s, data)
             base == MoveToFront(row, ReplacePos(row, t))
  <2>1. row \in Row(Assoc(c)) /\ RowOK(row) /\ Assoc(c) \in Nat \ {0} /\ ~Has(row, t)
    BY <1>1, HoldsFacts
  <2> HIDE DEF row
  <2>2. base \in Row(Assoc(c)) /\ 1 \in 1 .. Assoc(c)
    BY <2>1, ReplacePosIn, MoveToFrontPermutes
  <2>3. new = [base EXCEPT ![1] = [tag |-> t, state |-> s, islineInvalid |-> FALSE, data |-> data]]
    BY <2>1, MissVictim DEF Install
  <2> HIDE DEF base
  <2>4. new[1].tag = t /\ IsValid(new[1]) /\ new[1].state = s
    BY <2>2, <2>3 DEF Row, IsValid
  <2> QED BY <1>9, <2>4 DEF ValidInFront, row
<1>16. \A d \in Cpus, u \in Tags : (d # c \/ ~Evicted(h, c, t, u)) /\ Holds(h, d, u) # NoData
                => Holds(f, d, u) # NoData
  BY <1>1, <1>8, <1>10
<1> QED BY <1>2, <1>8, <1>9, <1>12, <1>13, <1>14, <1>15, <1>16 DEF KeepsOthers, Sound, Fine

(* A store to a line in front that nobody else has.                        *)
LEMMA PutWordSound ==
  ASSUME NEW h, Sound(h), NEW c \in Cpus, NEW t \in Used, ValidInFront(h, c, t),
         \A d \in Siblings(c) : Holds(h, d, t) = NoData,
         NEW w \in Words, NEW v \in Values
  PROVE  /\ KeepsOthers(PutWord(h, c, t, w, v), h, t)
         /\ Content(PutWord(h, c, t, w, v), t) = [Content(h, t) EXCEPT ![w] = v]
         /\ \A d \in Cpus, u \in Tags : Holds(PutWord(h, c, t, w, v), d, u) = NoData
                                            <=> Holds(h, d, u) = NoData
         /\ ValidInFront(PutWord(h, c, t, w, v), c, t)
         /\ RowOf(PutWord(h, c, t, w, v), c, t)[1].state = RowOf(h, c, t)[1].state
<1> DEFINE data == [RowOf(h, c, t)[1].data EXCEPT ![w] = v]
           f == WithRow(h, c, t, SetData(RowOf(h, c, t), data))
<1>1. /\ c \in Caches /\ Main \in Caches /\ LLC \in Caches /\ c # Main /\ c # LLC /\ Cpus \subseteq Caches
      /\ t \in Tags /\ Fine(h) /\ Coherent(h) /\ Good(h) /\ HierType(h) /\ Agreed(h)
  BY CacheFacts, UsedFacts, SoundIsFine DEF Good
<1>2. RowOf(h, c, t)[1].data = Holds(h, c, t) /\ Holds(h, c, t) # NoData
  BY <1>1, HoldsFacts, FrontIs, DataType DEF ValidInFront, Holds
<1>3. Content(h, t) = Holds(h, c, t) /\ Held(h, t)
  BY <1>1, <1>2, CopyIs
<1>4. data \in LineData /\ data = [Content(h, t) EXCEPT ![w] = v]
  BY <1>1, <1>2, <1>3, FrontDataType, WordType DEF FrontData
<1>5. PutWord(h, c, t, w, v) = f /\ Coherent(f)
  BY <1>1, PutWordCoherent DEF PutWord, ValidInFront
<1>14. ValidInFront(f, c, t) /\ RowOf(f, c, t)[1].state = RowOf(h, c, t)[1].state
  <2> DEFINE row == RowOf(h, c, t)
  <2>1. row \in Row(Assoc(c)) /\ Assoc(c) \in Nat \ {0} /\ HierType(h)
    BY <1>1, HoldsFacts
  <2>2. SetData(row, data) \in Row(Assoc(c))
    BY <1>4, <2>1, FrontUpdateType
  <2>3. RowOf(f, c, t) = SetData(row, data)
    <3> HIDE DEF data
    <3> QED BY <1>1, <2>1, <2>2, WithRowType
  <2> HIDE DEF row, data
  <2>4. row[1] \in Line /\ 1 \in DOMAIN row
    BY <2>1 DEF Row
  <2>5. SetData(row, data)[1].tag = row[1].tag /\ SetData(row, data)[1].state = row[1].state
    BY <2>4 DEF SetData, Line
  <2> QED BY <2>3, <2>5 DEF ValidInFront, IsValid, row
<1> HIDE DEF data
<1>6. /\ Fine(f)
      /\ \A j \in Caches \ {c} : f.cache[j] = h.cache[j]
      /\ Holds(f, c, t) = data
      /\ \A u \in Tags \ {t} : Holds(f, c, u) = Holds(h, c, u)
  <2>1. data \in LineData /\ Fine(h) /\ c \in Caches
    BY <1>1, <1>4
  <2> QED BY <2>1, PutDataFine
<1> HIDE DEF f
<1>7. \A d \in Caches \ {c}, u \in Tags : Holds(f, d, u) = Holds(h, d, u) /\ RowOf(f, d, u) = RowOf(h, d, u)
  BY <1>6 DEF Holds, RowOf
<1>8. \A u \in Tags : BelowOf(f, u) = BelowOf(h, u) /\ (OutOfBelow(f, u) <=> OutOfBelow(h, u))
  BY <1>1, <1>7 DEF BelowOf, MainOf, OutOfBelow, OutOfMain, MainFull
<1>9. \A d \in Cpus, u \in Tags \ {t} : Holds(f, d, u) = Holds(h, d, u)
  BY <1>1, <1>6, <1>7
<1>10. \A d \in Cpus \ {c} : Holds(f, d, t) = NoData
  BY <1>1, <1>7 DEF Siblings
<1>11. Agreed(f)
  BY <1>1, <1>9, <1>10 DEF Agreed
<1>12. Content(f, t) = data
  BY <1>1, <1>4, <1>6, <1>11, NoDataFacts, CopyIs
<1>13. ASSUME NEW u \in Tags \ {t} PROVE Kept(f, h, u)
  <2>1. CASE Held(h, u)
    <3>1. PICK d \in Cpus : Holds(h, d, u) # NoData
      BY <2>1 DEF Held
    <3>2. Content(f, u) = Holds(f, d, u) /\ Content(h, u) = Holds(h, d, u)
      BY <1>1, <1>9, <1>11, <3>1, CopyIs
    <3> QED BY <1>9, <2>1, <3>2 DEF Kept, Gone
  <2>2. CASE ~Held(h, u)
    BY <1>8, <1>9, <2>2 DEF Kept, Gone, Content, Held
  <2> QED BY <2>1, <2>2
<1>15. \A d \in Cpus, u \in Tags : Holds(f, d, u) = NoData <=> Holds(h, d, u) = NoData
  <2>1. data # NoData
    BY <1>4, NoDataFacts
  <2> QED BY <1>2, <1>6, <1>9, <1>10, <2>1 DEF Siblings
<1> QED BY <1>4, <1>5, <1>6, <1>11, <1>12, <1>13, <1>14, <1>15 DEF KeepsOthers, Sound, Fine

-----------------------------------------------------------------------------
(* The accesses.                                                           *)

LEMMA ReadHitSound ==
  ASSUME NEW h, Sound(h), NEW c \in Cpus, NEW t \in Used
  PROVE  /\ KeepsOthers(ReadHitOf(h, c, t), h, t)
         /\ Content(ReadHitOf(h, c, t), t) = Content(h, t)
         /\ \A d \in Cpus, u \in Tags : ~Loses(ReadHitOf(h, c, t), h, d, u)
BY LookSound, UsedFacts, CacheFacts DEF ReadHitOf, Loses

(* A read miss.                                                            *)
LEMMA ReadMissSound ==
  ASSUME NEW h, Sound(h), NEW c \in Cpus, NEW t \in Used, ~HitsIn(h, c, t), NEW w
  PROVE  /\ KeepsOthers(ReadMissOf(h, c, t, w), h, t)
         /\ Content(ReadMissOf(h, c, t, w), t) = Content(h, t)
         /\ ValidInFront(ReadMissOf(h, c, t, w), c, t)
         /\ \A d \in Cpus, u \in Tags : Loses(ReadMissOf(h, c, t, w), h, d, u)
              => d = c /\ ThrowsOut(h, c, t, u)
<1> DEFINE missed == ReadMissed(h, c, t)
           fetched == Fetch(missed, c, t)
           found == Found(RowOf(h, c, t), t)
           stale == FrontData(missed, c, t)
           judged == Judge(found, stale, fetched, c, w)
<1>1. c \in Caches /\ t \in Tags /\ Cpus \subseteq Caches /\ Siblings(c) \subseteq Cpus
  BY CacheFacts, UsedFacts DEF Siblings
<1>2. /\ KeepsOthers(missed, h, t) /\ Content(missed, t) = Content(h, t)
      /\ \A d \in Cpus, u \in Tags : Holds(missed, d, u) = Holds(h, d, u)
      /\ missed.cache = Look(h, c, t).cache
  BY <1>1, LookSound DEF ReadMissed
<1>3. Holds(h, c, t) = NoData
  BY <1>1, HoldsFacts, SoundIsFine
<1>4. ReadMissOf(h, c, t, w) = FillLine(judged, c, t, "S", fetched.data, LLCWrite)
  BY DEF ReadMissOf
<1>4a. RowOf(missed, c, t) = FindLine(RowOf(h, c, t), t)
  <2>1. RowOf(missed, c, t) = RowOf(Look(h, c, t), c, t)
    BY <1>2 DEF RowOf
  <2> QED BY <1>1, <2>1, LookFine, SoundIsFine
<1> HIDE DEF missed, found, stale
<1>5. /\ KeepsOthers(fetched.hier, missed, t) /\ fetched.data = Content(missed, t)
      /\ fetched.data \in LineData
      /\ \A d \in Cpus, u \in Tags : Holds(fetched.hier, d, u) = Holds(missed, d, u)
  BY <1>1, <1>2, <1>3, FetchSound DEF KeepsOthers
<1>6. \A d \in Siblings(c) : ~Owns(fetched.hier.cache[d][SetOf(t)], t)
  BY <1>1, <1>2, FetchCoherent, SoundIsFine DEF KeepsOthers
<1>6a. RowOf(fetched.hier, c, t) = RowOf(missed, c, t)
  BY <1>1, <1>2, FetchOwnRow, SoundIsFine DEF KeepsOthers
<1> HIDE DEF fetched
<1>7. /\ KeepsOthers(judged, fetched.hier, t) /\ judged.cache = fetched.hier.cache
      /\ \A d \in Cpus, u \in Tags : Holds(judged, d, u) = Holds(fetched.hier, d, u)
  <2>0. Sound(fetched.hier)
    BY <1>5 DEF KeepsOthers
  <2>1. CASE found
    <3>1. PICK names : judged = Count(fetched.hier, c, names)
      BY <2>1 DEF Judge
    <3> HIDE DEF judged
    <3>2. /\ KeepsOthers(Count(fetched.hier, c, names), fetched.hier, t)
          /\ Count(fetched.hier, c, names).cache = fetched.hier.cache
          /\ \A k \in Caches, u \in Tags :
               Holds(Count(fetched.hier, c, names), k, u) = Holds(fetched.hier, k, u)
      BY <2>0, CountSound
    <3> QED BY <1>1, <3>1, <3>2
  <2>2. CASE ~found
    <3>1. judged = fetched.hier
      BY <2>2 DEF Judge
    <3> HIDE DEF judged
    <3>2. \A u \in Tags \ {t} : Kept(fetched.hier, fetched.hier, u)
      BY DEF Kept
    <3> QED BY <2>0, <3>1, <3>2 DEF KeepsOthers
  <2> QED BY <2>1, <2>2
<1>8. NobodyElseOwns(judged, c, t)
  BY <1>6, <1>7 DEF NobodyElseOwns
<1> HIDE DEF judged
<1>9. \A d \in Siblings(c) : Holds(judged, d, t) # NoData => Holds(judged, d, t) = fetched.data
  <2>1. Agreed(missed)
    BY <1>2 DEF KeepsOthers, Sound
  <2> QED BY <1>1, <1>5, <1>7, <2>1, CopyIs
<1>10. Sound(judged) /\ Holds(judged, c, t) = NoData
  BY <1>1, <1>2, <1>3, <1>5, <1>7 DEF KeepsOthers
<1>11. /\ KeepsOthers(FillLine(judged, c, t, "S", fetched.data, LLCWrite), judged, t)
       /\ Content(FillLine(judged, c, t, "S", fetched.data, LLCWrite), t) = fetched.data
       /\ ValidInFront(FillLine(judged, c, t, "S", fetched.data, LLCWrite), c, t)
       /\ \A d \in Cpus, u \in Tags : Loses(FillLine(judged, c, t, "S", fetched.data, LLCWrite), judged, d, u)
            => d = c /\ Evicted(judged, c, t, u)
  BY <1>5, <1>8, <1>9, <1>10, PrivateFillSound DEF Loses
<1>12. KeepsOthers(FillLine(judged, c, t, "S", fetched.data, LLCWrite), h, t)
  BY <1>2, <1>5, <1>7, <1>11, StepTrans
<1>13. ASSUME NEW d \in Cpus, NEW u \in Tags, Loses(ReadMissOf(h, c, t, w), h, d, u)
       PROVE  d = c /\ ThrowsOut(h, c, t, u)
  <2>1. Loses(ReadMissOf(h, c, t, w), judged, d, u)
    BY <1>2, <1>5, <1>7, <1>13 DEF Loses
  <2>2. d = c /\ Evicted(judged, c, t, u)
    BY <1>4, <1>11, <2>1
  <2>3. RowOf(judged, c, t) = FindLine(RowOf(h, c, t), t)
    BY <1>4a, <1>6a, <1>7 DEF RowOf
  <2> QED BY <2>2, <2>3 DEF Evicted, ThrowsOut
<1> QED BY <1>2, <1>4, <1>5, <1>11, <1>12, <1>13

(* A write miss.                                                           *)
LEMMA WriteMissSound ==
  ASSUME NEW h, Sound(h), NEW c \in Cpus, NEW t \in Used, ~HitsIn(h, c, t),
         NEW w \in Words, NEW v \in Values
  PROVE  /\ KeepsOthers(WriteMissOf(h, c, t, w, v), h, t)
         /\ Content(WriteMissOf(h, c, t, w, v), t) = [Content(h, t) EXCEPT ![w] = v]
         /\ OwnsFront(WriteMissOf(h, c, t, w, v), c, t)
         /\ \A d \in Cpus, u \in Tags : Loses(WriteMissOf(h, c, t, w, v), h, d, u)
              => (d # c /\ u = t) \/ (d = c /\ ThrowsOut(h, c, t, u))
<1> DEFINE missed == WriteMissed(h, c, t)
           alone == WriteRemoteAction(missed, c, t)
           got == IF ValidCopies(missed, c, t) = {}
                  THEN LLCRead(alone, t)
                  ELSE [hier |-> alone, data |-> InvalidateReply(missed, c, t)]
           data == [got.data EXCEPT ![w] = v]
<1>1. /\ c \in Caches /\ t \in Tags /\ Cpus \subseteq Caches /\ Siblings(c) \subseteq Cpus
      /\ SetOf(t) \in Sets
  BY CacheFacts, UsedFacts DEF Siblings
<1>2. /\ KeepsOthers(missed, h, t) /\ Content(missed, t) = Content(h, t)
      /\ \A d \in Cpus, u \in Tags : Holds(missed, d, u) = Holds(h, d, u)
      /\ missed.cache = Look(h, c, t).cache
  BY <1>1, LookSound DEF WriteMissed
<1>3. Holds(h, c, t) = NoData
  BY <1>1, HoldsFacts, SoundIsFine
<1>3a. RowOf(missed, c, t) = FindLine(RowOf(h, c, t), t)
  <2>1. RowOf(missed, c, t) = RowOf(Look(h, c, t), c, t)
    BY <1>2 DEF RowOf
  <2> QED BY <1>1, <2>1, LookFine, SoundIsFine
<1>4. WriteMissOf(h, c, t, w, v) = FillLine(got.hier, c, t, "M", data, LLCWrite)
  BY DEF WriteMissOf
<1>5. Sound(missed) /\ Coherent(missed) /\ Good(missed) /\ Agreed(missed)
  BY <1>2, SoundIsFine DEF KeepsOthers
<1> HIDE DEF missed
<1>6. /\ KeepsOthers(alone, missed, t) /\ BelowOf(alone, t) = BelowOf(missed, t)
      /\ \A d \in Siblings(c) : Holds(alone, d, t) = NoData
      /\ Holds(alone, c, t) = Holds(missed, c, t)
      /\ \A u \in Tags : Holds(alone, c, u) = Holds(missed, c, u)
      /\ \A d \in Cpus, u \in Tags \ {t} : Holds(alone, d, u) = Holds(missed, d, u)
      /\ RowOf(alone, c, t) = RowOf(missed, c, t)
  BY <1>1, <1>5, WriteRemoteSound
<1>7. NobodyElseHas(alone, c, t)
  BY <1>1, <1>5, WriteSnoopCoherent
<1>8. Sound(alone) /\ Fine(alone) /\ Coherent(alone)
  BY <1>6, SoundIsFine DEF KeepsOthers
<1> HIDE DEF alone
<1>9. /\ Sound(got.hier) /\ \A u \in Tags \ {t} : Kept(got.hier, alone, u)
      /\ got.data = Content(missed, t)
      /\ NobodyElseHas(got.hier, c, t)
      /\ \A d \in Cpus, u \in Tags : Holds(got.hier, d, u) = Holds(alone, d, u)
      /\ RowOf(got.hier, c, t) = RowOf(alone, c, t)
  <2>1. CASE ValidCopies(missed, c, t) = {}
    <3>1. got = LLCRead(alone, t)
      BY <2>1
    <3> HIDE DEF got
    <3>2. BelowStep(got.hier, alone, t) /\ got.data = BelowOf(alone, t)
      BY <1>8, <3>1, LLCReadKeeps
    <3>3. /\ KeepsOthers(got.hier, alone, t)
          /\ \A d \in Cpus, u \in Tags : Holds(got.hier, d, u) = Holds(alone, d, u)
      BY <1>8, <3>2, BelowSound
    <3>4. ~Held(missed, t)
      <4>1. \A d \in Cpus : d # c => ~HitsIn(missed, d, t)
        BY <2>1 DEF ValidCopies, Siblings
      <4> QED BY <1>1, <1>2, <1>3, <1>5, <4>1, HoldsFacts DEF Held
    <3>5. got.data = Content(missed, t)
      BY <1>6, <3>2, <3>4 DEF Content
    <3>6. NobodyElseHas(got.hier, c, t)
      <4>1. Under(got.hier, alone)
        BY <3>2 DEF BelowStep, Fine, Under
      <4> QED BY <1>1, <1>7, <1>8, <4>1, UnderCoherent
    <3>7. RowOf(got.hier, c, t) = RowOf(alone, c, t)
      BY <3>2 DEF BelowStep, SamePrivate, RowOf
    <3> QED BY <1>1, <3>3, <3>5, <3>6, <3>7 DEF KeepsOthers
  <2>2. CASE ValidCopies(missed, c, t) # {}
    <3>1. got.hier = alone /\ got.data = InvalidateReply(missed, c, t)
      BY <2>2
    <3> HIDE DEF got
    <3>2. got.data = Content(missed, t)
      BY <1>5, <2>2, <3>1, ReplySound
    <3>3. \A u \in Tags \ {t} : Kept(got.hier, alone, u)
      BY <3>1 DEF Kept
    <3> QED BY <1>7, <1>8, <3>1, <3>2, <3>3
  <2> QED BY <2>1, <2>2
<1>10. KeepsOthers(got.hier, alone, t)
  BY <1>9 DEF KeepsOthers
<1> HIDE DEF got
<1>11. data \in LineData /\ data = [Content(h, t) EXCEPT ![w] = v]
  <2>1. got.data \in LineData
    BY <1>1, <1>5, <1>9, ContentType
  <2> QED BY <1>2, <1>9, <2>1, WordType
<1>12. NobodyElseOwns(got.hier, c, t)
  BY <1>9, HasNotOwnsNot
<1>13. Holds(got.hier, c, t) = NoData /\ \A d \in Siblings(c) : Holds(got.hier, d, t) = NoData
  BY <1>1, <1>2, <1>3, <1>6, <1>9
<1> HIDE DEF data
<1>14. /\ KeepsOthers(FillLine(got.hier, c, t, "M", data, LLCWrite), got.hier, t)
       /\ Content(FillLine(got.hier, c, t, "M", data, LLCWrite), t) = data
       /\ OwnsFront(FillLine(got.hier, c, t, "M", data, LLCWrite), c, t)
       /\ \A d \in Cpus, u \in Tags : Loses(FillLine(got.hier, c, t, "M", data, LLCWrite), got.hier, d, u)
            => d = c /\ Evicted(got.hier, c, t, u)
  <2> DEFINE f == FillLine(got.hier, c, t, "M", data, LLCWrite)
  <2>1. /\ KeepsOthers(f, got.hier, t) /\ Content(f, t) = data
        /\ ValidInFront(f, c, t) /\ RowOf(f, c, t)[1].state = "M"
        /\ \A d \in Cpus, u \in Tags : (d # c \/ ~Evicted(got.hier, c, t, u)) /\ Holds(got.hier, d, u) # NoData
             => Holds(f, d, u) # NoData
    <3> DEFINE g == got.hier
    <3>1. /\ Sound(g) /\ Holds(g, c, t) = NoData /\ NobodyElseOwns(g, c, t) /\ NobodyElseHas(g, c, t)
          /\ \A d \in Siblings(c) : Holds(g, d, t) = NoData
      BY <1>9, <1>12, <1>13
    <3> HIDE DEF g
    <3>2. \A d \in Siblings(c) : Holds(g, d, t) # NoData => Holds(g, d, t) = data
      BY <3>1
    <3>3. /\ KeepsOthers(FillLine(g, c, t, "M", data, LLCWrite), g, t)
          /\ Content(FillLine(g, c, t, "M", data, LLCWrite), t) = data
          /\ ValidInFront(FillLine(g, c, t, "M", data, LLCWrite), c, t)
      BY <1>11, <3>1, <3>2, PrivateFillSound
    <3>4. RowOf(FillLine(g, c, t, "M", data, LLCWrite), c, t)[1].state = "M"
      BY <1>11, <3>1, <3>2, PrivateFillSound
    <3>5. \A d \in Cpus, u \in Tags : (d # c \/ ~Evicted(g, c, t, u)) /\ Holds(g, d, u) # NoData
            => Holds(FillLine(g, c, t, "M", data, LLCWrite), d, u) # NoData
      BY <1>11, <3>1, <3>2, PrivateFillSound
    <3> QED BY <3>3, <3>4, <3>5 DEF g
  <2> HIDE DEF f
  <2> QED BY <2>1 DEF Loses, OwnsFront, f
<1>15. KeepsOthers(FillLine(got.hier, c, t, "M", data, LLCWrite), h, t)
  BY <1>2, <1>6, <1>10, <1>14, StepTrans
<1>16. ASSUME NEW d \in Cpus, NEW u \in Tags, Loses(WriteMissOf(h, c, t, w, v), h, d, u)
       PROVE  (d # c /\ u = t) \/ (d = c /\ ThrowsOut(h, c, t, u))
  <2> SUFFICES ASSUME d = c \/ u # t PROVE d = c /\ ThrowsOut(h, c, t, u)
    OBVIOUS
  <2>1. Holds(got.hier, d, u) = Holds(h, d, u)
    BY <1>2, <1>6, <1>9
  <2>2. Loses(WriteMissOf(h, c, t, w, v), got.hier, d, u)
    BY <1>16, <2>1 DEF Loses
  <2>3. d = c /\ Evicted(got.hier, c, t, u)
    BY <1>4, <1>14, <2>2
  <2>4. RowOf(got.hier, c, t) = FindLine(RowOf(h, c, t), t)
    BY <1>3a, <1>6, <1>9
  <2> QED BY <2>3, <2>4 DEF Evicted, ThrowsOut
<1> QED BY <1>4, <1>11, <1>14, <1>15, <1>16

(* The relabelling of an upgrade.                                          *)
LEMMA OwnSound ==
  ASSUME NEW h, Sound(h), NEW c \in Cpus, NEW t \in Used, ValidInFront(h, c, t),
         NobodyElseHas(h, c, t)
  PROVE  LET g == WithRow(h, c, t, SetState(RowOf(h, c, t), "M"))
         IN  /\ KeepsOthers(g, h, t) /\ Content(g, t) = Content(h, t)
             /\ OwnsFront(g, c, t)
             /\ \A d \in Cpus, u \in Tags : Holds(g, d, u) = Holds(h, d, u)
<1> DEFINE row == RowOf(h, c, t)
           new == SetState(row, "M")
           g == WithRow(h, c, t, new)
<1>1. /\ c \in Caches /\ Main \in Caches /\ c # Main /\ Cpus \subseteq Caches
      /\ t \in Tags /\ SetOf(t) \in Sets
      /\ Fine(h) /\ Good(h) /\ Coherent(h) /\ Agreed(h)
  BY CacheFacts, UsedFacts, SoundIsFine
<1>2. /\ row \in Row(Assoc(c)) /\ RowOK(row) /\ Assoc(c) \in Nat \ {0}
      /\ row[1].tag = t /\ IsValid(row[1])
  BY <1>1, HoldsFacts DEF ValidInFront
<1>3. Coherent(g)
  BY <1>1, OwnCoherent DEF ValidInFront, NobodyElseHas
<1>4. \A u \in Tags : SetOf(u) = SetOf(t) => RowOf(h, c, u) = row
  BY DEF RowOf
<1>5. RowOf(h, c, t) = row
  OBVIOUS
<1> HIDE DEF row
<1>6. new \in Row(Assoc(c))
  BY <1>2, FrontUpdateType DEF States
<1>7. /\ RowOK(new) /\ \A u : Has(new, u) <=> Has(row, u)
  BY <1>2, SetStateOK
<1>8. \A u : DataIn(new, u) = DataIn(row, u)
  BY <1>2, SetStateData
<1>9. new[1].tag = t /\ IsValid(new[1]) /\ new[1].state = "M"
  <2>1. row[1] \in Line /\ 1 \in DOMAIN row
    BY <1>2 DEF Row
  <2> QED BY <1>2, <2>1 DEF SetState, IsValid, Line
<1> HIDE DEF new
<1>10. /\ Fine(g)
       /\ \A j \in Caches, u \in Tags :
            RowOf(g, j, u) = IF j = c /\ SetOf(u) = SetOf(t) THEN new ELSE RowOf(h, j, u)
  BY <1>1, <1>5, <1>6, <1>7, WithRowFine
<1> HIDE DEF g
<1>11. \A k \in Caches, u \in Tags : Holds(g, k, u) = Holds(h, k, u)
  BY <1>4, <1>8, <1>10 DEF Holds
<1>12. SameContent(g, h)
  BY <1>1, <1>10, <1>11 DEF SameContent, MainFull
<1>13. KeepsOthers(g, h, t) /\ Content(g, t) = Content(h, t)
  BY <1>1, <1>3, <1>10, <1>12, QuietSound DEF Fine
<1>14. OwnsFront(g, c, t)
  BY <1>1, <1>9, <1>10 DEF ValidInFront, OwnsFront
<1> QED BY <1>1, <1>11, <1>13, <1>14 DEF g, new, row

(* The snoop of an upgrade leaves the line in front, and nobody else's.    *)
LEMMA UpgradeSnoopSound ==
  ASSUME NEW h, Sound(h), NEW c \in Cpus, NEW t \in Used, ValidInFront(h, c, t),
         NEW w \in Words, NEW v \in Values
  PROVE  LET g == UpgradeSnooped(h, c, t, w, v)
         IN  /\ KeepsOthers(g, h, t) /\ Content(g, t) = Content(h, t)
             /\ \A d \in Siblings(c) : Holds(g, d, t) = NoData
             /\ \A d \in Cpus, u \in Tags : Loses(g, h, d, u) => d # c /\ u = t
<1> DEFINE remote == WriteRemoteAction(h, c, t)
           names == {"numWriteMisses", "numWriteOnSharedMisses", "numInvalidatesSent"}
                      \cup Silent(h, c, t, w, v)
           g == Count(remote, c, names)
<1>1. c \in Caches /\ t \in Tags /\ Cpus \subseteq Caches /\ Siblings(c) \subseteq Cpus
      /\ Good(h) /\ Agreed(h)
  BY CacheFacts, UsedFacts, SoundIsFine DEF Siblings
<1>2. /\ KeepsOthers(remote, h, t)
      /\ \A d \in Siblings(c) : Holds(remote, d, t) = NoData
      /\ Holds(remote, c, t) = Holds(h, c, t)
      /\ \A u \in Tags : Holds(remote, c, u) = Holds(h, c, u)
      /\ \A d \in Cpus, u \in Tags \ {t} : Holds(remote, d, u) = Holds(h, d, u)
  BY <1>1, WriteRemoteSound
<1> HIDE DEF remote, names
<1>3. /\ KeepsOthers(g, remote, t)
      /\ \A k \in Caches, u \in Tags : Holds(g, k, u) = Holds(remote, k, u)
      /\ Content(g, t) = Content(remote, t)
  <2>1. Sound(remote)
    BY <1>2 DEF KeepsOthers
  <2>2. /\ KeepsOthers(g, remote, t)
        /\ \A u \in Tags : Content(g, u) = Content(remote, u)
        /\ \A k \in Caches, u \in Tags : Holds(g, k, u) = Holds(remote, k, u)
    BY <2>1, CountSound
  <2> HIDE DEF g
  <2> QED BY <1>1, <2>2
<1> HIDE DEF g
<1>4. KeepsOthers(g, h, t)
  BY <1>2, <1>3, StepTrans
<1>5. Holds(h, c, t) # NoData
  BY <1>1, HoldsFacts, FrontIs, DataType DEF ValidInFront, Holds
<1>6. Agreed(remote)
  BY <1>2 DEF KeepsOthers, Sound
<1>7. Content(remote, t) = Content(h, t)
  BY <1>1, <1>2, <1>5, <1>6, CopyIs
<1>8. \A d \in Siblings(c) : Holds(g, d, t) = NoData
  BY <1>1, <1>2, <1>3
<1>9. \A d \in Cpus, u \in Tags : Loses(g, h, d, u) => d # c /\ u = t
  BY <1>1, <1>2, <1>3 DEF Loses
<1> QED BY <1>3, <1>4, <1>7, <1>8, <1>9 DEF UpgradeSnooped, g, remote, names

(* An upgrade.                                                             *)
LEMMA WriteUpgradeSound ==
  ASSUME NEW h, Sound(h), NEW c \in Cpus, NEW t \in Used, HitsIn(h, c, t),
         NEW w \in Words, NEW v \in Values
  PROVE  /\ KeepsOthers(WriteUpgradeOf(h, c, t, w, v), h, t)
         /\ Content(WriteUpgradeOf(h, c, t, w, v), t) = [Content(h, t) EXCEPT ![w] = v]
         /\ OwnsFront(WriteUpgradeOf(h, c, t, w, v), c, t)
         /\ \A d \in Cpus, u \in Tags : Loses(WriteUpgradeOf(h, c, t, w, v), h, d, u) => d # c /\ u = t
<1> DEFINE looked == Look(h, c, t)
           alone == UpgradeSnooped(looked, c, t, w, v)
           owned == WithRow(alone, c, t, SetState(RowOf(alone, c, t), "M"))
<1>1. c \in Caches /\ t \in Tags /\ Coherent(h) /\ Agreed(h) /\ Siblings(c) \subseteq Cpus
  BY CacheFacts, UsedFacts, SoundIsFine DEF Siblings
<1>2. /\ KeepsOthers(looked, h, t) /\ Content(looked, t) = Content(h, t) /\ ValidInFront(looked, c, t)
      /\ \A k \in Caches, u \in Tags : Holds(looked, k, u) = Holds(h, k, u)
  <2>1. Coherent(looked) /\ ValidInFront(looked, c, t)
    BY <1>1, WriteUpgradeCoherent
  <2>2. Fine(looked) /\ SameContent(looked, h)
    BY <1>1, LookFine, SoundIsFine
  <2> HIDE DEF looked
  <2> QED BY <1>1, <2>1, <2>2, QuietSound DEF Fine
<1> HIDE DEF looked
<1>3. Sound(looked) /\ Coherent(looked)
  BY <1>2, SoundIsFine DEF KeepsOthers
<1>4. /\ KeepsOthers(alone, looked, t) /\ Content(alone, t) = Content(looked, t)
      /\ \A d \in Siblings(c) : Holds(alone, d, t) = NoData
      /\ \A d \in Cpus, u \in Tags : Loses(alone, looked, d, u) => d # c /\ u = t
  BY <1>2, <1>3, UpgradeSnoopSound
<1>5. ValidInFront(alone, c, t) /\ NobodyElseHas(alone, c, t)
  BY <1>1, <1>2, <1>3, UpgradeSnoopCoherent
<1> HIDE DEF alone
<1>6. /\ KeepsOthers(owned, alone, t) /\ Content(owned, t) = Content(alone, t)
      /\ OwnsFront(owned, c, t)
      /\ \A d \in Cpus, u \in Tags : Holds(owned, d, u) = Holds(alone, d, u)
  BY <1>4, <1>5, OwnSound DEF KeepsOthers
<1> HIDE DEF owned
<1>7. /\ KeepsOthers(PutWord(owned, c, t, w, v), owned, t)
      /\ Content(PutWord(owned, c, t, w, v), t) = [Content(owned, t) EXCEPT ![w] = v]
      /\ OwnsFront(PutWord(owned, c, t, w, v), c, t)
      /\ \A d \in Cpus, u \in Tags : Holds(PutWord(owned, c, t, w, v), d, u) = NoData
                                      <=> Holds(owned, d, u) = NoData
  BY <1>1, <1>4, <1>6, PutWordSound DEF KeepsOthers, OwnsFront
<1>8. WriteUpgradeOf(h, c, t, w, v) = PutWord(owned, c, t, w, v)
  BY DEF WriteUpgradeOf, PutOwned, owned, alone, looked
<1>9. \A d \in Cpus, u \in Tags : Loses(WriteUpgradeOf(h, c, t, w, v), h, d, u) => d # c /\ u = t
  BY <1>1, <1>2, <1>4, <1>6, <1>7, <1>8, CacheFacts DEF Loses
<1> QED BY <1>2, <1>4, <1>6, <1>7, <1>8, <1>9, StepTrans

(* Who hits a line that is not shared owns it, so nobody else has it.      *)
LEMMA NotSharedIsAlone ==
  ASSUME NEW h, Sound(h), NEW c \in Cpus, NEW t \in Used, HitsIn(h, c, t), StateOf(h, c, t) # "S"
  PROVE  \A d \in Siblings(c) : Holds(h, d, t) = NoData
<1> DEFINE row == RowOf(h, c, t)
<1>1. /\ c \in Caches /\ t \in Tags /\ SetOf(t) \in Sets
      /\ Coherent(h) /\ Good(h) /\ Exclusive(h)
  BY CacheFacts, UsedFacts, SoundIsFine DEF Coherent
<1>2. /\ row \in Row(Assoc(c)) /\ RowOK(row) /\ Assoc(c) \in Nat \ {0}
      /\ Found(row, t) /\ IsValid(row[FindPos(row, t)]) /\ row[FindPos(row, t)].state # "S"
      /\ row = h.cache[c][SetOf(t)]
  BY <1>1, HoldsFacts DEF HitsIn, Hits, StateOf, RowOf
<1> HIDE DEF row
<1>3. FindPos(row, t) \in 1 .. Assoc(c) /\ row[FindPos(row, t)].tag = t
  BY <1>2, FindPosIn
<1>4. DOMAIN row = 1 .. Assoc(c) /\ row[FindPos(row, t)] \in Line
  BY <1>2, <1>3 DEF Row
<1>5. row[FindPos(row, t)].state = "M"
  BY <1>2, <1>4 DEF Line, States, IsValid
<1>6. Owns(row, t)
  BY <1>3, <1>4, <1>5 DEF Owns
<1>7. ASSUME NEW d \in Siblings(c) PROVE Holds(h, d, t) = NoData
  <2>1. d \in Cpus /\ d # c /\ d \in Caches
    BY CacheFacts DEF Siblings
  <2>2. ~Has(h.cache[d][SetOf(t)], t)
    BY <1>1, <1>2, <1>6, <2>1 DEF Exclusive
  <2> QED BY <2>2 DEF Holds, DataIn, RowOf
<1> QED BY <1>7

(* A write hit.                                                            *)
LEMMA WriteHitSound ==
  ASSUME NEW h, Sound(h), NEW c \in Cpus, NEW t \in Used, HitsIn(h, c, t),
         StateOf(h, c, t) # "S", NEW w \in Words, NEW v \in Values
  PROVE  /\ KeepsOthers(WriteHitOf(h, c, t, w, v), h, t)
         /\ Content(WriteHitOf(h, c, t, w, v), t) = [Content(h, t) EXCEPT ![w] = v]
         /\ \A d \in Cpus, u \in Tags : ~Loses(WriteHitOf(h, c, t, w, v), h, d, u)
<1> DEFINE looked == Look(h, c, t)
           names == {"numWriteHits"} \cup Silent(looked, c, t, w, v)
           counted == Count(looked, c, names)
<1>1. c \in Caches /\ t \in Tags /\ Siblings(c) \subseteq Caches
  BY CacheFacts, UsedFacts DEF Siblings
<1> HIDE DEF names
<1>2. /\ KeepsOthers(counted, h, t) /\ Content(counted, t) = Content(h, t)
      /\ \A k \in Caches, u \in Tags : Holds(counted, k, u) = Holds(h, k, u)
      /\ ValidInFront(counted, c, t)
  BY <1>1, LookSound
<1>3. \A d \in Siblings(c) : Holds(counted, d, t) = NoData
  BY <1>1, <1>2, NotSharedIsAlone
<1> HIDE DEF counted
<1>4. /\ KeepsOthers(PutWord(counted, c, t, w, v), counted, t)
      /\ Content(PutWord(counted, c, t, w, v), t) = [Content(counted, t) EXCEPT ![w] = v]
      /\ \A d \in Cpus, u \in Tags : Holds(PutWord(counted, c, t, w, v), d, u) = NoData
                                      <=> Holds(counted, d, u) = NoData
  BY <1>2, <1>3, PutWordSound DEF KeepsOthers
<1>5. WriteHitOf(h, c, t, w, v) = PutWord(counted, c, t, w, v)
  BY DEF WriteHitOf, counted, names, looked
<1>6. \A d \in Cpus, u \in Tags : ~Loses(WriteHitOf(h, c, t, w, v), h, d, u)
  BY <1>2, <1>4, <1>5, CacheFacts DEF Loses
<1> QED BY <1>2, <1>4, <1>5, <1>6, StepTrans

-----------------------------------------------------------------------------
(* The invariant, and what an access does to the content of memory.        *)

(* The cold hierarchy holds nothing.                                       *)
LEMMA InitSound == Init => Sound(hier) /\ \A t \in Tags : Content(hier, t) = NaNLine
<1> SUFFICES ASSUME Init PROVE Sound(hier) /\ \A t \in Tags : Content(hier, t) = NaNLine
  OBVIOUS
<1>1. Coherent(hier) /\ Good(hier)
  BY InitCoherent DEF Coherent
<1>2. \A k \in Caches, s \in Sets : hier.cache[k][s] = [p \in 1 .. Assoc(k) |-> ColdLine]
  BY DEF Init
<1>3. ~IsValid(ColdLine)
  BY DEF ColdLine, IsValid
<1>4. ASSUME NEW k \in Caches, NEW s \in Sets PROVE \A u : ~Has(hier.cache[k][s], u)
  <2> DEFINE row == hier.cache[k][s]
  <2>1. row = [p \in 1 .. Assoc(k) |-> ColdLine]
    BY <1>2
  <2> HIDE DEF row
  <2>2. \A u : ~Has(row, u)
    BY <1>3, <2>1 DEF Has
  <2> QED BY <2>2 DEF row
<1>5. Homed(hier)
  BY <1>4 DEF Homed
<1>6. \A k \in Caches, u \in Tags : Holds(hier, k, u) = NoData
  BY <1>4, UsedFacts DEF Holds, DataIn, RowOf
<1>7. Agreed(hier)
  BY <1>6, CacheFacts DEF Agreed
<1>8. \A u \in Tags : Content(hier, u) = NaNLine
  BY <1>6, CacheFacts DEF Content, Held, BelowOf, MainOf
<1> QED BY <1>1, <1>5, <1>7, <1>8 DEF Sound

(* One line is accessed: its content stays, or one of its words is         *)
(* written.                                                                *)
Read(g, h, t) == Content(g, t) = Content(h, t)
Written(g, h, t) == \E w \in Words, v \in Values :
  Content(g, t) = [Content(h, t) EXCEPT ![w] = v]

(* Every step leaves a sound hierarchy.                                    *)
LEMMA NextSound ==
  ASSUME Sound(hier), Next
  PROVE  \E l \in Lines : KeepsOthers(hier', hier, CalcTag(l)) /\ (Read(hier', hier, CalcTag(l)) \/ Written(hier', hier, CalcTag(l)))
<1>0. \A l \in Lines : CalcTag(l) \in Used
  BY DEF Used
<1>1. ASSUME NEW c \in Cpus, NEW l \in Lines, ReadHit(c, l)
      PROVE  KeepsOthers(hier', hier, CalcTag(l)) /\ Read(hier', hier, CalcTag(l))
  BY <1>0, <1>1, ReadHitSound DEF ReadHit, Read
<1>2. ASSUME NEW c \in Cpus, NEW l \in Lines, NEW w \in Words, ReadMiss(c, l, w)
      PROVE  KeepsOthers(hier', hier, CalcTag(l)) /\ Read(hier', hier, CalcTag(l))
  BY <1>0, <1>2, ReadMissSound DEF ReadMiss, Read
<1>3. ASSUME NEW c \in Cpus, NEW l \in Lines, NEW w \in Words, NEW v \in Values,
             WriteMiss(c, l, w, v)
      PROVE  KeepsOthers(hier', hier, CalcTag(l)) /\ Written(hier', hier, CalcTag(l))
  BY <1>0, <1>3, WriteMissSound DEF WriteMiss, Written
<1>4. ASSUME NEW c \in Cpus, NEW l \in Lines, NEW w \in Words, NEW v \in Values,
             WriteUpgrade(c, l, w, v)
      PROVE  KeepsOthers(hier', hier, CalcTag(l)) /\ Written(hier', hier, CalcTag(l))
  BY <1>0, <1>4, WriteUpgradeSound DEF WriteUpgrade, Written
<1>5. ASSUME NEW c \in Cpus, NEW l \in Lines, NEW w \in Words, NEW v \in Values,
             WriteHit(c, l, w, v)
      PROVE  KeepsOthers(hier', hier, CalcTag(l)) /\ Written(hier', hier, CalcTag(l))
  BY <1>0, <1>5, WriteHitSound DEF WriteHit, Written
<1> QED BY <1>1, <1>2, <1>3, <1>4, <1>5 DEF Next

(* So it stays sound.                                                      *)
LEMMA StaysSound == Sound(hier) /\ [Next]_hier => Sound(hier)'
<1>1. ASSUME Sound(hier), Next PROVE Sound(hier')
  BY <1>1, NextSound DEF KeepsOthers
<1>2. ASSUME Sound(hier), UNCHANGED hier PROVE Sound(hier')
  BY <1>2
<1> QED BY <1>1, <1>2 DEF Sound, Coherent, Good, Exclusive, HierType, Homed, Agreed

(* The copies of a line in one cache.                                      *)
LEMMA CopiesAre ==
  ASSUME NEW h, Good(h), NEW t \in Tags, NEW k \in Caches
  PROVE  /\ \A line \in CopiesIn(h, k, t) : line.data = Holds(h, k, t) /\ Holds(h, k, t) # NoData
         /\ CopiesIn(h, k, t) = {} <=> Holds(h, k, t) = NoData
<1> DEFINE row == RowOf(h, k, t)
<1>1. row \in Row(Assoc(k)) /\ RowOK(row) /\ Assoc(k) \in Nat \ {0}
  BY HoldsFacts
<1>2. CopiesIn(h, k, t) = {line \in {row[p] : p \in 1 .. Assoc(k)} : line.tag = t /\ IsValid(line)}
  BY <1>1 DEF CopiesIn, Range, Row
<1>3. Holds(h, k, t) = DataIn(row, t)
  BY DEF Holds
<1> HIDE DEF row
<1>4. ASSUME NEW line \in CopiesIn(h, k, t)
      PROVE  line.data = Holds(h, k, t) /\ Holds(h, k, t) # NoData
  <2>1. PICK p \in 1 .. Assoc(k) : line = row[p] /\ row[p].tag = t /\ IsValid(row[p])
    BY <1>2
  <2>2. DataIn(row, t) = row[p].data /\ Has(row, t)
    BY <1>1, <2>1, DataIs
  <2> QED BY <1>1, <1>3, <2>1, <2>2, DataType
<1>5. ASSUME CopiesIn(h, k, t) = {} PROVE Holds(h, k, t) = NoData
  <2>1. ~Has(row, t)
    BY <1>1, <1>2, <1>5 DEF Has, Row
  <2> QED BY <1>3, <2>1 DEF DataIn
<1> QED BY <1>4, <1>5

(* The memory of the properties is the content of the proofs.              *)
LEMMA MemoryIs ==
  ASSUME NEW h, Sound(h), NEW t \in Tags
  PROVE  MemoryOf(h, t) = Content(h, t)
<1> DEFINE private == UNION {CopiesIn(h, c, t) : c \in Cpus}
<1>1. Good(h) /\ Agreed(h) /\ Cpus \subseteq Caches /\ LLC \in Caches /\ Main \in Caches
  BY SoundIsFine, CacheFacts
<1>2. ASSUME NEW k \in Caches
      PROVE  /\ \A line \in CopiesIn(h, k, t) : line.data = Holds(h, k, t) /\ Holds(h, k, t) # NoData
             /\ CopiesIn(h, k, t) = {} => Holds(h, k, t) = NoData
  BY <1>1, CopiesAre
<1>3. MemoryOf(h, t) =
        IF private # {} THEN (CHOOSE line \in private : TRUE).data
        ELSE IF CopiesIn(h, LLC, t) # {} THEN (CHOOSE line \in CopiesIn(h, LLC, t) : TRUE).data
        ELSE IF CopiesIn(h, Main, t) # {} THEN (CHOOSE line \in CopiesIn(h, Main, t) : TRUE).data
        ELSE NaNLine
  BY DEF MemoryOf
<1>4. CASE private # {}
  <2>1. PICK line \in private : line = CHOOSE x \in private : TRUE
    BY <1>4
  <2>2. PICK c \in Cpus : line \in CopiesIn(h, c, t)
    OBVIOUS
  <2>3. line.data = Holds(h, c, t) /\ Holds(h, c, t) # NoData
    BY <1>1, <1>2, <2>2
  <2>4. MemoryOf(h, t) = line.data
    BY <1>3, <1>4, <2>1
  <2> QED BY <1>1, <2>3, <2>4, CopyIs
<1>5. CASE private = {}
  <2>1. \A c \in Cpus : CopiesIn(h, c, t) = {}
    BY <1>5
  <2>2. ~Held(h, t)
    BY <1>1, <1>2, <2>1 DEF Held
  <2>3. MemoryOf(h, t) =
          IF CopiesIn(h, LLC, t) # {} THEN (CHOOSE line \in CopiesIn(h, LLC, t) : TRUE).data
          ELSE IF CopiesIn(h, Main, t) # {} THEN (CHOOSE line \in CopiesIn(h, Main, t) : TRUE).data
          ELSE NaNLine
    BY <1>3, <1>5
  <2>4. ASSUME NEW k \in {LLC, Main}, CopiesIn(h, k, t) # {}
        PROVE  /\ (CHOOSE line \in CopiesIn(h, k, t) : TRUE).data = Holds(h, k, t)
               /\ Holds(h, k, t) # NoData
    <3>1. (CHOOSE line \in CopiesIn(h, k, t) : TRUE) \in CopiesIn(h, k, t)
      BY <2>4
    <3> QED BY <1>1, <1>2, <3>1
  <2>5. \A k \in {LLC, Main} : CopiesIn(h, k, t) = {} => Holds(h, k, t) = NoData
    BY <1>1, <1>2
  <2>6. MemoryOf(h, t) = BelowOf(h, t)
    BY <2>3, <2>4, <2>5 DEF BelowOf, MainOf
  <2> QED BY <1>1, <2>2, <2>6, CopyIs
<1> QED BY <1>4, <1>5

-----------------------------------------------------------------------------
(* The theorems.                                                           *)

LEMMA SoundImpliesCopiesAgree == Sound(hier) => CopiesAgree
<1> SUFFICES ASSUME Sound(hier) PROVE CopiesAgree
  OBVIOUS
<1> DEFINE Equal(c, d, s, p, q) ==
             (/\ IsValid(hier.cache[c][s][p]) /\ IsValid(hier.cache[d][s][q])
              /\ hier.cache[c][s][p].tag = hier.cache[d][s][q].tag)
             => hier.cache[c][s][p].data = hier.cache[d][s][q].data
<1> SUFFICES ASSUME NEW c \in Cpus, NEW d \in Cpus, NEW s \in Sets,
                    NEW p \in 1 .. PrivateAssoc, NEW q \in 1 .. PrivateAssoc
             PROVE  Equal(c, d, s, p, q)
  BY Zenon DEF CopiesAgree
<1> SUFFICES ASSUME IsValid(hier.cache[c][s][p]), IsValid(hier.cache[d][s][q]),
                    hier.cache[c][s][p].tag = hier.cache[d][s][q].tag
             PROVE  hier.cache[c][s][p].data = hier.cache[d][s][q].data
  OBVIOUS
<1> DEFINE t == hier.cache[c][s][p].tag
<1>1. Good(hier) /\ Homed(hier) /\ Agreed(hier)
  BY SoundIsFine DEF Sound
<1>2. c \in Caches /\ d \in Caches /\ Assoc(c) = PrivateAssoc /\ Assoc(d) = PrivateAssoc
      /\ PrivateAssoc \in Nat \ {0}
  BY CacheFacts
<1>3. \A k \in {c, d} : hier.cache[k][s] \in Row(PrivateAssoc) /\ RowOK(hier.cache[k][s])
  BY <1>1, <1>2 DEF Good, HierType
<1>4. /\ DataIn(hier.cache[c][s], t) = hier.cache[c][s][p].data /\ Has(hier.cache[c][s], t)
      /\ DataIn(hier.cache[d][s], t) = hier.cache[d][s][q].data /\ Has(hier.cache[d][s], t)
  BY <1>2, <1>3, DataIs
<1> HIDE DEF t
<1>5. t \in Used /\ SetOf(t) = s /\ t \in Tags
  BY <1>1, <1>2, <1>4, UsedFacts DEF Homed
<1>6. /\ Holds(hier, c, t) = hier.cache[c][s][p].data
      /\ Holds(hier, d, t) = hier.cache[d][s][q].data
  BY <1>4, <1>5 DEF Holds, RowOf
<1>7. Holds(hier, c, t) # NoData /\ Holds(hier, d, t) # NoData
  BY <1>2, <1>3, <1>4, <1>5, DataType DEF Holds, RowOf
<1> QED BY <1>1, <1>5, <1>6, <1>7 DEF Agreed

(* The valid copies that the private caches have of a line never differ:   *)
(* the snoops, fills, upgrades and write-backs of any number of CPUs keep  *)
(* them equal.                                                             *)
THEOREM CopiesAlwaysAgree == Spec => []CopiesAgree
<1>1. Init => Sound(hier)
  BY InitSound
<1>2. Sound(hier) /\ [Next]_hier => Sound(hier)'
  BY StaysSound
<1>3. Sound(hier) => CopiesAgree
  BY SoundImpliesCopiesAgree
<1> QED BY <1>1, <1>2, <1>3, PTL DEF Spec

(* What readWord returns, of a line that the lookup hits or misses.  After *)
(* a miss its pointer, if set, still points to the front: the line it was  *)
(* taken from is free, so the fill reuses it.                              *)
LEMMA ReadIsContent ==
  ASSUME NEW h, Sound(h), NEW c \in Cpus, NEW t \in Used, NEW w \in Words
  PROVE  ReadValue(h, c, t, w) = Content(h, t)[w]
<1> DEFINE row == RowOf(h, c, t)
           looked == RowOf(Look(h, c, t), c, t)
           after == RowOf(ReadMissOf(h, c, t, w), c, t)
           st == Pointer(row, t)
<1>1. /\ c \in Caches /\ t \in Tags /\ Fine(h) /\ Good(h) /\ Agreed(h)
  BY CacheFacts, UsedFacts, SoundIsFine
<1>2. row \in Row(Assoc(c)) /\ RowOK(row) /\ Assoc(c) \in Nat \ {0}
  BY <1>1, HoldsFacts
<1>3. looked = FindLine(row, t)
  BY <1>1, LookFine
<1>4. HitsIn(h, c, t) <=> Hits(row, t)
  BY DEF HitsIn
<1>5. CASE HitsIn(h, c, t)
  <2>1. ReadValue(h, c, t, w) = WordAt(st, looked, t, w)
    BY <1>5 DEF ReadValue
  <2>2. looked[1].data = Content(h, t)
    BY <1>5, LookSound DEF FrontData
  <2> HIDE DEF row, looked
  <2>3. st = 1
    BY <1>4, <1>5 DEF Pointer, Hits
  <2> QED BY <2>1, <2>2, <2>3 DEF WordAt, NULLst
<1>6. CASE ~HitsIn(h, c, t)
  <2>1. ReadValue(h, c, t, w) = WordAt(PointerAfterFill(st, looked, t), after, t, w)
    BY <1>6 DEF ReadValue
  <2>2. /\ KeepsOthers(ReadMissOf(h, c, t, w), h, t) /\ ValidInFront(ReadMissOf(h, c, t, w), c, t)
        /\ Content(ReadMissOf(h, c, t, w), t) = Content(h, t)
    BY <1>6, ReadMissSound
  <2>3. /\ after \in Row(Assoc(c)) /\ RowOK(after)
        /\ after[1].tag = t /\ IsValid(after[1])
    BY <1>1, <2>2, HoldsFacts, SoundIsFine DEF KeepsOthers, ValidInFront
  <2>4. DataIn(after, t) = Content(h, t)
    <3>1. DataIn(after, t) = Holds(ReadMissOf(h, c, t, w), c, t)
      BY DEF Holds
    <3> HIDE DEF after
    <3>2. DataIn(after, t) # NoData
      BY <1>2, <2>3, FrontIs, DataType
    <3> QED BY <1>1, <2>2, <3>1, <3>2, CopyIs, SoundIsFine DEF KeepsOthers
  <2> HIDE DEF after
  <2>5. after[1].data = DataIn(after, t) /\ Has(after, t)
    BY <1>2, <2>3, FrontIs
  <2>6. FindLine(after, t)[1].data = DataIn(after, t)
    BY <1>2, <2>3, <2>5, HitsIffHas, FindLineData
  <2>7. PointerAfterFill(st, looked, t) = st
    <3>1. CASE st = NULLst
      BY <3>1 DEF PointerAfterFill
    <3>2. CASE st # NULLst
      <4>1. Found(row, t)
        BY <3>2 DEF Pointer
      <4> HIDE DEF row, looked
      <4>2. looked \in Row(Assoc(c)) /\ RowOK(looked) /\ ~Has(looked, t)
            /\ looked[1] = row[FindPos(row, t)]
        BY <1>2, <1>3, <1>4, <1>6, <4>1, FindLineType, FindLineOK, HitsIffHas
      <4>3. ~IsValid(looked[1]) /\ 1 \in 1 .. Assoc(c)
        BY <1>2, <1>4, <1>6, <4>1, <4>2 DEF Hits
      <4>4. DOMAIN looked = 1 .. Assoc(c)
        BY <4>2 DEF Row
      <4>5. 1 \in Free(looked) /\ Free(looked) \in SUBSET Nat
        BY <1>2, <4>2, <4>3, <4>4 DEF Free, RowOK, Flagged, IsValid
      <4>6. Live(looked, t) = {}
        BY <1>2, <4>2, MissVictim
      <4>7. Min(Free(looked)) \in Free(looked) /\ Min(Free(looked)) <= 1
        BY <4>5, MinIn
      <4>8. Min(Free(looked)) = 1
        BY <1>2, <4>4, <4>7 DEF Free
      <4>9. ReplacePos(looked, t) = 1
        BY <4>5, <4>6, <4>8 DEF ReplacePos
      <4> QED BY <4>9 DEF PointerAfterFill
    <3> QED BY <3>1, <3>2
  <2>8. WordAt(st, after, t, w) = DataIn(after, t)[w]
    BY <2>5, <2>6 DEF WordAt, Pointer, NULLst
  <2> QED BY <2>1, <2>4, <2>7, <2>8
<1> QED BY <1>5, <1>6

(* Whatever CPU reads whatever word next, readWord returns the content of  *)
(* memory, in every reachable state of every geometry: the order of the    *)
(* fills and write-backs never lets it see a stale copy or another line.   *)
THEOREM ReadsAlwaysReturnMemory == Spec => []ReadsReturnMemory
<1>1. Init => Sound(hier)
  BY InitSound
<1>2. Sound(hier) /\ [Next]_hier => Sound(hier)'
  BY StaysSound
<1>3. Sound(hier) => ReadsReturnMemory
  <2> SUFFICES ASSUME Sound(hier), NEW c \in Cpus, NEW l \in Lines, NEW w \in Words
               PROVE  ReadValue(hier, c, CalcTag(l), w) = MemoryData(CalcTag(l))[w]
    BY DEF ReadsReturnMemory
  <2>1. CalcTag(l) \in Used /\ CalcTag(l) \in Tags
    BY UsedFacts DEF Used
  <2> QED BY <2>1, ReadIsContent, MemoryIs DEF MemoryData
<1> QED BY <1>1, <1>2, <1>3, PTL DEF Spec

(* The content of memory that an access changes: a word of the line it     *)
(* writes, and lines that fall out of main memory.                         *)
LEMMA ForgetsStep ==
  ASSUME Sound(hier), Next, NEW t \in Tags,
         MemoryOf(hier, t) # NaNLine, MemoryOf(hier', t) = NaNLine
  PROVE  /\ CopiesIn(hier', Main, t) = {}
         /\ \A p \in 1 .. MainAssoc : IsValid(hier'.cache[Main][SetOf(t)][p])
<1>1. PICK l \in Lines :
        KeepsOthers(hier', hier, CalcTag(l)) /\ (Read(hier', hier, CalcTag(l)) \/ Written(hier', hier, CalcTag(l)))
  BY NextSound
<1>2. Sound(hier') /\ Good(hier') /\ Main \in Caches
  BY <1>1, SoundIsFine, CacheFacts DEF KeepsOthers
<1>3. MemoryOf(hier, t) = Content(hier, t) /\ MemoryOf(hier', t) = Content(hier', t)
  BY <1>2, MemoryIs
<1>4. t # CalcTag(l)
  <2> SUFFICES ASSUME t = CalcTag(l) PROVE FALSE
    OBVIOUS
  <2>1. Written(hier', hier, t)
    BY <1>1, <1>3 DEF Read
  <2>2. PICK w \in Words, v \in Values : NaNLine = [Content(hier, t) EXCEPT ![w] = v]
    BY <1>3, <2>1 DEF Written
  <2>3. Content(hier, t) \in LineData
    BY ContentType
  <2>4. NaNLine[w] = v
    BY <2>2, <2>3 DEF LineData
  <2> QED BY <2>4, NaNAssumption DEF NaNLine
<1>5. Gone(hier', t)
  BY <1>1, <1>3, <1>4 DEF KeepsOthers, Kept
<1>6. Holds(hier', Main, t) = NoData /\ AllValid(RowOf(hier', Main, t))
  BY <1>5 DEF Gone, OutOfBelow, OutOfMain, MainFull
<1>7. CopiesIn(hier', Main, t) = {}
  BY <1>2, <1>6, CopiesAre
<1>8. RowOf(hier', Main, t) \in Row(MainAssoc)
  <2>1. Assoc(Main) = MainAssoc
    BY CacheFacts DEF Assoc, LLC, Main
  <2> QED BY <1>2, <2>1, HoldsFacts
<1> QED BY <1>6, <1>7, <1>8 DEF AllValid, Row, RowOf

(* The content of a line disappears only by falling out of main memory,    *)
(* whose row for it is then full of other live lines: no eviction,         *)
(* write-back or snoop of any number of CPUs loses data on the way, or     *)
(* uncovers an older copy.                                                 *)
THEOREM ForgottenByMainOnly == Spec => ForgetsOnlyWhenMainFull
<1> DEFINE Forgets ==
      \A t \in Tags :
        (MemoryData(t) # NaNLine /\ MemoryData(t)' = NaNLine)
          => /\ CopiesIn(hier, Main, t)' = {}
             /\ \A p \in 1 .. MainAssoc : IsValid(hier.cache[Main][SetOf(t)][p])'
<1>1. Init => Sound(hier)
  BY InitSound
<1>2. Sound(hier) /\ [Next]_hier => Sound(hier)'
  BY StaysSound
<1>3. Sound(hier) /\ [Next]_hier => [Forgets]_hier
  <2> SUFFICES ASSUME Sound(hier), Next, NEW t \in Tags,
                      MemoryData(t) # NaNLine, MemoryData(t)' = NaNLine
               PROVE  /\ CopiesIn(hier, Main, t)' = {}
                      /\ \A p \in 1 .. MainAssoc : IsValid(hier.cache[Main][SetOf(t)][p])'
    OBVIOUS
  <2>1. MemoryOf(hier, t) # NaNLine /\ MemoryOf(hier', t) = NaNLine
    BY DEF MemoryData
  <2> QED BY <2>1, ForgetsStep
<1>4. (Spec => [][Forgets]_hier) => (Spec => ForgetsOnlyWhenMainFull)
  BY DEF ForgetsOnlyWhenMainFull
<1> QED BY <1>1, <1>2, <1>3, <1>4, PTL DEF Spec

(* Who loses a line to a step: another CPU took it to write, or it was the *)
(* oldest of a full row.                                                   *)
LEMMA LosesStep ==
  ASSUME Sound(hier), Next, NEW d \in Cpus, NEW u \in Tags, Loses(hier', hier, d, u)
  PROVE  \/ \E c \in Siblings(d) : OwnsFront(hier', c, u) /\ Sound(hier')
         \/ AllValid(RowOf(hier, d, u)) /\ RowOf(hier, d, u)[PrivateAssoc].tag = u
<1>0. \A l \in Lines : CalcTag(l) \in Used
  BY DEF Used
<1>1. ASSUME NEW c \in Cpus, NEW t \in Used, ~HitsIn(hier, c, t), d = c, ThrowsOut(hier, c, t, u)
      PROVE  AllValid(RowOf(hier, d, u)) /\ RowOf(hier, d, u)[PrivateAssoc].tag = u
  <2> DEFINE row == RowOf(hier, c, t)
  <2>1. c \in Caches /\ t \in Tags /\ Good(hier) /\ SetOf(t) \in Sets /\ Assoc(c) = PrivateAssoc
    BY CacheFacts, UsedFacts, SoundIsFine DEF Assoc
  <2>2. row \in Row(PrivateAssoc) /\ RowOK(row) /\ PrivateAssoc \in Nat \ {0} /\ ~Has(row, t)
    BY <1>1, <2>1, HoldsFacts
  <2>3. AllValid(row) /\ row[PrivateAssoc].tag = u
    BY <1>1, <2>2, MissDropsOldest DEF ThrowsOut
  <2>4. Has(hier.cache[c][SetOf(t)], u)
    <3>1. PrivateAssoc \in DOMAIN row /\ DOMAIN row = 1 .. PrivateAssoc
      BY <2>2 DEF Row
    <3>2. IsValid(row[PrivateAssoc])
      BY <2>3, <3>1 DEF AllValid
    <3>3. Has(row, u)
      BY <2>3, <3>1, <3>2 DEF Has
    <3> QED BY <3>3 DEF RowOf
  <2>5. SetOf(u) = SetOf(t)
    BY <2>1, <2>4 DEF Sound, Homed
  <2> QED BY <1>1, <2>3, <2>5 DEF RowOf
<1>2. ASSUME NEW c \in Cpus, NEW l \in Lines, ReadHit(c, l) PROVE FALSE
  BY <1>0, <1>2, ReadHitSound DEF ReadHit
<1>3. ASSUME NEW c \in Cpus, NEW l \in Lines, NEW w \in Words, ReadMiss(c, l, w)
      PROVE  d = c /\ ThrowsOut(hier, c, CalcTag(l), u) /\ ~HitsIn(hier, c, CalcTag(l))
  BY <1>0, <1>3, ReadMissSound DEF ReadMiss
<1>4. ASSUME NEW c \in Cpus, NEW l \in Lines, NEW w \in Words, NEW v \in Values,
             WriteMiss(c, l, w, v)
      PROVE  \/ c \in Siblings(d) /\ OwnsFront(hier', c, u) /\ Sound(hier')
             \/ d = c /\ ThrowsOut(hier, c, CalcTag(l), u) /\ ~HitsIn(hier, c, CalcTag(l))
  BY <1>0, <1>4, WriteMissSound DEF WriteMiss, KeepsOthers, Siblings
<1>5. ASSUME NEW c \in Cpus, NEW l \in Lines, NEW w \in Words, NEW v \in Values,
             WriteUpgrade(c, l, w, v)
      PROVE  c \in Siblings(d) /\ OwnsFront(hier', c, u) /\ Sound(hier')
  BY <1>0, <1>5, WriteUpgradeSound DEF WriteUpgrade, KeepsOthers, Siblings
<1>6. ASSUME NEW c \in Cpus, NEW l \in Lines, NEW w \in Words, NEW v \in Values,
             WriteHit(c, l, w, v)
      PROVE  FALSE
  BY <1>0, <1>6, WriteHitSound DEF WriteHit
<1> QED BY <1>0, <1>1, <1>2, <1>3, <1>4, <1>5, <1>6 DEF Next

(* What CacheHas says, of any hierarchy; it is that the cache holds the    *)
(* line.                                                                   *)
HasAt(h, c, s, t) == \E p \in 1 .. PrivateAssoc :
  h.cache[c][s][p].tag = t /\ IsValid(h.cache[c][s][p])

(* A copy at a place is held by its row.                                   *)
LEMMA HasAtHolds ==
  ASSUME NEW h, Sound(h), NEW c \in Cpus, NEW s \in Sets, NEW t \in Tags
  PROVE  /\ HasAt(h, c, s, t) => s = SetOf(t) /\ Holds(h, c, t) # NoData
         /\ Holds(h, c, t) # NoData => HasAt(h, c, SetOf(t), t)
<1>1. c \in Caches /\ Good(h) /\ HierType(h) /\ Homed(h) /\ Assoc(c) = PrivateAssoc
  BY CacheFacts, SoundIsFine DEF Assoc, Good, Sound
<1>2. \A z \in Sets : DOMAIN h.cache[c][z] = 1 .. PrivateAssoc
  BY <1>1 DEF HierType, Row
<1>3. \A z \in Sets : HasAt(h, c, z, t) <=> Has(h.cache[c][z], t)
  BY <1>2 DEF HasAt, Has
<1>4. Holds(h, c, t) # NoData <=> Has(h.cache[c][SetOf(t)], t)
  BY <1>1, HoldsFacts DEF RowOf
<1> QED BY <1>1, <1>3, <1>4, UsedFacts DEF Homed

(* A CPU loses a valid line only to another CPU that now has it modified,  *)
(* or because it was the oldest of a row in which every line was live, for *)
(* any number of CPUs and ways: neither a snoop for another line, nor what *)
(* the levels below do, nor a fill that had a free line takes it away.     *)
THEOREM LinesAreLostForAReason == Spec => LosesOnlyOldestOrInvalidated
<1> DEFINE Lost == \A c \in Cpus, s \in Sets, t \in Tags :
             (CacheHas(c, s, t) /\ ~CacheHas(c, s, t)')
               => WrittenElsewhere(c, s, t)' \/ OldestOfFullRow(c, s, t)
<1>1. Init => Sound(hier)
  BY InitSound
<1>2. Sound(hier) /\ [Next]_hier => Sound(hier)'
  BY StaysSound
<1>3. Sound(hier) /\ [Next]_hier => [Lost]_hier
  <2> SUFFICES ASSUME Sound(hier), Next, NEW c \in Cpus, NEW s \in Sets, NEW t \in Tags,
                      CacheHas(c, s, t), ~CacheHas(c, s, t)'
               PROVE  WrittenElsewhere(c, s, t)' \/ OldestOfFullRow(c, s, t)
    OBVIOUS
  <2>1. HasAt(hier, c, s, t) /\ ~HasAt(hier', c, s, t)
    BY DEF CacheHas, HasAt
  <2>2. s = SetOf(t) /\ Holds(hier, c, t) # NoData
    BY <2>1, HasAtHolds
  <2>3. Sound(hier')
    BY NextSound DEF KeepsOthers
  <2>4. Loses(hier', hier, c, t)
    BY <2>1, <2>2, <2>3, HasAtHolds DEF Loses
  <2>5. CASE \E d \in Siblings(c) : OwnsFront(hier', d, t) /\ Sound(hier')
    <3>1. PICK d \in Siblings(c) : OwnsFront(hier', d, t)
      BY <2>5
    <3>2. 1 \in 1 .. PrivateAssoc
      BY HierarchyAssumption
    <3>3. hier'.cache[d][s][1].tag = t /\ hier'.cache[d][s][1].state = "M"
      BY <2>2, <3>1 DEF OwnsFront, ValidInFront, RowOf
    <3> QED BY <3>2, <3>3 DEF WrittenElsewhere
  <2>6. CASE AllValid(RowOf(hier, c, t)) /\ RowOf(hier, c, t)[PrivateAssoc].tag = t
    <3>1. RowOf(hier, c, t) \in Row(PrivateAssoc)
      <4>1. c \in Caches /\ Assoc(c) = PrivateAssoc
        BY CacheFacts DEF Assoc
      <4> QED BY <4>1, HoldsFacts, SoundIsFine
    <3> QED BY <2>2, <2>6, <3>1 DEF OldestOfFullRow, AllValid, Row, RowOf
  <2> QED BY <2>4, <2>5, <2>6, LosesStep
<1>4. (Spec => [][Lost]_hier) => (Spec => LosesOnlyOldestOrInvalidated)
  BY DEF LosesOnlyOldestOrInvalidated
<1> QED BY <1>1, <1>2, <1>3, <1>4, PTL DEF Spec

-----------------------------------------------------------------------------
(* The refinement.                                                         *)

(* The program's lines are all within 4 GiB: the 32 bits that calcTag      *)
(* keeps of an address tell them apart.                                    *)
NoAliases == \A l, m \in Lines : CalcTag(l) = CalcTag(m) => l = m

(* The lines in use do not exceed main memory, in any set.                 *)
UsedIn(s) == {t \in Used : SetOf(t) = s}
FitsInMain == \A s \in Sets : Cardinality(UsedIn(s)) <= MainAssoc

(* Then no line falls out of it: its row would have to hold one line more  *)
(* than there are.                                                         *)
LEMMA NothingGone ==
  ASSUME FitsInMain, NEW h, Fine(h), NEW u \in Used
  PROVE  ~OutOfMain(h, u)
<1> SUFFICES ASSUME Holds(h, Main, u) = NoData, AllValid(RowOf(h, Main, u))
             PROVE  FALSE
  BY DEF OutOfMain, MainFull
<1> DEFINE row == RowOf(h, Main, u)
           s == SetOf(u)
           f == [p \in 1 .. MainAssoc |-> row[p].tag]
<1>1. Main \in Caches /\ u \in Tags /\ s \in Sets /\ Good(h) /\ Homed(h)
  BY CacheFacts, UsedFacts DEF Fine
<1>2. Assoc(Main) = MainAssoc /\ MainAssoc \in Nat \ {0}
  BY CacheFacts, HierarchyAssumption DEF Assoc, LLC, Main
<1>3. row \in Row(MainAssoc) /\ RowOK(row) /\ ~Has(row, u) /\ row = h.cache[Main][s]
  BY <1>1, <1>2, HoldsFacts DEF RowOf
<1>4. DOMAIN row = 1 .. MainAssoc /\ \A p \in 1 .. MainAssoc : IsValid(row[p])
  BY <1>3 DEF Row, AllValid
<1> HIDE DEF row
<1>5. ASSUME NEW p \in 1 .. MainAssoc PROVE row[p].tag \in UsedIn(s) \ {u}
  <2>1. Has(row, row[p].tag)
    BY <1>4 DEF Has
  <2> QED BY <1>1, <1>3, <2>1 DEF Homed, UsedIn
<1>6. \A p, q \in 1 .. MainAssoc : row[p].tag = row[q].tag => p = q
  BY <1>3, <1>4 DEF RowOK, Single
<1> HIDE DEF s
<1>7. f \in Injection(1 .. MainAssoc, UsedIn(s) \ {u})
  BY <1>5, <1>6 DEF Injection, IsInjective
<1>8. IsFiniteSet(UsedIn(s)) /\ Cardinality(UsedIn(s)) \in Nat
  <2>1. IsFiniteSet(Tags)
    BY GeometryAssumption, FS_Interval DEF Tags
  <2>2. UsedIn(s) \in SUBSET Tags
    BY UsedFacts DEF UsedIn
  <2> QED BY <2>1, <2>2, FS_Subset, FS_CardinalityType
<1>9. u \in UsedIn(s)
  BY DEF UsedIn, s
<1>10. /\ IsFiniteSet(UsedIn(s) \ {u})
       /\ Cardinality(UsedIn(s) \ {u}) = Cardinality(UsedIn(s)) - 1
  BY <1>8, <1>9, FS_RemoveElement
<1>11. Cardinality(1 .. MainAssoc) = MainAssoc
  BY <1>2, FS_Interval
<1> HIDE DEF f
<1>12. Cardinality(1 .. MainAssoc) <= Cardinality(UsedIn(s) \ {u})
  BY <1>7, <1>10, FS_Injection
<1>13. Cardinality(UsedIn(s)) <= MainAssoc
  BY <1>1 DEF FitsInMain
<1> QED BY <1>2, <1>8, <1>10, <1>11, <1>12, <1>13

(* The lines that the properties call overflowed are those.                *)
LEMMA OverflowIs ==
  ASSUME NEW h, Sound(h), NEW l \in Lines
  PROVE  l \in Overflowed(h) <=> OutOfMain(h, CalcTag(l))
<1> DEFINE t == CalcTag(l)
           row == RowOf(h, Main, t)
<1>1. Good(h) /\ t \in Tags /\ Main \in Caches /\ Assoc(Main) = MainAssoc
  BY SoundIsFine, CacheFacts, UsedFacts DEF Used, Assoc, LLC, Main
<1>2. CopiesIn(h, Main, t) = {} <=> Holds(h, Main, t) = NoData
  BY <1>1, CopiesAre
<1>3. row \in Row(MainAssoc)
  BY <1>1, HoldsFacts
<1>4. (\A p \in 1 .. MainAssoc : IsValid(row[p])) <=> AllValid(row)
  BY <1>3 DEF Row, AllValid
<1> QED BY <1>2, <1>4 DEF Overflowed, OutOfMain, MainFull

(* An access of one line leaves the others as they are, or they have fallen*)
(* out of main memory.                                                     *)
LEMMA OthersAreKept ==
  ASSUME NoAliases, NEW g, NEW h, Sound(h), NEW l \in Lines, KeepsOthers(g, h, CalcTag(l))
  PROVE  /\ \A x \in Lines \ {l} :
              Memories(g)[x] = Memories(h)[x] \/ (x \in Overflowed(g) /\ Memories(g)[x] = NaNLine)
         /\ Memories(g)[l] = Content(g, CalcTag(l)) /\ Memories(h)[l] = Content(h, CalcTag(l))
<1>1. Sound(g)
  BY DEF KeepsOthers
<1>2. \A x \in Lines : CalcTag(x) \in Used /\ CalcTag(x) \in Tags
  BY UsedFacts DEF Used
<1>3. \A x \in Lines : /\ Memories(h)[x] = Content(h, CalcTag(x))
                      /\ Memories(g)[x] = Content(g, CalcTag(x))
  BY <1>1, <1>2, MemoryIs DEF Memories
<1>4. ASSUME NEW x \in Lines \ {l}
      PROVE  \/ Memories(g)[x] = Memories(h)[x]
             \/ x \in Overflowed(g) /\ Memories(g)[x] = NaNLine
  <2>1. Kept(g, h, CalcTag(x))
    BY <1>2 DEF NoAliases, KeepsOthers
  <2>2. CASE Gone(g, CalcTag(x))
    <3>1. x \in Overflowed(g)
      BY <1>1, <2>2, OverflowIs DEF Gone, OutOfBelow
    <3>2. Content(g, CalcTag(x)) = NaNLine
      BY <2>2 DEF Gone, OutOfBelow, OutOfMain, Content, BelowOf, MainOf
    <3> QED BY <1>3, <3>1, <3>2
  <2>3. CASE ~Gone(g, CalcTag(x))
    BY <1>3, <2>1, <2>3 DEF Kept
  <2> QED BY <2>2, <2>3
<1> QED BY <1>3, <1>4

(* A read returns the word it is for.                                      *)
LEMMA ReadIsStep ==
  ASSUME NoAliases, Sound(hier), NEW c \in Cpus, NEW l \in Lines, NEW w \in Words
  PROVE  ReadsAsMemory(c, l, w)
<1> DEFINE t == CalcTag(l)
           after == ReadOf(hier, c, t, w)
<1>1. t \in Used /\ t \in Tags
  BY UsedFacts DEF Used
<1>2. KeepsOthers(after, hier, t) /\ Content(after, t) = Content(hier, t)
  BY <1>1, ReadHitSound, ReadMissSound DEF ReadOf
<1>3. ReadValue(hier, c, t, w) = Content(hier, t)[w]
  BY <1>1, ReadIsContent
<1> HIDE DEF after
<1>4. Memory!ReadStep(Memories(hier), Memories(after), l, w, ReadValue(hier, c, t, w), Overflowed(after))
  BY <1>2, <1>3, OthersAreKept DEF Memory!ReadStep, Memory!OthersKept, Memory!Forgotten, NaNLine
<1> QED BY <1>4 DEF ReadsAsMemory, after

(* A write puts its value into the word it is for.                         *)
LEMMA WriteIsStep ==
  ASSUME NoAliases, Sound(hier), NEW c \in Cpus, NEW l \in Lines, NEW w \in Words, NEW v \in Values
  PROVE  WritesAsMemory(c, l, w, v)
<1> DEFINE t == CalcTag(l)
           after == WriteOf(hier, c, t, w, v)
<1>1. t \in Used
  BY DEF Used
<1>2. KeepsOthers(after, hier, t) /\ Content(after, t) = [Content(hier, t) EXCEPT ![w] = v]
  BY <1>1, WriteMissSound, WriteUpgradeSound, WriteHitSound DEF WriteOf
<1> HIDE DEF after
<1>3. Memory!WriteStep(Memories(hier), Memories(after), l, w, v, Overflowed(after))
  BY <1>2, OthersAreKept DEF Memory!WriteStep, Memory!OthersKept, Memory!Forgotten, NaNLine
<1> QED BY <1>3 DEF WritesAsMemory, after

(* The three levels, with every snoop, fill, upgrade, eviction and         *)
(* write-back, implement one memory: in every reachable state, a read of a *)
(* word by any CPU returns what the memory has there and changes no        *)
(* content, a write puts its value into its word, and a line other than the*)
(* one accessed keeps its content unless it fell out of main memory, whose *)
(* row for it is full.                                                     *)
THEOREM HierarchyIsMemory ==
  ASSUME NoAliases
  PROVE  Spec => []ImplementsMemory
<1>1. Init => Sound(hier)
  BY InitSound
<1>2. Sound(hier) /\ [Next]_hier => Sound(hier)'
  BY StaysSound
<1>3. Sound(hier) => ImplementsMemory
  BY ReadIsStep, WriteIsStep DEF ImplementsMemory
<1> QED BY <1>1, <1>2, <1>3, PTL DEF Spec

(* Nothing is ever lost as long as the lines in use of each set are no more*)
(* than the ways of main memory: the memory then changes by its writes     *)
(* alone.                                                                  *)
THEOREM NothingIsLost ==
  ASSUME FitsInMain
  PROVE  Spec => [](Overflowed(hier) = {})
<1>1. Init => Sound(hier)
  BY InitSound
<1>2. Sound(hier) /\ [Next]_hier => Sound(hier)'
  BY StaysSound
<1>3. Sound(hier) => Overflowed(hier) = {}
  <2> SUFFICES ASSUME Sound(hier), NEW l \in Overflowed(hier) PROVE FALSE
    OBVIOUS
  <2>1. l \in Lines /\ CalcTag(l) \in Used
    BY DEF Overflowed, Used
  <2>2. OutOfMain(hier, CalcTag(l))
    BY <2>1, OverflowIs
  <2> QED BY <2>1, <2>2, NothingGone, SoundIsFine
<1> QED BY <1>1, <1>2, <1>3, PTL DEF Spec
=============================================================================
