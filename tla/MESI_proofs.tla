----------------------------- MODULE MESI_proofs -----------------------------
(***************************************************************************)
(* The MESI protocol is a reference, for any number of caches, ways, sets  *)
(* and lines: lookups find the valid copies, an exclusive copy is alone,   *)
(* and the protocol implements the permissions of an invalidation protocol.*)
(*                                                                         *)
(* The argument sees a row as a function from tags to states.              *)
(***************************************************************************)
EXTENDS MESI_Properties, CacheCore_proofs

-----------------------------------------------------------------------------
(* Rows.                                                                   *)

(* A line that follows another of its tag is dead: the first match of a    *)
(* lookup is the only one that can be valid.                               *)
Ordered(row) == \A p, q \in DOMAIN row : q < p /\ row[q].tag = row[p].tag => ~IsValid(row[p])
GoodRow(row) == row \in MESIRow /\ Ordered(row)

(* The state that a lookup of a tag finds.                                 *)
StateFor(row, t) == IF Found(row, t) THEN row[FindPos(row, t)].state ELSE "I"

(* The parts of a row.                                                     *)
LEMMA MESIRowFacts ==
  ASSUME NEW row \in MESIRow
  PROVE  /\ DOMAIN row = 1 .. PrivateAssoc /\ PrivateAssoc \in Nat \ {0} /\ 1 \in 1 .. PrivateAssoc
         /\ \A p \in 1 .. PrivateAssoc : row[p].tag \in Tags /\ row[p].state \in MESIStates
         /\ \A t : Live(row, t) = {}
         /\ \A t : StateFor(row, t) \in MESIStates
         /\ \A t : Hits(row, t) <=> StateFor(row, t) # "I"
<1>1. DOMAIN row = 1 .. PrivateAssoc /\ PrivateAssoc \in Nat \ {0} /\ 1 \in 1 .. PrivateAssoc
  BY MESIAssumption DEF MESIRow
<1>2. \A p \in 1 .. PrivateAssoc :
        row[p].tag \in Tags /\ row[p].state \in MESIStates /\ row[p].islineInvalid = TRUE
  BY DEF MESIRow
<1>3. \A t : Live(row, t) = {}
  BY <1>1, <1>2 DEF Live, Matches
<1>4. ASSUME NEW t, Found(row, t) PROVE FindPos(row, t) \in 1 .. PrivateAssoc
  <2>1. Matches(row, t) \in SUBSET Nat /\ Matches(row, t) # {} /\ Matches(row, t) \subseteq 1 .. PrivateAssoc
    BY <1>1, <1>4 DEF Matches, Found
  <2>2. FindPos(row, t) = Min(Matches(row, t))
    BY <1>3 DEF FindPos
  <2> QED BY <2>1, <2>2, MinIn
<1>5. \A t : StateFor(row, t) \in MESIStates
  BY <1>2, <1>4 DEF StateFor, MESIStates
<1>6. \A t : Hits(row, t) <=> StateFor(row, t) # "I"
  BY DEF Hits, StateFor, IsValid
<1> QED BY <1>1, <1>2, <1>3, <1>5, <1>6

(* A lookup returns the first match.                                       *)
LEMMA FirstMatch ==
  ASSUME NEW row \in MESIRow, NEW t, Found(row, t)
  PROVE  /\ FindPos(row, t) \in 1 .. PrivateAssoc /\ row[FindPos(row, t)].tag = t
         /\ \A q \in 1 .. PrivateAssoc : row[q].tag = t => FindPos(row, t) <= q
<1>1. Matches(row, t) \in SUBSET Nat /\ Matches(row, t) # {}
  BY MESIRowFacts DEF Matches, Found
<1>2. FindPos(row, t) = Min(Matches(row, t))
  BY MESIRowFacts DEF FindPos
<1>3. FindPos(row, t) \in Matches(row, t) /\ \A q \in Matches(row, t) : FindPos(row, t) <= q
  BY <1>1, <1>2, MinIn
<1> QED BY <1>3, MESIRowFacts DEF Matches

(* The one valid line of a tag is what a lookup finds.                     *)
LEMMA ValidIsFound ==
  ASSUME NEW row, GoodRow(row), NEW p \in 1 .. PrivateAssoc, IsValid(row[p])
  PROVE  FindPos(row, row[p].tag) = p /\ StateFor(row, row[p].tag) = row[p].state
           /\ Hits(row, row[p].tag)
<1> DEFINE t == row[p].tag
           q == FindPos(row, t)
<1>1. row \in MESIRow /\ DOMAIN row = 1 .. PrivateAssoc
  BY MESIRowFacts DEF GoodRow
<1>2. Found(row, t)
  BY <1>1 DEF Found, Matches
<1>3. q \in 1 .. PrivateAssoc /\ row[q].tag = t /\ q <= p
  BY <1>1, <1>2, FirstMatch
<1>4. ~(q < p)
  BY <1>1, <1>3 DEF GoodRow, Ordered
<1>5. q = p
  BY <1>3, <1>4
<1> QED BY <1>2, <1>5 DEF StateFor, Hits

(* A tag without a valid line is not found valid.                          *)
LEMMA InvalidNotFound ==
  ASSUME NEW row \in MESIRow, NEW t, \A p \in 1 .. PrivateAssoc : row[p].tag = t => ~IsValid(row[p])
  PROVE  StateFor(row, t) = "I"
BY FirstMatch DEF StateFor, IsValid

(* Conversely what a lookup finds valid is there.                          *)
LEMMA FoundIsThere ==
  ASSUME NEW row \in MESIRow, NEW t, StateFor(row, t) # "I"
  PROVE  \E p \in 1 .. PrivateAssoc :
           row[p].tag = t /\ IsValid(row[p]) /\ row[p].state = StateFor(row, t)
BY FirstMatch DEF StateFor, IsValid

(* Rows whose valid lines are the same have the same states.               *)
LEMMA SameStates ==
  ASSUME NEW old, NEW new, GoodRow(old), GoodRow(new), NEW t,
         \A p \in 1 .. PrivateAssoc : old[p].tag = t /\ IsValid(old[p]) =>
           \E q \in 1 .. PrivateAssoc : new[q].tag = t /\ new[q].state = old[p].state,
         \A q \in 1 .. PrivateAssoc : new[q].tag = t /\ IsValid(new[q]) =>
           \E p \in 1 .. PrivateAssoc : old[p].tag = t /\ IsValid(old[p])
  PROVE  StateFor(new, t) = StateFor(old, t)
<1>1. old \in MESIRow /\ new \in MESIRow
  BY DEF GoodRow
<1>2. CASE StateFor(old, t) # "I"
  <2>1. PICK p \in 1 .. PrivateAssoc :
          old[p].tag = t /\ IsValid(old[p]) /\ old[p].state = StateFor(old, t)
    BY <1>1, <1>2, FoundIsThere
  <2>2. PICK q \in 1 .. PrivateAssoc : new[q].tag = t /\ new[q].state = old[p].state
    BY <2>1
  <2>3. IsValid(new[q])
    BY <2>1, <2>2 DEF IsValid
  <2> QED BY <2>1, <2>2, <2>3, ValidIsFound
<1>3. CASE StateFor(old, t) = "I"
  <2>1. \A p \in 1 .. PrivateAssoc : old[p].tag = t => ~IsValid(old[p])
    BY <1>3, ValidIsFound DEF IsValid
  <2> QED BY <1>1, <1>3, <2>1, InvalidNotFound
<1> QED BY <1>2, <1>3

(* new is row with the line at p in front, the others in the same order.   *)
Moved(new, row, p) ==
  /\ new \in MESIRow
  /\ new[1] = row[p]
  /\ \A q \in 1 .. PrivateAssoc : Src(p, q) \in 1 .. PrivateAssoc /\ new[q] = row[Src(p, q)]
  /\ \A q \in 1 .. PrivateAssoc : q # 1 => Src(p, q) # p
  /\ \A q, r \in 1 .. PrivateAssoc : 1 < q /\ q < r => Src(p, q) < Src(p, r)
  /\ \A r \in 1 .. PrivateAssoc : r # p => \E q \in 1 .. PrivateAssoc : q # 1 /\ Src(p, q) = r

(* Moving a line to the front, and where the others go.                    *)
LEMMA MoveMESI ==
  ASSUME NEW row \in MESIRow, NEW p \in 1 .. PrivateAssoc
  PROVE  Moved(MoveToFront(row, p), row, p)
<1>1. DOMAIN row = 1 .. PrivateAssoc /\ PrivateAssoc \in Nat \ {0}
  BY MESIRowFacts
<1>2. \A q \in 1 .. PrivateAssoc : Src(p, q) \in 1 .. PrivateAssoc
  BY <1>1 DEF Src
<1>3. \A q \in 1 .. PrivateAssoc : MoveToFront(row, p)[q] = row[Src(p, q)]
  BY <1>1 DEF MoveToFront, Src
<1>4. MoveToFront(row, p) = [q \in 1 .. PrivateAssoc |-> row[Src(p, q)]]
  BY <1>1, <1>2 DEF MoveToFront, Src
<1>5. MoveToFront(row, p) \in MESIRow
  BY <1>2, <1>4 DEF MESIRow
<1>6. \A q, r \in 1 .. PrivateAssoc : 1 < q /\ q < r => Src(p, q) < Src(p, r)
  BY <1>1 DEF Src
<1>7. \A q \in 1 .. PrivateAssoc : q # 1 => Src(p, q) # p
  BY <1>1 DEF Src
<1>8. ASSUME NEW r \in 1 .. PrivateAssoc, r # p
      PROVE  \E q \in 1 .. PrivateAssoc : q # 1 /\ Src(p, q) = r
  <2>1. CASE r < p
    <3>1. r + 1 \in 1 .. PrivateAssoc /\ r + 1 # 1 /\ Src(p, r + 1) = r
      BY <1>1, <2>1 DEF Src
    <3> QED BY <3>1
  <2>2. CASE r > p
    BY <1>1, <2>2 DEF Src
  <2> QED BY <1>8, <2>1, <2>2
<1>9. MoveToFront(row, p)[1] = row[p]
  BY <1>1, <1>3 DEF Src
<1> QED BY <1>2, <1>3, <1>5, <1>6, <1>7, <1>8, <1>9 DEF Moved

(* A lookup moves the first match of its tag: the order stays good.        *)
LEMMA LookupGood ==
  ASSUME NEW row, GoodRow(row), NEW t
  PROVE  /\ GoodRow(FindLine(row, t))
         /\ \A u : StateFor(FindLine(row, t), u) = StateFor(row, u)
         /\ Hits(row, t) => /\ FindLine(row, t)[1].tag = t /\ IsValid(FindLine(row, t)[1])
                            /\ FindLine(row, t)[1].state = StateFor(row, t)
<1>1. row \in MESIRow /\ DOMAIN row = 1 .. PrivateAssoc /\ 1 \in 1 .. PrivateAssoc
  BY MESIRowFacts DEF GoodRow
<1>2. CASE ~Found(row, t)
  BY <1>2 DEF FindLine, Found, Hits
<1>3. CASE Found(row, t)
  <2> DEFINE p == FindPos(row, t)
             new == MoveToFront(row, p)
  <2>1. p \in 1 .. PrivateAssoc /\ row[p].tag = t /\ \A q \in 1 .. PrivateAssoc : row[q].tag = t => p <= q
    BY <1>1, <1>3, FirstMatch
  <2>2. FindLine(row, t) = new
    BY <1>3 DEF FindLine, Found
  <2>3. StateFor(row, t) = row[p].state /\ (Hits(row, t) => IsValid(row[p]))
    BY <1>3 DEF StateFor, Hits
  <2> HIDE DEF p
  <2>9. row \in MESIRow /\ p \in 1 .. PrivateAssoc
    BY <1>1, <2>1
  <2>10. Moved(new, row, p)
    BY <2>9, MoveMESI
  <2> HIDE DEF new
  <2>4. /\ new \in MESIRow /\ new[1] = row[p]
        /\ \A q \in 1 .. PrivateAssoc : Src(p, q) \in 1 .. PrivateAssoc /\ new[q] = row[Src(p, q)]
        /\ \A q \in 1 .. PrivateAssoc : q # 1 => Src(p, q) # p
        /\ \A q, r \in 1 .. PrivateAssoc : 1 < q /\ q < r => Src(p, q) < Src(p, r)
        /\ \A r \in 1 .. PrivateAssoc : r # p => \E q \in 1 .. PrivateAssoc : q # 1 /\ Src(p, q) = r
    BY <2>10 DEF Moved
  <2>5. DOMAIN new = 1 .. PrivateAssoc
    BY <2>4, MESIRowFacts
  <2>6. ASSUME NEW r \in 1 .. PrivateAssoc, NEW q \in 1 .. PrivateAssoc, q < r, new[q].tag = new[r].tag
        PROVE  ~IsValid(new[r])
    <3>1. CASE q = 1
      <4>1. row[Src(p, r)].tag = row[p].tag /\ Src(p, r) # p
        BY <2>4, <2>6, <3>1
      <4>2. p < Src(p, r)
        BY <2>1, <2>4, <4>1
      <4> QED BY <1>1, <2>1, <2>4, <4>1, <4>2 DEF GoodRow, Ordered
    <3>2. CASE q # 1
      <4>1. Src(p, q) < Src(p, r)
        BY <2>4, <2>6, <3>2
      <4> QED BY <1>1, <2>4, <2>6, <4>1 DEF GoodRow, Ordered
    <3> QED BY <3>1, <3>2
  <2>7. GoodRow(new)
    BY <2>4, <2>5, <2>6 DEF GoodRow, Ordered
  <2>8. ASSUME NEW u PROVE StateFor(new, u) = StateFor(row, u)
    <3>1. ASSUME NEW r \in 1 .. PrivateAssoc, row[r].tag = u
          PROVE  \E q \in 1 .. PrivateAssoc : new[q].tag = u /\ new[q].state = row[r].state
      BY <1>1, <2>4, <3>1
    <3>2. ASSUME NEW q \in 1 .. PrivateAssoc, new[q].tag = u, IsValid(new[q])
          PROVE  \E r \in 1 .. PrivateAssoc : row[r].tag = u /\ IsValid(row[r])
      BY <2>4, <3>2
    <3> QED BY <2>7, <3>1, <3>2, SameStates
  <2> QED BY <2>1, <2>2, <2>3, <2>4, <2>7, <2>8
<1> QED BY <1>2, <1>3

(* Giving the valid line in front another state.                           *)
LEMMA SetStateGood ==
  ASSUME NEW row, GoodRow(row), IsValid(row[1]), NEW s \in {"M", "S"}
  PROVE  /\ GoodRow(SetState(row, s))
         /\ \A u : StateFor(SetState(row, s), u) = IF u = row[1].tag THEN s ELSE StateFor(row, u)
<1> DEFINE new == SetState(row, s)
<1>1. row \in MESIRow /\ DOMAIN row = 1 .. PrivateAssoc /\ 1 \in 1 .. PrivateAssoc
  BY MESIRowFacts DEF GoodRow
<1>2. /\ new \in MESIRow
      /\ new[1].tag = row[1].tag /\ new[1].state = s /\ IsValid(new[1])
      /\ \A q \in 1 .. PrivateAssoc : q # 1 => new[q] = row[q]
  BY <1>1 DEF MESIRow, SetState, IsValid, MESIStates
<1> HIDE DEF new
<1>3. DOMAIN new = 1 .. PrivateAssoc
  BY <1>2, MESIRowFacts
<1>4. GoodRow(new)
  <2> SUFFICES ASSUME NEW r \in 1 .. PrivateAssoc, NEW q \in 1 .. PrivateAssoc, q < r,
                      new[q].tag = new[r].tag
               PROVE  ~IsValid(new[r])
    BY <1>2, <1>3 DEF GoodRow, Ordered
  <2>1. r # 1 /\ row[q].tag = row[r].tag
    BY <1>2
  <2> QED BY <1>1, <1>2, <2>1 DEF GoodRow, Ordered
<1>5. StateFor(new, row[1].tag) = s
  BY <1>1, <1>2, <1>4, ValidIsFound
<1>6. ASSUME NEW u, u # row[1].tag PROVE StateFor(new, u) = StateFor(row, u)
  <2>1. \A q \in 1 .. PrivateAssoc : row[q].tag = u \/ new[q].tag = u => new[q] = row[q]
    BY <1>2, <1>6
  <2> QED BY <1>4, <2>1, SameStates
<1> QED BY <1>4, <1>5, <1>6 DEF new

(* Invalidating the line in front.                                         *)
LEMMA InvalidateGood ==
  ASSUME NEW row, GoodRow(row)
  PROVE  /\ GoodRow(Invalidate(row))
         /\ \A u : StateFor(Invalidate(row), u) = IF u = row[1].tag THEN "I" ELSE StateFor(row, u)
<1> DEFINE new == Invalidate(row)
<1>1. row \in MESIRow /\ DOMAIN row = 1 .. PrivateAssoc /\ 1 \in 1 .. PrivateAssoc
  BY MESIRowFacts DEF GoodRow
<1>2. /\ new \in MESIRow
      /\ new[1].tag = row[1].tag /\ ~IsValid(new[1])
      /\ \A q \in 1 .. PrivateAssoc : q # 1 => new[q] = row[q]
  BY <1>1 DEF MESIRow, Invalidate, IsValid, MESIStates
<1> HIDE DEF new
<1>3. DOMAIN new = 1 .. PrivateAssoc
  BY <1>2, MESIRowFacts
<1>4. GoodRow(new)
  <2> SUFFICES ASSUME NEW r \in 1 .. PrivateAssoc, NEW q \in 1 .. PrivateAssoc, q < r,
                      new[q].tag = new[r].tag
               PROVE  ~IsValid(new[r])
    BY <1>2, <1>3 DEF GoodRow, Ordered
  <2>1. r # 1 /\ row[q].tag = row[r].tag
    BY <1>2
  <2> QED BY <1>1, <1>2, <2>1 DEF GoodRow, Ordered
<1>5. StateFor(new, row[1].tag) = "I"
  <2>1. ASSUME NEW q \in 1 .. PrivateAssoc, q # 1, row[q].tag = row[1].tag PROVE ~IsValid(new[q])
    <3>1. 1 < q
      BY <2>1
    <3> QED BY <1>1, <1>2, <2>1, <3>1 DEF GoodRow, Ordered
  <2> QED BY <1>2, <2>1, InvalidNotFound
<1>6. ASSUME NEW u, u # row[1].tag PROVE StateFor(new, u) = StateFor(row, u)
  <2>1. \A q \in 1 .. PrivateAssoc : row[q].tag = u \/ new[q].tag = u => new[q] = row[q]
    BY <1>2, <1>6
  <2> QED BY <1>4, <2>1, SameStates
<1> QED BY <1>4, <1>5, <1>6 DEF new

(* fillLine of a tag that has no valid line: some line makes place, and if *)
(* it was valid its tag is gone.                                           *)
Refilled(row, t, s) ==
  [FindLine2Replace(row, t) EXCEPT ![SlotPos(row, t)] = [@ EXCEPT !.tag = t, !.state = s]]

Replaced(new, row, t, s, v) ==
  \A u : StateFor(new, u) = IF u = t THEN s ELSE IF u = v THEN "I" ELSE StateFor(row, u)

(* What a fill does to a row.                                              *)
LEMMA RefillGood ==
  ASSUME NEW row, GoodRow(row), NEW t \in Tags, StateFor(row, t) = "I", NEW s \in {"M", "E", "S"}
  PROVE  GoodRow(Refilled(row, t, s)) /\ \E v : Replaced(Refilled(row, t, s), row, t, s, v)
<1> DEFINE p == ReplacePos(row, t)
           base == MoveToFront(row, p)
           new == Refilled(row, t, s)
<1>1. row \in MESIRow /\ DOMAIN row = 1 .. PrivateAssoc /\ PrivateAssoc \in Nat \ {0}
      /\ 1 \in 1 .. PrivateAssoc /\ Live(row, t) = {}
  BY MESIRowFacts DEF GoodRow
<1>2. p \in 1 .. PrivateAssoc
  <2>1. Free(row) \in SUBSET Nat /\ Free(row) \subseteq 1 .. PrivateAssoc
    BY <1>1 DEF Free
  <2>2. CASE Free(row) # {}
    <3>1. p = Min(Free(row))
      BY <1>1, <2>2 DEF ReplacePos
    <3>2. Min(Free(row)) \in Free(row)
      BY <2>1, <2>2, MinIn
    <3> QED BY <2>1, <3>1, <3>2
  <2>3. CASE Free(row) = {}
    <3>1. p = Max(DOMAIN row)
      BY <1>1, <2>3 DEF ReplacePos
    <3>2. DOMAIN row \in SUBSET (0 .. PrivateAssoc) /\ DOMAIN row # {} /\ PrivateAssoc \in Nat
      BY <1>1
    <3>3. Max(DOMAIN row) \in DOMAIN row
      BY <3>2, MaxIn
    <3> QED BY <1>1, <3>1, <3>3
  <2> QED BY <2>2, <2>3
<1>3. new = [base EXCEPT ![1] = [@ EXCEPT !.tag = t, !.state = s]]
  BY <1>1 DEF Refilled, FindLine2Replace, SlotPos
<1> HIDE DEF p
<1>13. row \in MESIRow
  BY <1>1
<1>14. Moved(base, row, p)
  BY <1>13, <1>2, MoveMESI
<1> HIDE DEF base
<1>4. /\ base \in MESIRow /\ base[1] = row[p]
      /\ \A q \in 1 .. PrivateAssoc : Src(p, q) \in 1 .. PrivateAssoc /\ base[q] = row[Src(p, q)]
      /\ \A q \in 1 .. PrivateAssoc : q # 1 => Src(p, q) # p
      /\ \A q, r \in 1 .. PrivateAssoc : 1 < q /\ q < r => Src(p, q) < Src(p, r)
      /\ \A r \in 1 .. PrivateAssoc : r # p => \E q \in 1 .. PrivateAssoc : q # 1 /\ Src(p, q) = r
  BY <1>14 DEF Moved
<1>5. /\ new \in MESIRow
      /\ new[1].tag = t /\ new[1].state = s /\ IsValid(new[1])
      /\ \A q \in 1 .. PrivateAssoc : q # 1 => new[q] = base[q]
  <2> DEFINE line == [base[1] EXCEPT !.tag = t, !.state = s]
           R == [tag : Tags, state : MESIStates, islineInvalid : {TRUE}, data : LineData]
  <2>1. DOMAIN base = 1 .. PrivateAssoc /\ new = [base EXCEPT ![1] = line]
    BY <1>3, <1>4, MESIRowFacts
  <2>6. MESIRow = [1 .. PrivateAssoc -> R]
    BY DEF MESIRow
  <2> HIDE DEF new
  <2>7. base[1] \in R /\ s \in MESIStates
    BY <1>1, <1>4, <2>6 DEF MESIStates
  <2>2. line \in R /\ line.tag = t /\ line.state = s
    BY <2>7
  <2>3. IsValid(line)
    BY <2>2 DEF IsValid
  <2> HIDE DEF line
  <2>4. new[1] = line /\ \A q \in 1 .. PrivateAssoc : q # 1 => new[q] = base[q]
    BY <1>1, <2>1
  <2>5. new \in MESIRow
    <3> HIDE DEF R
    <3> QED BY <1>4, <2>1, <2>2, <2>6
  <2> QED BY <2>2, <2>3, <2>4, <2>5
<1> HIDE DEF new
<1>6. DOMAIN new = 1 .. PrivateAssoc
  BY <1>5, MESIRowFacts
<1>7. \A q \in 1 .. PrivateAssoc : row[q].tag = t => ~IsValid(row[q])
  BY ValidIsFound DEF IsValid
<1>8. GoodRow(new)
  <2> SUFFICES ASSUME NEW r \in 1 .. PrivateAssoc, NEW q \in 1 .. PrivateAssoc, q < r,
                      new[q].tag = new[r].tag
               PROVE  ~IsValid(new[r])
    BY <1>5, <1>6 DEF GoodRow, Ordered
  <2>1. r # 1 /\ new[r] = row[Src(p, r)] /\ Src(p, r) \in 1 .. PrivateAssoc
    BY <1>4, <1>5
  <2>2. CASE q = 1
    BY <1>5, <1>7, <2>1, <2>2
  <2>3. CASE q # 1
    <3>1. Src(p, q) < Src(p, r) /\ new[q] = row[Src(p, q)] /\ Src(p, q) \in 1 .. PrivateAssoc
      BY <1>4, <1>5, <2>3
    <3> QED BY <1>1, <2>1, <3>1 DEF GoodRow, Ordered
  <2> QED BY <2>2, <2>3
<1>9. StateFor(new, t) = s
  BY <1>1, <1>5, <1>8, ValidIsFound
<1> DEFINE v == IF IsValid(row[p]) THEN row[p].tag ELSE t
<1>10. ASSUME NEW u, u # t, u = v PROVE StateFor(new, u) = "I"
  <2>1. IsValid(row[p]) /\ row[p].tag = u
    BY <1>10
  <2>2. \A r \in 1 .. PrivateAssoc : row[r].tag = u /\ IsValid(row[r]) => r = p
    BY <1>2, <2>1, ValidIsFound
  <2>3. \A q \in 1 .. PrivateAssoc : new[q].tag = u => ~IsValid(new[q])
    BY <1>4, <1>5, <1>10, <2>2
  <2> QED BY <1>5, <2>3, InvalidNotFound
<1>11. ASSUME NEW u, u # t, u # v PROVE StateFor(new, u) = StateFor(row, u)
  <2>1. ASSUME NEW r \in 1 .. PrivateAssoc, row[r].tag = u, IsValid(row[r])
        PROVE  \E q \in 1 .. PrivateAssoc : new[q].tag = u /\ new[q].state = row[r].state
    <3>1. r # p
      BY <1>11, <2>1
    <3> QED BY <1>4, <1>5, <2>1, <3>1
  <2>2. ASSUME NEW q \in 1 .. PrivateAssoc, new[q].tag = u, IsValid(new[q])
        PROVE  \E r \in 1 .. PrivateAssoc : row[r].tag = u /\ IsValid(row[r])
    BY <1>4, <1>5, <1>11, <2>2
  <2> QED BY <1>8, <2>1, <2>2, SameStates
<1>12. Replaced(new, row, t, s, v)
  BY <1>9, <1>10, <1>11 DEF Replaced
<1> HIDE DEF v
<1> QED BY <1>8, <1>12 DEF new

-----------------------------------------------------------------------------
(* Hierarchies, as functions from CPU, set and tag to states.              *)

Good(h) == h \in [Cpus -> [Sets -> MESIRow]] /\ \A c \in Cpus, s \in Sets : Ordered(h[c][s])

StateAt(h, c, s, u) == StateFor(h[c][s], u)

(* Whoever owns a line is the only one with a valid copy.                  *)
Exclusive(h) ==
  \A c, d \in Cpus, s \in Sets : \A u :
    c # d /\ StateAt(h, c, s, u) \in {"M", "E"} => StateAt(h, d, s, u) = "I"

(* The copies that the siblings of c have of t all went from valid to ans. *)
Answered(g, h, c, t, ans) ==
  \A d \in Cpus, s \in Sets : \A u :
    StateAt(g, d, s, u) = IF d # c /\ s = SetOf(t) /\ u = t /\ StateAt(h, d, s, u) # "I"
                          THEN ans ELSE StateAt(h, d, s, u)

SameAll(g, h) == \A d \in Cpus, s \in Sets : \A u : StateAt(g, d, s, u) = StateAt(h, d, s, u)

(* An access by c to t: c has t in a state, the siblings answered, and c   *)
(* has lost v.                                                             *)
Accessed(g, h, c, t, mine, ans, v) ==
  \A d \in Cpus, s \in Sets : \A u :
    StateAt(g, d, s, u) =
      IF s # SetOf(t) THEN StateAt(h, d, s, u)
      ELSE IF u = t THEN (IF d = c THEN mine ELSE IF StateAt(h, d, s, u) = "I" THEN "I" ELSE ans)
      ELSE IF d = c /\ u = v THEN "I" ELSE StateAt(h, d, s, u)

(* Tags have their set, and rows are good.                                 *)
LEMMA GoodFacts ==
  ASSUME NEW h, Good(h)
  PROVE  /\ \A t \in Tags : SetOf(t) \in Sets
         /\ \A c \in Cpus, s \in Sets : GoodRow(h[c][s])
         /\ \A c \in Cpus, t \in Tags : GoodRow(RowOf(h, c, t)) /\ RowOf(h, c, t) \in MESIRow
         /\ \A c \in Cpus, s \in Sets : \A u : StateAt(h, c, s, u) \in MESIStates
<1>1. ASSUME NEW t \in Tags PROVE SetOf(t) \in Sets
  BY GeometryAssumption DEF Tags, Sets, SetOf
<1>2. \A c \in Cpus, s \in Sets : GoodRow(h[c][s])
  BY DEF Good, GoodRow
<1>3. \A c \in Cpus, t \in Tags : GoodRow(RowOf(h, c, t)) /\ RowOf(h, c, t) \in MESIRow
  BY <1>1, <1>2 DEF RowOf, GoodRow
<1>4. \A c \in Cpus, s \in Sets : \A u : StateAt(h, c, s, u) \in MESIStates
  BY <1>2, MESIRowFacts DEF StateAt, GoodRow
<1> QED BY <1>1, <1>2, <1>3, <1>4

(* Replacing one row by a good one.                                        *)
LEMMA WithRowGood ==
  ASSUME NEW h, Good(h), NEW c \in Cpus, NEW t \in Tags, NEW row, GoodRow(row)
  PROVE  /\ Good(WithRow(h, c, t, row))
         /\ \A d \in Cpus, s \in Sets :
              WithRow(h, c, t, row)[d][s] = IF d = c /\ s = SetOf(t) THEN row ELSE h[d][s]
<1> DEFINE g == WithRow(h, c, t, row)
<1>1. SetOf(t) \in Sets /\ row \in MESIRow /\ Ordered(row)
  BY GoodFacts DEF GoodRow
<1>2. \A d \in Cpus, s \in Sets : g[d][s] = IF d = c /\ s = SetOf(t) THEN row ELSE h[d][s]
  BY <1>1 DEF WithRow, Good
<1>3. g \in [Cpus -> [Sets -> MESIRow]]
  BY <1>1 DEF WithRow, Good
<1>4. \A d \in Cpus, s \in Sets : Ordered(g[d][s])
  BY <1>1, <1>2 DEF Good
<1> QED BY <1>2, <1>3, <1>4 DEF Good

(* A lookup changes no state, and leaves a valid line in front.            *)
LEMMA LookFine ==
  ASSUME NEW h, Good(h), NEW c \in Cpus, NEW t \in Tags
  PROVE  /\ Good(Look(h, c, t)) /\ SameAll(Look(h, c, t), h)
         /\ HitsIn(h, c, t) <=> StateAt(h, c, SetOf(t), t) # "I"
         /\ HitsIn(h, c, t) => StateIn(h, c, t) = StateAt(h, c, SetOf(t), t)
         /\ HitsIn(h, c, t) => /\ RowOf(Look(h, c, t), c, t)[1].tag = t
                               /\ IsValid(RowOf(Look(h, c, t), c, t)[1])
<1> DEFINE row == RowOf(h, c, t)
           new == FindLine(row, t)
           g == Look(h, c, t)
<1>1. GoodRow(row) /\ row \in MESIRow /\ SetOf(t) \in Sets
  BY GoodFacts
<1>2. GoodRow(new) /\ \A u : StateFor(new, u) = StateFor(row, u)
  BY <1>1, LookupGood
<1>3. Hits(row, t) => new[1].tag = t /\ IsValid(new[1])
  BY <1>1, LookupGood
<1>4. Good(g) /\ \A d \in Cpus, s \in Sets :
        g[d][s] = IF d = c /\ s = SetOf(t) THEN new ELSE h[d][s]
  <2> HIDE DEF new
  <2> QED BY <1>2, WithRowGood DEF Look, new
<1>5. SameAll(g, h)
  BY <1>2, <1>4 DEF SameAll, StateAt, RowOf
<1>6. RowOf(g, c, t) = new
  BY <1>1, <1>4 DEF RowOf
<1>7. HitsIn(h, c, t) <=> Hits(row, t)
  BY DEF HitsIn
<1>8. Hits(row, t) <=> StateFor(row, t) # "I"
  BY <1>1, MESIRowFacts
<1>9. StateAt(h, c, SetOf(t), t) = StateFor(row, t)
  BY DEF StateAt, RowOf
<1>10. Hits(row, t) => StateIn(h, c, t) = StateFor(row, t)
  BY DEF StateIn, StateFor, Hits
<1> QED BY <1>3, <1>4, <1>5, <1>6, <1>7, <1>8, <1>9, <1>10

(* The row of a sibling after a snoop whose answer sets a state.           *)
LEMMA AnswerGood ==
  ASSUME NEW row, GoodRow(row), NEW t, Hits(row, t)
  PROVE  /\ GoodRow(SetState(FindLine(row, t), "S")) /\ GoodRow(Invalidate(FindLine(row, t)))
         /\ \A u : StateFor(SetState(FindLine(row, t), "S"), u) =
                     IF u = t THEN "S" ELSE StateFor(row, u)
         /\ \A u : StateFor(Invalidate(FindLine(row, t)), u) =
                     IF u = t THEN "I" ELSE StateFor(row, u)
<1> DEFINE new == FindLine(row, t)
<1>1. GoodRow(new) /\ new[1].tag = t /\ IsValid(new[1]) /\ \A u : StateFor(new, u) = StateFor(row, u)
  BY LookupGood
<1> HIDE DEF new
<1>2. /\ GoodRow(SetState(new, "S"))
      /\ \A u : StateFor(SetState(new, "S"), u) = IF u = new[1].tag THEN "S" ELSE StateFor(new, u)
  BY <1>1, SetStateGood
<1>3. /\ GoodRow(Invalidate(new))
      /\ \A u : StateFor(Invalidate(new), u) = IF u = new[1].tag THEN "I" ELSE StateFor(new, u)
  BY <1>1, InvalidateGood
<1> QED BY <1>1, <1>2, <1>3 DEF new

(* A snoop replaces the rows of those asked, and leaves the others alone.  *)
WithRows(h, t, asked, rows) ==
  [k \in Cpus |-> IF k \in asked THEN WithRow(h, k, t, rows[k])[k] ELSE h[k]]

(* What a snoop does to the states of a line.                              *)
LEMMA SnoopFine ==
  ASSUME NEW h, Good(h), NEW c \in Cpus, NEW t \in Tags, NEW asked \in SUBSET Siblings(c),
         NEW rows, NEW g,
         g = WithRows(h, t, asked, rows),
         \A k \in asked : GoodRow(rows[k])
  PROVE  /\ Good(g)
         /\ \A d \in Cpus, s \in Sets :
              g[d][s] = IF d \in asked /\ s = SetOf(t) THEN rows[d] ELSE h[d][s]
<1>0. g = [k \in Cpus |-> IF k \in asked THEN WithRow(h, k, t, rows[k])[k] ELSE h[k]]
  BY DEF WithRows
<1>1. asked \subseteq Cpus
  BY DEF Siblings
<1>2. ASSUME NEW d \in Cpus, d \in asked
      PROVE  /\ g[d] = WithRow(h, d, t, rows[d])[d] /\ g[d] \in [Sets -> MESIRow]
             /\ \A s \in Sets : /\ g[d][s] = IF s = SetOf(t) THEN rows[d] ELSE h[d][s]
                                /\ Ordered(g[d][s])
  <2>1. GoodRow(rows[d]) /\ g[d] = WithRow(h, d, t, rows[d])[d]
    BY <1>0, <1>2
  <2> DEFINE w == WithRow(h, d, t, rows[d])
  <2>2. Good(w) /\ \A e \in Cpus, s \in Sets :
          w[e][s] = IF e = d /\ s = SetOf(t) THEN rows[d] ELSE h[e][s]
    BY <2>1, WithRowGood
  <2> HIDE DEF w
  <2>3. w[d] \in [Sets -> MESIRow] /\ \A s \in Sets : Ordered(w[d][s])
    BY <2>2 DEF Good
  <2>4. g[d] = w[d]
    BY <2>1 DEF w
  <2> QED BY <2>1, <2>2, <2>3, <2>4
<1>3. ASSUME NEW d \in Cpus, d \notin asked
      PROVE  /\ g[d] = h[d] /\ g[d] \in [Sets -> MESIRow]
             /\ \A s \in Sets : Ordered(g[d][s])
  BY <1>0, <1>3 DEF Good
<1>4. DOMAIN g = Cpus /\ g = [k \in Cpus |-> g[k]]
  BY <1>0
<1>5. g \in [Cpus -> [Sets -> MESIRow]]
  BY <1>2, <1>3, <1>4
<1> QED BY <1>2, <1>3, <1>5 DEF Good

(* After a read's snoop no sibling owns the line: if one did, it was the   *)
(* only one with a valid copy, and so the one that the snoop reached.      *)
LEMMA ReadSnoop ==
  ASSUME NEW h, Good(h), Exclusive(h), NEW c \in Cpus, NEW t \in Tags
  PROVE  /\ Good(ReadRemoteAction(h, c, t)) /\ Answered(ReadRemoteAction(h, c, t), h, c, t, "S")
         /\ ProvidedData(h, c, t) <=> \E d \in Siblings(c) : StateAt(h, d, SetOf(t), t) # "I"
<1> DEFINE asked == Asked(h, c, t)
           copies == ValidCopies(h, c, t)
           rows == [k \in Cpus |-> IF HitsIn(h, k, t) THEN SetState(FindLine(RowOf(h, k, t), t), "S")
                                                      ELSE FindLine(RowOf(h, k, t), t)]
           g == ReadRemoteAction(h, c, t)
<1>1. SetOf(t) \in Sets /\ \A k \in Cpus : GoodRow(RowOf(h, k, t))
  BY GoodFacts
<1>2. asked \in SUBSET Siblings(c) /\ asked \subseteq Cpus
  BY DEF Asked, Siblings
<1>3. g = WithRows(h, t, asked, rows)
  BY DEF WithRows, ReadRemoteAction, Snooped, HitsIn
<1>4. ASSUME NEW k \in Cpus
      PROVE  /\ GoodRow(rows[k])
             /\ \A u : StateFor(rows[k], u) =
                         IF u = t /\ StateAt(h, k, SetOf(t), t) # "I" THEN "S"
                         ELSE StateAt(h, k, SetOf(t), u)
  <2> DEFINE row == RowOf(h, k, t)
  <2>1. GoodRow(row) /\ \A u : StateAt(h, k, SetOf(t), u) = StateFor(row, u)
    BY <1>1 DEF StateAt, RowOf
  <2>2. Hits(row, t) <=> StateFor(row, t) # "I"
    BY <2>1, MESIRowFacts DEF GoodRow
  <2>3. CASE Hits(row, t)
    <3>1. rows[k] = SetState(FindLine(row, t), "S")
      BY <2>3 DEF HitsIn
    <3> HIDE DEF row, rows
    <3> QED BY <2>1, <2>2, <2>3, <3>1, AnswerGood
  <2>4. CASE ~Hits(row, t)
    <3>1. rows[k] = FindLine(row, t)
      BY <2>4 DEF HitsIn
    <3> HIDE DEF row, rows
    <3> QED BY <2>1, <2>2, <2>4, <3>1, LookupGood
  <2> QED BY <2>3, <2>4
<1> HIDE DEF rows, g
<1>5. \A k \in asked : GoodRow(rows[k])
  BY <1>2, <1>4
<1>6. Good(g) /\ \A d \in Cpus, s \in Sets :
        g[d][s] = IF d \in asked /\ s = SetOf(t) THEN rows[d] ELSE h[d][s]
  <2> HIDE DEF asked
  <2> QED BY <1>2, <1>3, <1>5, SnoopFine
<1>7. copies = {o \in Siblings(c) : StateAt(h, o, SetOf(t), t) # "I"}
  BY LookFine DEF ValidCopies, Siblings
<1>8. ASSUME NEW d \in Cpus, d # c, StateAt(h, d, SetOf(t), t) # "I"
      PROVE  d \in asked \/ StateAt(h, d, SetOf(t), t) = "S"
  <2>1. d \in copies /\ copies # {}
    BY <1>7, <1>8 DEF Siblings
  <2>2. copies \in SUBSET Nat
    BY MESIAssumption DEF ValidCopies, Siblings, Cpus
  <2>3. Min(copies) \in copies /\ \A o \in copies : Min(copies) <= o
    BY <2>1, <2>2, MinIn
  <2>4. asked = {o \in Siblings(c) : o <= Min(copies)}
    BY <2>1 DEF Asked
  <2>5. CASE d = Min(copies)
    BY <2>1, <2>2, <2>4, <2>5, <1>7
  <2>6. CASE d # Min(copies)
    <3> DEFINE o == Min(copies)
    <3>1. o \in Cpus /\ StateAt(h, o, SetOf(t), t) # "I"
      BY <2>3, <1>7 DEF Siblings
    <3>2. StateAt(h, d, SetOf(t), t) \notin {"M", "E"}
      BY <1>1, <2>6, <3>1 DEF Exclusive
    <3>3. StateAt(h, d, SetOf(t), t) \in MESIStates
      BY <1>1, GoodFacts
    <3> QED BY <1>8, <3>2, <3>3 DEF MESIStates
  <2> QED BY <2>5, <2>6
<1>9. Answered(g, h, c, t, "S")
  <2> SUFFICES ASSUME NEW d \in Cpus, NEW s \in Sets, NEW u
               PROVE  StateAt(g, d, s, u) =
                        IF d # c /\ s = SetOf(t) /\ u = t /\ StateAt(h, d, s, u) # "I"
                        THEN "S" ELSE StateAt(h, d, s, u)
    BY DEF Answered
  <2>1. CASE d \in asked /\ s = SetOf(t)
    <3>1. d # c
      BY <1>2, <2>1 DEF Siblings
    <3>2. StateAt(g, d, s, u) = StateFor(rows[d], u)
      BY <1>6, <2>1 DEF StateAt
    <3> HIDE DEF asked
    <3> QED BY <1>4, <2>1, <3>1, <3>2
  <2>2. CASE ~(d \in asked /\ s = SetOf(t))
    <3>1. StateAt(g, d, s, u) = StateAt(h, d, s, u)
      BY <1>6, <2>2 DEF StateAt
    <3> HIDE DEF asked
    <3> QED BY <1>8, <2>2, <3>1
  <2> QED BY <2>1, <2>2
<1>10. ProvidedData(h, c, t) <=> copies # {}
  BY DEF ProvidedData
<1>11. ProvidedData(h, c, t) <=> \E d \in Siblings(c) : StateAt(h, d, SetOf(t), t) # "I"
  BY <1>7, <1>10
<1> QED BY <1>6, <1>9, <1>11 DEF g

(* After a write's snoop no sibling has the line.                          *)
LEMMA WriteSnoop ==
  ASSUME NEW h, Good(h), NEW c \in Cpus, NEW t \in Tags
  PROVE  /\ Good(WriteRemoteAction(h, c, t)) /\ Answered(WriteRemoteAction(h, c, t), h, c, t, "I")
         /\ RowOf(WriteRemoteAction(h, c, t), c, t) = RowOf(h, c, t)
<1> DEFINE asked == Siblings(c)
           rows == [k \in Cpus |-> IF HitsIn(h, k, t) THEN Invalidate(FindLine(RowOf(h, k, t), t))
                                                      ELSE FindLine(RowOf(h, k, t), t)]
           g == WriteRemoteAction(h, c, t)
<1>1. SetOf(t) \in Sets /\ \A k \in Cpus : GoodRow(RowOf(h, k, t))
  BY GoodFacts
<1>2. asked \in SUBSET Siblings(c) /\ asked \subseteq Cpus
  BY DEF Siblings
<1>3. g = WithRows(h, t, asked, rows)
  BY DEF WithRows, WriteRemoteAction, Snooped, HitsIn
<1>4. ASSUME NEW k \in Cpus
      PROVE  /\ GoodRow(rows[k])
             /\ \A u : StateFor(rows[k], u) = IF u = t THEN "I" ELSE StateAt(h, k, SetOf(t), u)
  <2> DEFINE row == RowOf(h, k, t)
  <2>1. GoodRow(row) /\ \A u : StateAt(h, k, SetOf(t), u) = StateFor(row, u)
    BY <1>1 DEF StateAt, RowOf
  <2>2. Hits(row, t) <=> StateFor(row, t) # "I"
    BY <2>1, MESIRowFacts DEF GoodRow
  <2>3. CASE Hits(row, t)
    <3>1. rows[k] = Invalidate(FindLine(row, t))
      BY <2>3 DEF HitsIn
    <3> HIDE DEF row, rows
    <3> QED BY <2>1, <2>2, <2>3, <3>1, AnswerGood
  <2>4. CASE ~Hits(row, t)
    <3>1. rows[k] = FindLine(row, t)
      BY <2>4 DEF HitsIn
    <3> HIDE DEF row, rows
    <3> QED BY <2>1, <2>2, <2>4, <3>1, LookupGood
  <2> QED BY <2>3, <2>4
<1> HIDE DEF rows, g
<1>5. \A k \in asked : GoodRow(rows[k])
  BY <1>2, <1>4
<1>6. Good(g) /\ \A d \in Cpus, s \in Sets :
        g[d][s] = IF d \in asked /\ s = SetOf(t) THEN rows[d] ELSE h[d][s]
  BY <1>2, <1>3, <1>5, SnoopFine
<1>7. Answered(g, h, c, t, "I")
  <2> SUFFICES ASSUME NEW d \in Cpus, NEW s \in Sets, NEW u
               PROVE  StateAt(g, d, s, u) =
                        IF d # c /\ s = SetOf(t) /\ u = t /\ StateAt(h, d, s, u) # "I"
                        THEN "I" ELSE StateAt(h, d, s, u)
    BY DEF Answered
  <2>1. CASE d # c /\ s = SetOf(t)
    <3>1. StateAt(g, d, s, u) = StateFor(rows[d], u)
      BY <1>6, <2>1 DEF StateAt, Siblings
    <3> QED BY <1>4, <2>1, <3>1
  <2>2. CASE ~(d # c /\ s = SetOf(t))
    <3>1. StateAt(g, d, s, u) = StateAt(h, d, s, u)
      BY <1>6, <2>2 DEF StateAt, Siblings
    <3> QED BY <2>2, <3>1
  <2> QED BY <2>1, <2>2
<1>8. RowOf(g, c, t) = RowOf(h, c, t)
  BY <1>1, <1>6 DEF RowOf, Siblings
<1> QED BY <1>6, <1>7, <1>8 DEF g

(* Filling a line that the cache does not have; v makes place.             *)
Filled(g, h, c, t, mine, v) ==
  \A d \in Cpus, s \in Sets : \A u :
    StateAt(g, d, s, u) = IF d = c /\ s = SetOf(t) /\ u = t THEN mine
                          ELSE IF d = c /\ s = SetOf(t) /\ u = v THEN "I" ELSE StateAt(h, d, s, u)

(* What a fill does to them.                                               *)
LEMMA FillFine ==
  ASSUME NEW h, Good(h), NEW c \in Cpus, NEW t \in Tags, StateAt(h, c, SetOf(t), t) = "I",
         NEW s \in {"M", "E", "S"}
  PROVE  Good(FillLine(h, c, t, s)) /\ \E v : Filled(FillLine(h, c, t, s), h, c, t, s, v)
<1> DEFINE row == RowOf(h, c, t)
           new == Refilled(row, t, s)
           g == FillLine(h, c, t, s)
<1>1. GoodRow(row) /\ SetOf(t) \in Sets /\ \A u : StateAt(h, c, SetOf(t), u) = StateFor(row, u)
  BY GoodFacts DEF StateAt, RowOf
<1>2. g = WithRow(h, c, t, new)
  BY DEF FillLine, Refilled
<1> HIDE DEF row
<1>3. GoodRow(new) /\ \E v : Replaced(new, row, t, s, v)
  <2>1. GoodRow(row) /\ StateFor(row, t) = "I"
    BY <1>1
  <2> QED BY <2>1, RefillGood
<1> HIDE DEF new, g
<1>4. PICK v : Replaced(new, row, t, s, v)
  BY <1>3
<1>5. Good(g) /\ \A d \in Cpus, r \in Sets :
        g[d][r] = IF d = c /\ r = SetOf(t) THEN new ELSE h[d][r]
  BY <1>2, <1>3, WithRowGood
<1>6. Filled(g, h, c, t, s, v)
  BY <1>1, <1>4, <1>5 DEF StateAt, Filled, Replaced
<1> QED BY <1>5, <1>6 DEF g

-----------------------------------------------------------------------------
(* Accesses.                                                               *)

(* What an access by c to t can be: a reader that had the line, a new      *)
(* reader, or a writer.                                                    *)
OldReader(g, h, c, t) == StateAt(h, c, SetOf(t), t) # "I" /\ SameAll(g, h)
HeldByOthers(h, c, t) == \E d \in Siblings(c) : StateAt(h, d, SetOf(t), t) # "I"
NewReader(g, h, c, t) ==
  /\ StateAt(h, c, SetOf(t), t) = "I"
  /\ \E v : Accessed(g, h, c, t, IF HeldByOthers(h, c, t) THEN "S" ELSE "E", "S", v)
Writer(g, h, c, t) == \E v : Accessed(g, h, c, t, "M", "I", v)
Access(g, h, c, t) ==
  Good(g) /\ (OldReader(g, h, c, t) \/ NewReader(g, h, c, t) \/ Writer(g, h, c, t))

(* A read miss makes a reader of the CPU.                                  *)
LEMMA ReadMissFine ==
  ASSUME NEW h, Good(h), Exclusive(h), NEW c \in Cpus, NEW t \in Tags, ~HitsIn(h, c, t)
  PROVE  Access(ReadMissOf(h, c, t), h, c, t)
<1> DEFINE looked == Look(h, c, t)
           asked == ReadRemoteAction(looked, c, t)
           mine == FillState(ProvidedData(looked, c, t))
           g == ReadMissOf(h, c, t)
<1>1. SetOf(t) \in Sets
  BY GoodFacts
<1>2. Good(looked) /\ SameAll(looked, h) /\ StateAt(h, c, SetOf(t), t) = "I"
  BY LookFine
<1>3. g = FillLine(asked, c, t, mine)
  BY DEF ReadMissOf
<1>4. mine \in {"M", "E", "S"} /\ mine = IF ProvidedData(looked, c, t) THEN "S" ELSE "E"
  BY DEF FillState
<1> HIDE DEF looked, g
<1>5. Exclusive(looked)
  BY <1>2 DEF SameAll, Exclusive
<1>6. /\ Good(asked) /\ Answered(asked, looked, c, t, "S")
      /\ ProvidedData(looked, c, t) <=> \E d \in Siblings(c) : StateAt(looked, d, SetOf(t), t) # "I"
  BY <1>2, <1>5, ReadSnoop
<1> HIDE DEF asked
<1>7. StateAt(asked, c, SetOf(t), t) = "I"
  BY <1>1, <1>2, <1>6 DEF Answered, SameAll
<1>8. mine = IF HeldByOthers(h, c, t) THEN "S" ELSE "E"
  BY <1>1, <1>2, <1>4, <1>6 DEF SameAll, HeldByOthers, Siblings
<1> HIDE DEF mine
<1>9. Good(g) /\ \E v : Filled(g, asked, c, t, mine, v)
  BY <1>3, <1>4, <1>6, <1>7, FillFine
<1>10. PICK v : Filled(g, asked, c, t, mine, v)
  BY <1>9
<1>11. Accessed(g, h, c, t, mine, "S", v)
  BY <1>2, <1>6, <1>10 DEF Accessed, Filled, Answered, SameAll
<1>12. NewReader(g, h, c, t)
  BY <1>2, <1>8, <1>11 DEF NewReader
<1> QED BY <1>9, <1>12 DEF Access, g

(* A write miss makes it the writer.                                       *)
LEMMA WriteMissFine ==
  ASSUME NEW h, Good(h), NEW c \in Cpus, NEW t \in Tags, ~HitsIn(h, c, t)
  PROVE  Access(WriteMissOf(h, c, t), h, c, t)
<1> DEFINE looked == Look(h, c, t)
           asked == WriteRemoteAction(looked, c, t)
           g == WriteMissOf(h, c, t)
<1>1. SetOf(t) \in Sets
  BY GoodFacts
<1>2. Good(looked) /\ SameAll(looked, h) /\ StateAt(h, c, SetOf(t), t) = "I"
  BY LookFine
<1>3. g = FillLine(asked, c, t, "M")
  BY DEF WriteMissOf
<1> HIDE DEF looked, g
<1>4. Good(asked) /\ Answered(asked, looked, c, t, "I")
  BY <1>2, WriteSnoop
<1> HIDE DEF asked
<1>5. StateAt(asked, c, SetOf(t), t) = "I"
  BY <1>1, <1>2, <1>4 DEF Answered, SameAll
<1>6. Good(g) /\ \E v : Filled(g, asked, c, t, "M", v)
  BY <1>3, <1>4, <1>5, FillFine
<1>7. PICK v : Filled(g, asked, c, t, "M", v)
  BY <1>6
<1>8. Accessed(g, h, c, t, "M", "I", v)
  BY <1>2, <1>4, <1>7 DEF Accessed, Filled, Answered, SameAll
<1> QED BY <1>6, <1>8 DEF Access, Writer, g

(* So does a write to a copy that is shared.                               *)
LEMMA WriteCoherenceMissFine ==
  ASSUME NEW h, Good(h), NEW c \in Cpus, NEW t \in Tags, HitsIn(h, c, t)
  PROVE  Access(WriteCoherenceMissOf(h, c, t), h, c, t)
<1> DEFINE looked == Look(h, c, t)
           asked == WriteRemoteAction(looked, c, t)
           row == RowOf(asked, c, t)
           new == SetState(row, "M")
           g == WriteCoherenceMissOf(h, c, t)
<1>1. SetOf(t) \in Sets
  BY GoodFacts
<1>2. /\ Good(looked) /\ SameAll(looked, h)
      /\ RowOf(looked, c, t)[1].tag = t /\ IsValid(RowOf(looked, c, t)[1])
  BY LookFine
<1>3. g = WithRow(asked, c, t, new)
  BY DEF WriteCoherenceMissOf, Owned
<1> HIDE DEF looked, g
<1>4. Good(asked) /\ Answered(asked, looked, c, t, "I") /\ row = RowOf(looked, c, t)
  BY <1>2, WriteSnoop
<1> HIDE DEF asked
<1>5. GoodRow(row) /\ row[1].tag = t /\ IsValid(row[1])
  BY <1>2, <1>4, GoodFacts
<1>6. \A u : StateAt(asked, c, SetOf(t), u) = StateFor(row, u)
  BY DEF StateAt, RowOf
<1> HIDE DEF row
<1>7. GoodRow(new) /\ \A u : StateFor(new, u) = IF u = t THEN "M" ELSE StateFor(row, u)
  BY <1>5, SetStateGood
<1> HIDE DEF new
<1>8. Good(g) /\ \A d \in Cpus, s \in Sets :
        g[d][s] = IF d = c /\ s = SetOf(t) THEN new ELSE asked[d][s]
  BY <1>3, <1>4, <1>7, WithRowGood
<1>9. Filled(g, asked, c, t, "M", t)
  BY <1>6, <1>7, <1>8 DEF StateAt, Filled
<1>10. Accessed(g, h, c, t, "M", "I", t)
  BY <1>2, <1>4, <1>9 DEF Accessed, Filled, Answered, SameAll
<1> QED BY <1>8, <1>10 DEF Access, Writer, g

(* A hit only looks.                                                       *)
LEMMA HitsFine ==
  ASSUME NEW h, Good(h), NEW c \in Cpus, NEW t \in Tags, HitsIn(h, c, t)
  PROVE  Access(Look(h, c, t), h, c, t)
BY LookFine DEF Access, OldReader

(* Every step is an access.                                                *)
LEMMA StepIsAccess ==
  ASSUME Good(caches), Exclusive(caches), NEW c \in Cpus, NEW l \in Lines,
         ReadHit(c, l) \/ ReadMiss(c, l) \/ WriteMiss(c, l) \/ WriteCoherenceMiss(c, l) \/ WriteHit(c, l)
  PROVE  CalcTag(l) \in Tags /\ Access(caches', caches, c, CalcTag(l))
<1>1. CalcTag(l) \in Tags
  BY GeometryAssumption, MESIAssumption DEF Tags, CalcTag
<1> DEFINE t == CalcTag(l)
<1> HIDE DEF t
<1>2. CASE ReadHit(c, l)
  BY <1>1, <1>2, HitsFine DEF ReadHit, t
<1>3. CASE ReadMiss(c, l)
  BY <1>1, <1>3, ReadMissFine DEF ReadMiss, t
<1>4. CASE WriteMiss(c, l)
  BY <1>1, <1>4, WriteMissFine DEF WriteMiss, t
<1>5. CASE WriteCoherenceMiss(c, l)
  BY <1>1, <1>5, WriteCoherenceMissFine DEF WriteCoherenceMiss, t
<1>6. CASE WriteHit(c, l)
  BY <1>1, <1>6, HitsFine DEF WriteHit, t
<1> QED BY <1>1, <1>2, <1>3, <1>4, <1>5, <1>6 DEF t

(* Accesses keep the owners exclusive.                                     *)
LEMMA AccessExclusive ==
  ASSUME NEW h, Good(h), Exclusive(h), NEW g, NEW c \in Cpus, NEW t \in Tags, Access(g, h, c, t)
  PROVE  Exclusive(g)
<1> SUFFICES ASSUME NEW d \in Cpus, NEW e \in Cpus, NEW s \in Sets, NEW u,
                    d # e, StateAt(g, d, s, u) \in {"M", "E"}
             PROVE  StateAt(g, e, s, u) = "I"
  BY DEF Exclusive
<1>1. StateAt(h, d, s, u) \in {"M", "E"} => StateAt(h, e, s, u) = "I"
  BY DEF Exclusive
<1>2. CASE OldReader(g, h, c, t)
  BY <1>1, <1>2 DEF OldReader, SameAll
<1>3. CASE NewReader(g, h, c, t)
  <2> DEFINE mine == IF HeldByOthers(h, c, t) THEN "S" ELSE "E"
  <2>1. PICK v : Accessed(g, h, c, t, mine, "S", v)
    BY <1>3 DEF NewReader
  <2>2. HeldByOthers(h, c, t) => mine = "S"
    OBVIOUS
  <2>3. ~HeldByOthers(h, c, t) => \A k \in Cpus : k # c => StateAt(h, k, SetOf(t), t) = "I"
    BY DEF HeldByOthers, Siblings
  <2> HIDE DEF mine
  <2>4. StateAt(g, d, s, u) =
          IF s # SetOf(t) THEN StateAt(h, d, s, u)
          ELSE IF u = t THEN (IF d = c THEN mine ELSE IF StateAt(h, d, s, u) = "I" THEN "I" ELSE "S")
          ELSE IF d = c /\ u = v THEN "I" ELSE StateAt(h, d, s, u)
    BY <2>1 DEF Accessed
  <2>5. StateAt(g, e, s, u) =
          IF s # SetOf(t) THEN StateAt(h, e, s, u)
          ELSE IF u = t THEN (IF e = c THEN mine ELSE IF StateAt(h, e, s, u) = "I" THEN "I" ELSE "S")
          ELSE IF e = c /\ u = v THEN "I" ELSE StateAt(h, e, s, u)
    BY <2>1 DEF Accessed
  <2> QED BY <1>1, <2>2, <2>3, <2>4, <2>5
<1>4. CASE Writer(g, h, c, t)
  <2>1. PICK v : Accessed(g, h, c, t, "M", "I", v)
    BY <1>4 DEF Writer
  <2> QED BY <1>1, <2>1 DEF Accessed
<1> QED BY <1>2, <1>3, <1>4 DEF Access

-----------------------------------------------------------------------------
(* The invariants.                                                         *)

MESIInv == Good(caches) /\ Exclusive(caches)

(* It holds at the start.                                                  *)
LEMMA MESIInitially == Init => MESIInv
<1> SUFFICES ASSUME Init PROVE MESIInv
  OBVIOUS
<1>1. /\ ColdLine \in [tag : Tags, state : MESIStates, islineInvalid : {TRUE}, data : LineData]
      /\ ColdLine.state = "I"
  <2>1. 0 \in Tags
    BY GeometryAssumption DEF Tags
  <2>2. NaNLine \in LineData
    BY DEF NaNLine, LineData
  <2> QED BY <2>1, <2>2 DEF ColdLine, MESIStates
<1>2. \A c \in Cpus, s \in Sets : caches[c][s] \in MESIRow
      /\ \A p \in 1 .. PrivateAssoc : ~IsValid(caches[c][s][p])
  BY <1>1 DEF Init, MESIRow, IsValid
<1>3. caches \in [Cpus -> [Sets -> MESIRow]]
  BY <1>1 DEF Init, MESIRow
<1>4. \A c \in Cpus, s \in Sets : Ordered(caches[c][s])
  BY <1>2, MESIRowFacts DEF Ordered
<1>5. \A c \in Cpus, s \in Sets : \A u : StateAt(caches, c, s, u) = "I"
  BY <1>2, InvalidNotFound DEF StateAt
<1> QED BY <1>3, <1>4, <1>5 DEF MESIInv, Good, Exclusive

(* Every step keeps it.                                                    *)
LEMMA MESIStep == MESIInv /\ [Next]_caches => MESIInv'
<1> SUFFICES ASSUME MESIInv, [Next]_caches PROVE MESIInv'
  OBVIOUS
<1>1. CASE Next
  <2>1. PICK c \in Cpus, l \in Lines :
          ReadHit(c, l) \/ ReadMiss(c, l) \/ WriteMiss(c, l) \/ WriteCoherenceMiss(c, l) \/ WriteHit(c, l)
    BY <1>1 DEF Next
  <2>2. CalcTag(l) \in Tags /\ Access(caches', caches, c, CalcTag(l))
    BY <2>1, StepIsAccess DEF MESIInv
  <2>3. Exclusive(caches') /\ Good(caches')
    BY <2>2, AccessExclusive DEF MESIInv, Access
  <2> QED BY <2>3 DEF MESIInv, Good, Exclusive, StateAt
<1>2. CASE UNCHANGED caches
  BY <1>2 DEF MESIInv, Good, Exclusive, StateAt
<1> QED BY <1>1, <1>2

(* So it always holds.                                                     *)
LEMMA MESIAlways == Spec => []MESIInv
BY MESIInitially, MESIStep, PTL DEF Spec

(* Type invariant of the MESI caches: whatever fillLine and the snoops do  *)
(* to a row, it keeps its ways, its lines their fields.                    *)
THEOREM MESITypeCorrect == Spec => []MESITypeOK
<1>1. MESIInv => MESITypeOK
  BY DEF MESIInv, Good, MESITypeOK
<1> QED BY <1>1, MESIAlways, PTL

(* A lookup finds the one valid copy of a line that a row of a MESI cache  *)
(* has: no dead line of the tag ever stands before it.                     *)
THEOREM LookupsFindTheCopy == Spec => []ValidCopyFound
<1>1. MESIInv => ValidCopyFound
  BY ValidIsFound, GoodFacts DEF MESIInv, ValidCopyFound
<1> QED BY <1>1, MESIAlways, PTL

(* A modified or exclusive copy is alone: readRemoteAction and             *)
(* writeRemoteAction reach every copy that they concern.                   *)
THEOREM ExclusiveIsAlone == Spec => []ExclusiveAlone
<1>1. ASSUME MESIInv PROVE ExclusiveAlone
  <2> SUFFICES ASSUME NEW c \in Cpus, NEW d \in Cpus, NEW s \in Sets,
                      NEW p \in 1 .. PrivateAssoc, NEW q \in 1 .. PrivateAssoc, c # d,
                      caches[c][s][p].state \in {"M", "E"}, caches[c][s][p].tag = caches[d][s][q].tag
               PROVE  ~IsValid(caches[d][s][q])
    BY DEF ExclusiveAlone
  <2> DEFINE u == caches[c][s][p].tag
  <2>1. GoodRow(caches[c][s]) /\ GoodRow(caches[d][s])
    BY <1>1, GoodFacts DEF MESIInv
  <2>2. StateAt(caches, c, s, u) \in {"M", "E"}
    BY <2>1, ValidIsFound DEF StateAt, IsValid
  <2>3. StateAt(caches, d, s, u) = "I"
    BY <1>1, <2>2 DEF MESIInv, Exclusive
  <2> QED BY <2>1, <2>3, ValidIsFound DEF StateAt, IsValid
<1> QED BY <1>1, MESIAlways, PTL

-----------------------------------------------------------------------------
(* The permissions.                                                        *)

(* No two lines of the program have the same tag: their addresses differ   *)
(* in the 32 bits that the tag keeps.                                      *)
NoAliases == \A k, l \in Lines : CalcTag(k) = CalcTag(l) => k = l

HoldersOf(h, t) == {c \in Cpus : StateAt(h, c, SetOf(t), t) # "I"}
OwnersOf(h, t) == {c \in Cpus : StateAt(h, c, SetOf(t), t) \in {"M", "E"}}
OwnerOf(h, t) == IF OwnersOf(h, t) = {} THEN NOBODY ELSE Min(OwnersOf(h, t))
PermOf(h, t) == [holders |-> HoldersOf(h, t), owner |-> OwnerOf(h, t)]
PermsOf(h) == [l \in Lines |-> PermOf(h, CalcTag(l))]

(* Permissions are read off the states that lookups find.                  *)
LEMMA PermissionsAreStates ==
  ASSUME Good(caches)
  PROVE  [l \in Lines |-> Permission(l)] = PermsOf(caches)
<1> SUFFICES ASSUME NEW l \in Lines PROVE Permission(l) = PermOf(caches, CalcTag(l))
  BY DEF PermsOf
<1> DEFINE t == CalcTag(l)
<1>1. t \in Tags /\ SetOf(t) \in Sets
  BY GeometryAssumption, MESIAssumption, GoodFacts DEF Tags, CalcTag
<1>2. ASSUME NEW c \in Cpus
      PROVE  /\ (\E p \in 1 .. PrivateAssoc :
                   LET line == caches[c][SetOf(t)][p] IN line.tag = t /\ IsValid(line))
                <=> StateAt(caches, c, SetOf(t), t) # "I"
             /\ (\E p \in 1 .. PrivateAssoc :
                   LET line == caches[c][SetOf(t)][p] IN line.tag = t /\ line.state \in {"M", "E"})
                <=> StateAt(caches, c, SetOf(t), t) \in {"M", "E"}
  <2> DEFINE row == caches[c][SetOf(t)]
  <2>1. GoodRow(row) /\ row \in MESIRow
    BY <1>1, GoodFacts DEF GoodRow
  <2>2. StateAt(caches, c, SetOf(t), t) = StateFor(row, t)
    BY DEF StateAt
  <2> HIDE DEF row
  <2>3. ASSUME NEW p \in 1 .. PrivateAssoc, row[p].tag = t, IsValid(row[p])
        PROVE  StateFor(row, t) = row[p].state
    BY <2>1, <2>3, ValidIsFound
  <2>4. ASSUME StateFor(row, t) # "I"
        PROVE  \E p \in 1 .. PrivateAssoc :
                 row[p].tag = t /\ IsValid(row[p]) /\ row[p].state = StateFor(row, t)
    BY <2>1, <2>4, FoundIsThere
  <2>5. (\E p \in 1 .. PrivateAssoc : row[p].tag = t /\ IsValid(row[p])) <=> StateFor(row, t) # "I"
    BY <2>3, <2>4 DEF IsValid
  <2>6. (\E p \in 1 .. PrivateAssoc : row[p].tag = t /\ row[p].state \in {"M", "E"})
        <=> StateFor(row, t) \in {"M", "E"}
    BY <2>3, <2>4 DEF IsValid
  <2> QED BY <2>2, <2>5, <2>6 DEF row
<1>3. Copies(l) = HoldersOf(caches, t) /\ Owners(l) = OwnersOf(caches, t)
  BY <1>2 DEF Copies, Owners, HoldersOf, OwnersOf
<1> QED BY <1>3 DEF Permission, PermOf, OwnerOf

(* There is at most one owner, and it is the one named.                    *)
LEMMA OwnerIs ==
  ASSUME NEW h, Exclusive(h), NEW t, SetOf(t) \in Sets
  PROVE  /\ OwnersOf(h, t) = {} => OwnerOf(h, t) = NOBODY
         /\ \A c \in Cpus : c \in OwnersOf(h, t) => OwnersOf(h, t) = {c} /\ OwnerOf(h, t) = c
         /\ NOBODY \notin Cpus
<1>1. OwnersOf(h, t) = {} => OwnerOf(h, t) = NOBODY
  BY DEF OwnerOf
<1>2. ASSUME NEW c \in Cpus, c \in OwnersOf(h, t)
      PROVE  OwnersOf(h, t) = {c} /\ OwnerOf(h, t) = c
  <2>1. OwnersOf(h, t) = {c}
    BY <1>2 DEF OwnersOf, Exclusive
  <2>2. OwnersOf(h, t) \in SUBSET Nat
    BY MESIAssumption DEF OwnersOf, Cpus
  <2>3. Min(OwnersOf(h, t)) \in OwnersOf(h, t)
    BY <1>2, <2>2, MinIn
  <2>4. OwnerOf(h, t) = Min(OwnersOf(h, t))
    BY <1>2 DEF OwnerOf
  <2> QED BY <2>1, <2>3, <2>4
<1>3. NOBODY \notin Cpus
  BY MESIAssumption DEF NOBODY, Cpus
<1> QED BY <1>1, <1>2, <1>3

(* Losing a line is giving it up.                                          *)
LEMMA LosingIsGivingUp ==
  ASSUME NEW h, Exclusive(h), NEW g, Exclusive(g), NEW c \in Cpus, NEW t, SetOf(t) \in Sets,
         \A d \in Cpus : StateAt(g, d, SetOf(t), t) =
                           IF d = c THEN "I" ELSE StateAt(h, d, SetOf(t), t)
  PROVE  PermOf(g, t) = Permissions!GivenUp(PermOf(h, t), c)
<1>1. HoldersOf(g, t) = HoldersOf(h, t) \ {c} /\ OwnersOf(g, t) = OwnersOf(h, t) \ {c}
  BY DEF HoldersOf, OwnersOf
<1>2. OwnerOf(g, t) = IF OwnerOf(h, t) = c THEN NOBODY ELSE OwnerOf(h, t)
  <2>1. CASE OwnersOf(h, t) = {}
    BY <1>1, <2>1, OwnerIs
  <2>2. CASE OwnersOf(h, t) # {}
    <3>1. PICK o \in Cpus : o \in OwnersOf(h, t)
      BY <2>2 DEF OwnersOf
    <3>2. OwnersOf(h, t) = {o} /\ OwnerOf(h, t) = o
      BY <3>1, OwnerIs
    <3>3. CASE o = c
      BY <1>1, <3>2, <3>3, OwnerIs
    <3>4. CASE o # c
      <4>1. o \in OwnersOf(g, t)
        BY <1>1, <3>1, <3>4
      <4>2. OwnerOf(g, t) = o
        BY <4>1, OwnerIs
      <4> QED BY <3>2, <3>4, <4>2
    <3> QED BY <3>3, <3>4
  <2> QED BY <2>1, <2>2
<1> QED BY <1>1, <1>2 DEF PermOf, Permissions!GivenUp

(* Lines whose states are the same have the same permissions.              *)
LEMMA SamePerm ==
  ASSUME NEW h, NEW g, NEW t,
         \A d \in Cpus : StateAt(g, d, SetOf(t), t) = StateAt(h, d, SetOf(t), t)
  PROVE  PermOf(g, t) = PermOf(h, t)
BY DEF PermOf, OwnerOf, HoldersOf, OwnersOf

(* An access by c to l is one of the accesses that permissions allow.      *)
LEMMA AccessIsPermitted ==
  ASSUME NoAliases, NEW h, Good(h), Exclusive(h), NEW g, NEW c \in Cpus, NEW l \in Lines,
         Access(g, h, c, CalcTag(l))
  PROVE  PermsOf(g) \in Permissions!AfterAccess(PermsOf(h), c, l)
<1> DEFINE ps == PermsOf(h)
           t == CalcTag(l)
<1>1. \A x \in Lines : CalcTag(x) \in Tags /\ SetOf(CalcTag(x)) \in Sets
  BY GeometryAssumption, MESIAssumption, GoodFacts DEF Tags, CalcTag
<1>2. Exclusive(g)
  BY <1>1, AccessExclusive
<1>3. \A x \in Lines : x # l => CalcTag(x) # t
  BY DEF NoAliases
<1>4. ps \in [Lines -> {PermOf(h, CalcTag(x)) : x \in Lines}] /\ DOMAIN ps = Lines
      /\ \A x \in Lines : ps[x] = PermOf(h, CalcTag(x)) /\ PermsOf(g)[x] = PermOf(g, CalcTag(x))
  BY DEF PermsOf
<1>5. ASSUME NEW k \in Permissions!AfterEviction(ps, c, l), DOMAIN k = Lines,
             NEW n \in {Permissions!AfterRead(ps[l], c), Permissions!AfterWrite(c)},
             PermOf(g, t) = n,
             \A x \in Lines : x # l => PermOf(g, CalcTag(x)) = k[x]
      PROVE  PermsOf(g) \in Permissions!AfterAccess(ps, c, l)
  <2>1. PermsOf(g) = [k EXCEPT ![l] = n]
    BY <1>5 DEF PermsOf
  <2> DEFINE K == Permissions!AfterEviction(ps, c, l)
             N == {Permissions!AfterRead(ps[l], c), Permissions!AfterWrite(c)}
             all == {[kept EXCEPT ![l] = new] : kept \in K, new \in N}
  <2>2. all = Permissions!AfterAccess(ps, c, l)
    BY DEF Permissions!AfterAccess
  <2>3. k \in K /\ n \in N
    BY <1>5
  <2> HIDE DEF K, N
  <2>4. [k EXCEPT ![l] = n] \in all
    BY <2>3
  <2> HIDE DEF all
  <2> QED BY <2>1, <2>2, <2>4
<1>6. ASSUME NEW mine, NEW ans, NEW v, Accessed(g, h, c, t, mine, ans, v)
      PROVE  \E kept \in Permissions!AfterEviction(ps, c, l) :
               DOMAIN kept = Lines /\ \A x \in Lines : x # l => PermOf(g, CalcTag(x)) = kept[x]
  <2>1. ASSUME NEW x \in Lines, x # l, ~(SetOf(CalcTag(x)) = SetOf(t) /\ CalcTag(x) = v)
        PROVE  PermOf(g, CalcTag(x)) = ps[x]
    <3>1. \A d \in Cpus : StateAt(g, d, SetOf(CalcTag(x)), CalcTag(x))
                            = StateAt(h, d, SetOf(CalcTag(x)), CalcTag(x))
      BY <1>1, <1>3, <1>6, <2>1 DEF Accessed
    <3> QED BY <1>4, <3>1, SamePerm
  <2>2. CASE \E x \in Lines : x # l /\ SetOf(CalcTag(x)) = SetOf(t) /\ CalcTag(x) = v
    <3>1. PICK x \in Lines : x # l /\ SetOf(CalcTag(x)) = SetOf(t) /\ CalcTag(x) = v
      BY <2>2
    <3> DEFINE kept == [ps EXCEPT ![x] = Permissions!GivenUp(@, c)]
    <3>2. kept \in Permissions!AfterEviction(ps, c, l)
      BY <3>1 DEF Permissions!AfterEviction
    <3>3. \A d \in Cpus : StateAt(g, d, SetOf(CalcTag(x)), CalcTag(x)) =
                            IF d = c THEN "I" ELSE StateAt(h, d, SetOf(CalcTag(x)), CalcTag(x))
      BY <1>1, <1>3, <1>6, <3>1 DEF Accessed
    <3>4. PermOf(g, CalcTag(x)) = Permissions!GivenUp(ps[x], c)
      BY <1>1, <1>2, <1>4, <3>3, LosingIsGivingUp
    <3>5. \A y \in Lines : y # l /\ y # x => PermOf(g, CalcTag(y)) = ps[y]
      BY <2>1, <3>1 DEF NoAliases
    <3>6. DOMAIN kept = Lines /\ \A y \in Lines : y # l => PermOf(g, CalcTag(y)) = kept[y]
      BY <1>4, <3>4, <3>5
    <3> QED BY <3>2, <3>6
  <2>3. CASE ~\E x \in Lines : x # l /\ SetOf(CalcTag(x)) = SetOf(t) /\ CalcTag(x) = v
    <3>1. ps \in Permissions!AfterEviction(ps, c, l)
      BY DEF Permissions!AfterEviction
    <3> QED BY <1>4, <2>1, <2>3, <3>1
  <2> QED BY <2>2, <2>3
<1>7. CASE OldReader(g, h, c, t)
  <2>1. \A x \in Lines : PermOf(g, CalcTag(x)) = ps[x]
    BY <1>1, <1>4, <1>7, SamePerm DEF OldReader, SameAll
  <2>2. c \in ps[l].holders
    <3>1. ps[l] = PermOf(h, t)
      BY <1>4
    <3>2. PermOf(h, t).holders = HoldersOf(h, t)
      BY DEF PermOf
    <3> QED BY <1>7, <3>1, <3>2 DEF OldReader, HoldersOf
  <2>3. Permissions!AfterRead(ps[l], c) = ps[l]
    BY <2>2 DEF Permissions!AfterRead
  <2>4. ps \in Permissions!AfterEviction(ps, c, l)
    BY DEF Permissions!AfterEviction
  <2> QED BY <1>4, <1>5, <2>1, <2>3, <2>4
<1>8. CASE NewReader(g, h, c, t)
  <2> DEFINE mine == IF HeldByOthers(h, c, t) THEN "S" ELSE "E"
  <2>1. PICK v : Accessed(g, h, c, t, mine, "S", v)
    BY <1>8 DEF NewReader
  <2>2. \A d \in Cpus : StateAt(g, d, SetOf(t), t) =
          IF d = c THEN mine ELSE IF StateAt(h, d, SetOf(t), t) = "I" THEN "I" ELSE "S"
    BY <1>1, <2>1 DEF Accessed
  <2>3. c \notin HoldersOf(h, t) /\ HoldersOf(g, t) = HoldersOf(h, t) \cup {c}
    BY <1>8, <2>2 DEF NewReader, HoldersOf
  <2>4. HeldByOthers(h, c, t) <=> HoldersOf(h, t) # {}
    BY <2>3 DEF HeldByOthers, HoldersOf, Siblings
  <2>5. OwnerOf(g, t) = IF HoldersOf(h, t) = {} THEN c ELSE NOBODY
    <3>1. CASE HoldersOf(h, t) = {}
      <4>1. c \in OwnersOf(g, t)
        BY <2>2, <2>4, <3>1 DEF OwnersOf
      <4> QED BY <1>1, <1>2, <3>1, <4>1, OwnerIs
    <3>2. CASE HoldersOf(h, t) # {}
      <4>1. OwnersOf(g, t) = {}
        BY <2>2, <2>4, <3>2 DEF OwnersOf
      <4> QED BY <1>1, <1>2, <3>2, <4>1, OwnerIs
    <3> QED BY <3>1, <3>2
  <2>6. PermOf(g, t) = Permissions!AfterRead(ps[l], c)
    <3>1. ps[l].holders = HoldersOf(h, t)
      <4>1. ps[l] = PermOf(h, t)
        BY <1>4
      <4>2. PermOf(h, t).holders = HoldersOf(h, t)
        BY DEF PermOf
      <4> QED BY <4>1, <4>2
    <3> QED BY <2>3, <2>5, <3>1 DEF PermOf, Permissions!AfterRead
  <2> QED BY <1>5, <1>6, <2>1, <2>6
<1>9. CASE Writer(g, h, c, t)
  <2>1. PICK v : Accessed(g, h, c, t, "M", "I", v)
    BY <1>9 DEF Writer
  <2>2. \A d \in Cpus : StateAt(g, d, SetOf(t), t) = IF d = c THEN "M" ELSE "I"
    BY <1>1, <2>1 DEF Accessed
  <2>3. HoldersOf(g, t) = {c} /\ c \in OwnersOf(g, t)
    BY <2>2 DEF HoldersOf, OwnersOf
  <2>4. OwnerOf(g, t) = c
    BY <1>1, <1>2, <2>3, OwnerIs
  <2>5. PermOf(g, t) = Permissions!AfterWrite(c)
    BY <2>3, <2>4 DEF PermOf, Permissions!AfterWrite
  <2> QED BY <1>5, <1>6, <2>1, <2>5
<1> QED BY <1>7, <1>8, <1>9 DEF Access

(* The MESI protocol implements the permissions of an invalidation         *)
(* protocol, if no two lines of the program share a tag: whoever reads     *)
(* holds the line and owns it if nobody had it, whoever writes owns it     *)
(* alone, and an access gives up no more than the line whose place it      *)
(* takes.                                                                  *)
THEOREM ProtocolIsPermissions == ASSUME NoAliases PROVE Spec => ImplementsPermissions
<1>1. MESIInv /\ Init => Permissions!Init
  <2> SUFFICES ASSUME MESIInv, Init PROVE Permissions!Init
    OBVIOUS
  <2>1. [l \in Lines |-> Permission(l)] = PermsOf(caches)
    BY PermissionsAreStates DEF MESIInv
  <2>2. \A c \in Cpus, s \in Sets : \A u : StateAt(caches, c, s, u) = "I"
    <3>1. \A c \in Cpus, s \in Sets : \A p \in 1 .. PrivateAssoc : ~IsValid(caches[c][s][p])
      BY DEF Init, ColdLine, IsValid
    <3>2. \A c \in Cpus, s \in Sets : caches[c][s] \in MESIRow
      BY GoodFacts DEF MESIInv, GoodRow
    <3> QED BY <3>1, <3>2, InvalidNotFound DEF StateAt
  <2>3. \A l \in Lines : SetOf(CalcTag(l)) \in Sets
    BY GeometryAssumption, MESIAssumption, GoodFacts DEF Tags, CalcTag, MESIInv
  <2>4. \A l \in Lines : PermOf(caches, CalcTag(l)) = Permissions!Free
    BY <2>2, <2>3 DEF PermOf, OwnerOf, HoldersOf, OwnersOf, Permissions!Free
  <2> QED BY <2>1, <2>4 DEF PermsOf, Permissions!Init
<1>4. MESIInv => [l \in Lines |-> Permission(l)] = PermsOf(caches)
  BY PermissionsAreStates DEF MESIInv
<1>3. (MESIInv => [l \in Lines |-> Permission(l)] = PermsOf(caches))'
  BY <1>4, PTL
<1>2. MESIInv /\ MESIInv' /\ [Next]_caches =>
        [Permissions!Next]_([l \in Lines |-> Permission(l)])
  <2> SUFFICES ASSUME MESIInv, MESIInv', [Next]_caches
               PROVE  [Permissions!Next]_([l \in Lines |-> Permission(l)])
    OBVIOUS
  <2>1. [l \in Lines |-> Permission(l)] = PermsOf(caches)
    BY PermissionsAreStates DEF MESIInv
  <2>2. [l \in Lines |-> Permission(l)]' = PermsOf(caches')
    BY <1>3 DEF PermsOf, PermOf, OwnerOf, HoldersOf, OwnersOf, StateAt
  <2>3. CASE Next
    <3>1. PICK c \in Cpus, l \in Lines :
            ReadHit(c, l) \/ ReadMiss(c, l) \/ WriteMiss(c, l) \/ WriteCoherenceMiss(c, l) \/ WriteHit(c, l)
      BY <2>3 DEF Next
    <3>2. PermsOf(caches') \in Permissions!AfterAccess(PermsOf(caches), c, l)
      BY <3>1, StepIsAccess, AccessIsPermitted DEF MESIInv
    <3> QED BY <2>1, <2>2, <3>2 DEF Permissions!Next
  <2>4. CASE UNCHANGED caches
    BY <2>1, <2>2, <2>4
  <2> QED BY <2>3, <2>4
<1> QED BY <1>1, <1>2, MESIAlways, PTL DEF Spec, ImplementsPermissions, Permissions!Spec
=============================================================================
