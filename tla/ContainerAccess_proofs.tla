----------------------- MODULE ContainerAccess_proofs -----------------------
(***************************************************************************)
(* The container's lock makes each access atomic and the caches coherent   *)
(* at every point inside one, so that the threads see one memory, for any  *)
(* number of threads, CPUs, ways, sets, lines, words and values.           *)
(***************************************************************************)
EXTENDS ContainerAccess_Properties, Memory_proofs

-----------------------------------------------------------------------------
(* A line that is valid in front is found there again.                     *)

(* Storing a row that is already there changes nothing.                    *)
LEMMA WithRowSame ==
  ASSUME NEW h, HierType(h), NEW k \in Caches, NEW t \in Tags
  PROVE  WithRow(h, k, t, RowOf(h, k, t)) = h
<1>1. h \in [cache : [Caches -> [Sets -> AnyRow]], stats : [Caches -> [Counters -> Nat]]]
  BY DEF HierType
<1>2. [h.cache EXCEPT ![k] = [h.cache[k] EXCEPT ![SetOf(t)] = h.cache[k][SetOf(t)]]] = h.cache
  <2>1. h.cache[k] \in [Sets -> AnyRow]
    BY <1>1
  <2>2. [h.cache[k] EXCEPT ![SetOf(t)] = h.cache[k][SetOf(t)]] = h.cache[k]
    BY <2>1
  <2> QED BY <1>1, <2>2
<1>3. [h EXCEPT !.cache = h.cache] = h
  BY <1>1
<1> QED BY <1>2, <1>3 DEF WithRow, RowOf

(* Moving the first line of a row to the front.                            *)
LEMMA MoveFirst ==
  ASSUME NEW n \in Nat \ {0}, NEW row \in Row(n)
  PROVE  MoveToFront(row, 1) = row
<1>1. DOMAIN row = 1 .. n /\ row = [q \in 1 .. n |-> row[q]]
  BY DEF Row
<1>2. \A q \in 1 .. n : q # 1 => ~(q <= 1)
  OBVIOUS
<1> QED BY <1>1, <1>2 DEF MoveToFront

(* A lookup of it leaves the row as it is.                                 *)
LEMMA FindFront ==
  ASSUME NEW n \in Nat \ {0}, NEW row \in Row(n), RowOK(row), NEW t,
         row[1].tag = t, IsValid(row[1])
  PROVE  FindLine(row, t) = row /\ Hits(row, t)
<1>1. DOMAIN row = 1 .. n /\ 1 \in 1 .. n
  BY DEF Row
<1>2. 1 \in Matches(row, t) /\ 1 \in Live(row, t)
  BY <1>1 DEF Matches, Live, RowOK, Flagged, IsValid
<1>3. FindPos(row, t) = 1
  <2> DEFINE S == Live(row, t)
  <2>1. S \in SUBSET Nat /\ 1 \in S /\ \A p \in S : p <= 1 => p = 1
    BY <1>1, <1>2 DEF Live, Matches
  <2>2. FindPos(row, t) = Min(S)
    BY <2>1 DEF FindPos
  <2> HIDE DEF S
  <2>3. Min(S) \in S /\ Min(S) <= 1
    BY <2>1, MinIn
  <2> QED BY <2>1, <2>2, <2>3
<1> QED BY <1>2, <1>3, MoveFirst DEF FindLine, Hits, Found

(* The same of the hierarchy.                                              *)
LEMMA LookFront ==
  ASSUME NEW h, Coherent(h), NEW c \in Cpus, NEW t \in Tags, ValidInFront(h, c, t)
  PROVE  Look(h, c, t) = h /\ HitsIn(h, c, t)
<1>1. c \in Caches /\ Good(h) /\ HierType(h)
  BY CacheFacts DEF Coherent, Good
<1>2. RowOf(h, c, t) \in Row(Assoc(c)) /\ RowOK(RowOf(h, c, t)) /\ Assoc(c) \in Nat \ {0}
  BY <1>1, RowGood
<1>3. FindLine(RowOf(h, c, t), t) = RowOf(h, c, t) /\ Hits(RowOf(h, c, t), t)
  BY <1>2, FindFront DEF ValidInFront
<1> QED BY <1>1, <1>3, WithRowSame DEF Look, HitsIn

(* A fill after a miss puts the line in front: no live line of the tag is  *)
(* in the row, so its victim is moved.                                     *)
LEMMA InstallFront ==
  ASSUME NEW n \in Nat \ {0}, NEW row \in Row(n), RowOK(row), NEW t \in Tags,
         NEW s \in {"M", "S"}, NEW data \in LineData, ~Hits(row, t)
  PROVE  Install(row, t, s, data)[1].tag = t /\ IsValid(Install(row, t, s, data)[1])
<1>1. DOMAIN row = 1 .. n
  BY DEF Row
<1>2. ~Has(row, t)
  BY HitsIffHas
<1>3. Live(row, t) = {}
  BY <1>1, <1>2 DEF Live, Matches, RowOK, Flagged, Has, IsValid
<1>4. SlotPos(row, t) = 1 /\ FindLine2Replace(row, t) \in Row(n)
  BY <1>3, InstallType DEF SlotPos, States
<1>5. 1 \in DOMAIN FindLine2Replace(row, t)
  BY <1>4 DEF Row
<1> QED BY <1>4, <1>5 DEF Install, IsValid

(* The same of the hierarchy.                                              *)
LEMMA FillFront ==
  ASSUME NEW h, Coherent(h), NEW c \in Cpus, NEW t \in Tags, NEW s \in {"M", "S"},
         NEW data \in LineData, ~HitsIn(h, c, t),
         NobodyElseOwns(h, c, t), s = "M" => NobodyElseHas(h, c, t)
  PROVE  ValidInFront(FillLine(h, c, t, s, data, LLCWrite), c, t)
<1> DEFINE g == FillLine(h, c, t, s, data, LLCWrite)
<1>1. c \in Caches /\ Good(h)
  BY CacheFacts DEF Coherent
<1>2. RowOf(h, c, t) \in Row(Assoc(c)) /\ RowOK(RowOf(h, c, t)) /\ Assoc(c) \in Nat \ {0}
  BY <1>1, RowGood
<1>3. RowOf(g, c, t) = Install(RowOf(h, c, t), t, s, data)
  BY PrivateFillCoherent DEF NobodyElseOwns, NobodyElseHas
<1> HIDE DEF g
<1>4. RowOf(g, c, t)[1].tag = t /\ IsValid(RowOf(g, c, t)[1])
  BY <1>2, <1>3, InstallFront DEF HitsIn
<1> QED BY <1>4 DEF ValidInFront, g

-----------------------------------------------------------------------------
(* The stages of an access leave the caller's own row alone.               *)

(* Rows depend on the caches only.                                         *)
LEMMA SameCacheFacts ==
  ASSUME NEW g, NEW h, g.cache = h.cache, NEW c, NEW t
  PROVE  /\ RowOf(g, c, t) = RowOf(h, c, t)
         /\ HitsIn(g, c, t) <=> HitsIn(h, c, t)
         /\ ValidInFront(g, c, t) <=> ValidInFront(h, c, t)
         /\ NobodyElseOwns(g, c, t) <=> NobodyElseOwns(h, c, t)
         /\ NobodyElseHas(g, c, t) <=> NobodyElseHas(h, c, t)
BY DEF RowOf, HitsIn, ValidInFront, NobodyElseOwns, NobodyElseHas

(* A miss is still one after the lookup that found it.                     *)
LEMMA MissStays ==
  ASSUME NEW h, Coherent(h), NEW c \in Cpus, NEW t \in Tags, ~HitsIn(h, c, t), NEW names
  PROVE  ~HitsIn(Count(Look(h, c, t), c, names), c, t)
<1>1. c \in Caches /\ Good(h)
  BY CacheFacts DEF Coherent
<1>2. RowOf(h, c, t) \in Row(Assoc(c)) /\ RowOK(RowOf(h, c, t)) /\ Assoc(c) \in Nat \ {0}
  BY <1>1, RowGood
<1>3. RowOf(Look(h, c, t), c, t) = FindLine(RowOf(h, c, t), t)
  BY <1>1, LookGood
<1>4. ~Has(FindLine(RowOf(h, c, t), t), t)
  BY <1>2, HitsIffHas, FindLineOK DEF HitsIn
<1>5. ~Hits(FindLine(RowOf(h, c, t), t), t)
  BY <1>2, <1>4, HitsIffHas, FindLineType, FindLineOK
<1>6. Count(Look(h, c, t), c, names).cache = Look(h, c, t).cache
  BY AccessLook
<1> QED BY <1>3, <1>5, <1>6 DEF HitsIn, RowOf

(* What a write miss gets, from a sibling or from below.                   *)
Acquired(h, c, t) ==
  IF ValidCopies(h, c, t) = {}
  THEN LLCRead(WriteRemoteAction(h, c, t), t)
  ELSE [hier |-> WriteRemoteAction(h, c, t), data |-> InvalidateReply(h, c, t)]

LEMMA AcquiredFacts ==
  ASSUME NEW h, Coherent(h), NEW c \in Cpus, NEW t \in Tags
  PROVE  /\ Coherent(Acquired(h, c, t).hier)
         /\ Acquired(h, c, t).data \in LineData
         /\ NobodyElseHas(Acquired(h, c, t).hier, c, t)
         /\ RowOf(Acquired(h, c, t).hier, c, t) = RowOf(h, c, t)
<1> DEFINE alone == WriteRemoteAction(h, c, t)
<1>1. Coherent(alone) /\ NobodyElseHas(alone, c, t) /\ SetOf(t) \in Sets
  BY WriteSnoopCoherent, IndexFacts
<1>2. RowOf(alone, c, t) = RowOf(h, c, t)
  BY <1>1, WriteRemoteGood DEF Coherent, RowOf
<1> HIDE DEF alone
<1>3. CASE ValidCopies(h, c, t) = {}
  <2>1. Acquired(h, c, t) = LLCRead(alone, t)
    BY <1>3 DEF Acquired, alone
  <2>2. Under(LLCRead(alone, t).hier, alone) /\ LLCRead(alone, t).data \in LineData
    BY <1>1, LLCReadUnder DEF Coherent
  <2>3. RowOf(LLCRead(alone, t).hier, c, t) = RowOf(alone, c, t)
    BY <2>2 DEF Under, SamePrivate, RowOf
  <2> QED BY <1>1, <1>2, <2>1, <2>2, <2>3, UnderCoherent
<1>4. CASE ValidCopies(h, c, t) # {}
  <2>1. Acquired(h, c, t) = [hier |-> alone, data |-> InvalidateReply(h, c, t)]
    BY <1>4 DEF Acquired, alone
  <2> QED BY <1>1, <1>2, <1>4, <2>1, ReplyType
<1> QED BY <1>3, <1>4

(* A store leaves the line in front.                                       *)
LEMMA PutFront ==
  ASSUME NEW h, Coherent(h), NEW c \in Cpus, NEW t \in Tags, ValidInFront(h, c, t),
         NEW w \in Words, NEW v \in Values
  PROVE  ValidInFront(PutWord(h, c, t, w, v), c, t)
<1> DEFINE row == RowOf(h, c, t)
           data == [row[1].data EXCEPT ![w] = v]
           new == SetData(row, data)
<1>1. c \in Caches /\ Good(h) /\ HierType(h)
  BY CacheFacts DEF Coherent, Good
<1>2. row \in Row(Assoc(c)) /\ RowOK(row) /\ Assoc(c) \in Nat \ {0}
  BY <1>1, RowGood
<1>3. data \in LineData
  BY <1>1, FrontDataType, WordType DEF FrontData
<1> HIDE DEF data
<1>4. new \in Row(Assoc(c))
  BY <1>2, <1>3, FrontUpdateType
<1>5. row[1] \in Line /\ 1 \in DOMAIN row
  BY <1>2 DEF Row
<1>6. new[1].tag = row[1].tag /\ new[1].state = row[1].state
  <2> HIDE DEF row
  <2> QED BY <1>5 DEF SetData, Line
<1>7. RowOf(WithRow(h, c, t, new), c, t) = new
  <2> HIDE DEF new
  <2> QED BY <1>1, <1>4, WithRowType
<1>8. PutWord(h, c, t, w, v) = WithRow(h, c, t, new)
  BY DEF PutWord, data
<1> QED BY <1>6, <1>7, <1>8 DEF ValidInFront, IsValid

(* So does the store of an upgrade.                                        *)
LEMMA PutOwnedFront ==
  ASSUME NEW h, Coherent(h), NEW c \in Cpus, NEW t \in Tags, ValidInFront(h, c, t),
         NobodyElseHas(h, c, t), NEW w \in Words, NEW v \in Values
  PROVE  ValidInFront(PutOwned(h, c, t, w, v), c, t)
<1> DEFINE row == RowOf(h, c, t)
           new == SetState(row, "M")
           owned == WithRow(h, c, t, new)
<1>1. c \in Caches /\ Good(h) /\ HierType(h)
  BY CacheFacts DEF Coherent, Good
<1>2. row \in Row(Assoc(c)) /\ Assoc(c) \in Nat \ {0}
  BY <1>1, RowGood
<1>3. new \in Row(Assoc(c))
  BY <1>2, FrontUpdateType DEF States
<1>4. row[1] \in Line /\ 1 \in DOMAIN row
  BY <1>2 DEF Row
<1>5. new[1].tag = row[1].tag
  <2> HIDE DEF row
  <2> QED BY <1>4 DEF SetState, Line
<1>6. RowOf(owned, c, t) = new
  <2> HIDE DEF new
  <2> QED BY <1>1, <1>3, WithRowType
<1>7. Coherent(owned) /\ IsValid(RowOf(owned, c, t)[1])
  BY OwnCoherent DEF ValidInFront, NobodyElseHas
<1>8. ValidInFront(owned, c, t)
  BY <1>5, <1>6, <1>7 DEF ValidInFront
<1>9. PutOwned(h, c, t, w, v) = PutWord(owned, c, t, w, v)
  BY DEF PutOwned
<1> HIDE DEF owned
<1> QED BY <1>7, <1>8, <1>9, PutFront

(* After any access the caller has the line, in front.                     *)
LEMMA AccessFront ==
  ASSUME NEW h, Coherent(h), NEW c \in Cpus, NEW r \in Requests
  PROVE  /\ Coherent(AccessOf(h, c, r))
         /\ ValidInFront(AccessOf(h, c, r), c, CalcTag(r.line))
<1> DEFINE t == CalcTag(r.line)
<1>1. t \in Tags /\ r.word \in Words
  BY IndexFacts DEF Requests
<1>2. CASE r.op = "read" /\ HitsIn(h, c, t)
  <2>1. AccessOf(h, c, r) = ReadHitOf(h, c, t)
    BY <1>2 DEF AccessOf, ReadOf
  <2>2. ValidInFront(ReadHitOf(h, c, t), c, t)
    BY <1>1, <1>2, AccessLook, SameCacheFacts DEF ReadHitOf, ValidInFront
  <2> QED BY <1>1, <2>1, <2>2, ReadHitCoherent
<1>3. CASE r.op = "read" /\ ~HitsIn(h, c, t)
  <2> DEFINE missed == ReadMissed(h, c, t)
             fetched == Fetch(missed, c, t)
             judged == Judge(Found(RowOf(h, c, t), t), FrontData(missed, c, t), fetched, c, r.word)
  <2>1. Coherent(missed) /\ ~HitsIn(missed, c, t)
    BY <1>1, <1>3, MissStays, ReadMissCoherent DEF ReadMissed
  <2>2. AccessOf(h, c, r) = FillLine(judged, c, t, "S", fetched.data, LLCWrite)
    BY <1>3 DEF AccessOf, ReadOf, ReadMissOf
  <2> HIDE DEF missed
  <2>3. /\ Coherent(fetched.hier) /\ fetched.data \in LineData
        /\ NobodyElseOwns(fetched.hier, c, t)
        /\ RowOf(fetched.hier, c, t) = RowOf(missed, c, t)
    BY <1>1, <2>1, FetchCoherent, FetchOwnRow DEF NobodyElseOwns
  <2> HIDE DEF fetched, t
  <2>4. Coherent(judged) /\ judged.cache = fetched.hier.cache
    BY <2>3, JudgeCoherent
  <2> HIDE DEF judged
  <2>5. ~HitsIn(judged, c, t) /\ NobodyElseOwns(judged, c, t)
    BY <2>1, <2>3, <2>4, SameCacheFacts DEF HitsIn
  <2>6. ValidInFront(AccessOf(h, c, r), c, t)
    BY <1>1, <2>2, <2>3, <2>4, <2>5, FillFront
  <2>7. Coherent(AccessOf(h, c, r))
    BY <1>1, <2>2, <2>3, <2>4, <2>5, PrivateFillCoherent DEF NobodyElseOwns
  <2> QED BY <2>6, <2>7 DEF t
<1>4. CASE r.op # "read"
  <2>0. r.val \in Values
    BY <1>4 DEF Requests
  <2>1. CASE ~HitsIn(h, c, t)
    <3> DEFINE missed == WriteMissed(h, c, t)
               got == Acquired(missed, c, t)
               data == [got.data EXCEPT ![r.word] = r.val]
    <3>1. Coherent(missed) /\ ~HitsIn(missed, c, t)
      BY <1>1, <2>0, <2>1, MissStays, WriteMissCoherent DEF WriteMissed
    <3>2. AccessOf(h, c, r) = FillLine(got.hier, c, t, "M", data, LLCWrite)
      BY <1>4, <2>1 DEF AccessOf, WriteOf, WriteMissOf, Acquired
    <3> HIDE DEF missed
    <3>3. /\ Coherent(got.hier) /\ got.data \in LineData
          /\ NobodyElseHas(got.hier, c, t)
          /\ RowOf(got.hier, c, t) = RowOf(missed, c, t)
      BY <1>1, <3>1, AcquiredFacts
    <3> HIDE DEF got, t
    <3>4. data \in LineData /\ NobodyElseOwns(got.hier, c, t) /\ ~HitsIn(got.hier, c, t)
      BY <1>1, <2>0, <3>1, <3>3, WordType, HasNotOwnsNot DEF HitsIn
    <3> HIDE DEF data
    <3>5. ValidInFront(AccessOf(h, c, r), c, t)
      BY <1>1, <3>2, <3>3, <3>4, FillFront
    <3>6. Coherent(AccessOf(h, c, r))
      BY <1>1, <3>2, <3>3, <3>4, PrivateFillCoherent DEF NobodyElseOwns, NobodyElseHas
    <3> QED BY <3>5, <3>6 DEF t
  <2>2. CASE HitsIn(h, c, t) /\ StateOf(h, c, t) = "S"
    <3> DEFINE looked == Look(h, c, t)
               alone == UpgradeSnooped(looked, c, t, r.word, r.val)
    <3>1. AccessOf(h, c, r) = PutOwned(alone, c, t, r.word, r.val)
      BY <1>4, <2>2 DEF AccessOf, WriteOf, WriteUpgradeOf
    <3>2. Coherent(looked) /\ ValidInFront(looked, c, t)
      BY <1>1, <2>0, <2>2, WriteUpgradeCoherent
    <3> HIDE DEF looked
    <3>3. Coherent(alone) /\ ValidInFront(alone, c, t) /\ NobodyElseHas(alone, c, t)
      BY <1>1, <2>0, <3>2, UpgradeSnoopCoherent
    <3> HIDE DEF alone
    <3> QED BY <1>1, <2>0, <3>1, <3>3, PutOwnedCoherent, PutOwnedFront
  <2>3. CASE HitsIn(h, c, t) /\ StateOf(h, c, t) # "S"
    <3> DEFINE looked == Look(h, c, t)
               counted == Count(looked, c, {"numWriteHits"} \cup Silent(looked, c, t, r.word, r.val))
    <3>1. AccessOf(h, c, r) = WriteHitOf(h, c, t, r.word, r.val)
      BY <1>4, <2>3 DEF AccessOf, WriteOf
    <3>2. WriteHitOf(h, c, t, r.word, r.val) = PutWord(counted, c, t, r.word, r.val)
      BY DEF WriteHitOf
    <3>3. Coherent(counted) /\ counted.cache = looked.cache /\ ValidInFront(looked, c, t)
      BY <1>1, <2>3, AccessLook DEF ValidInFront
    <3> HIDE DEF counted, looked
    <3>4. ValidInFront(counted, c, t)
      BY <3>3, SameCacheFacts
    <3>5. ValidInFront(PutWord(counted, c, t, r.word, r.val), c, t)
      BY <1>1, <2>0, <3>3, <3>4, PutFront
    <3> QED BY <1>1, <2>0, <2>3, <3>1, <3>2, <3>5, WriteHitCoherent
  <2> QED BY <2>1, <2>2, <2>3
<1> QED BY <1>2, <1>3, <1>4

-----------------------------------------------------------------------------
(* The places of an access.                                                *)

(* What the hierarchy h and the frame f are at each place of an access that*)
(* found the hierarchy b.                                                  *)
StageOfRead(label, b, h, f) ==
  LET c == f.cpu
      t == CalcTag(f.request.line)
      missed == ReadMissed(b, c, t)
  IN  /\ label = "readSnoop" => h = missed
      /\ label = "below" => /\ ValidCopies(missed, c, t) = {}
                            /\ h = ReadRemoteAction(missed, c, t)
      /\ label = "readFill" => h = Fetch(missed, c, t).hier /\ f.ld = Fetch(missed, c, t).data
      /\ label \in {"readSnoop", "below", "readFill"} =>
           ~HitsIn(b, c, t) /\ f.st = Pointer(RowOf(b, c, t), t)

StageOfWrite(label, b, h, f) ==
  LET c == f.cpu
      t == CalcTag(f.request.line)
      r == f.request
      missed == WriteMissed(b, c, t)
  IN  /\ label = "writeSnoop" => h = missed
      /\ label = "below" => /\ ValidCopies(missed, c, t) = {}
                            /\ h = WriteRemoteAction(missed, c, t)
      /\ label = "writeFill" => /\ h = Acquired(missed, c, t).hier
                                /\ f.ld = Acquired(missed, c, t).data
      /\ label \in {"writeSnoop", "below", "writeFill"} => ~HitsIn(b, c, t)
      /\ label = "upgradeSnoop" => h = Look(b, c, t)
      /\ label = "put" => h = UpgradeSnooped(Look(b, c, t), c, t, r.word, r.val)
      /\ label \in {"upgradeSnoop", "put"} => HitsIn(b, c, t) /\ StateOf(b, c, t) = "S"

Stage(label, b, h, f) ==
  /\ label = "lookup" => h = b
  /\ label = "return" => h = AccessOf(b, f.cpu, f.request)
  /\ label \in {"readSnoop", "readFill"} => f.request.op = "read"
  /\ label \in {"writeSnoop", "writeFill", "upgradeSnoop", "put"} => f.request.op # "read"
  /\ IF f.request.op = "read" THEN StageOfRead(label, b, h, f) ELSE StageOfWrite(label, b, h, f)

(* The parts of a frame.                                                   *)
LEMMA FrameFacts ==
  ASSUME NEW f \in Frames
  PROVE  /\ f.cpu \in Cpus /\ f.request \in Requests /\ f.st \in 0 .. 2 /\ f.ld \in LineData
         /\ f.request.line \in Lines /\ f.request.word \in Words
         /\ f.request.op # "read" => f.request.val \in Values
         /\ CalcTag(f.request.line) \in Tags
         /\ f # NoFrame
<1>1. f.request \in Requests /\ f.request.line \in Lines
  BY DEF Frames, Requests
<1>2. f # NoFrame
  BY DEF Frames, NoFrame
<1> QED BY <1>1, <1>2, IndexFacts DEF Frames, Requests

(* Coherence holds at every place.                                         *)
LEMMA StageCoherent ==
  ASSUME NEW b, Coherent(b), NEW h, NEW f \in Frames, NEW label \in Labels \ {"idle"},
         Stage(label, b, h, f)
  PROVE  Coherent(h)
<1> DEFINE c == f.cpu
           t == CalcTag(f.request.line)
           r == f.request
<1>1. c \in Cpus /\ r \in Requests /\ r.word \in Words /\ t \in Tags
  BY FrameFacts
<1>2. CASE label = "lookup"
  BY <1>2 DEF Stage
<1>3. CASE label = "return"
  BY <1>1, <1>3, AccessFront DEF Stage
<1>4. CASE r.op = "read" /\ label \in {"readSnoop", "below", "readFill"}
  <2> DEFINE missed == ReadMissed(b, c, t)
  <2>1. Coherent(missed)
    BY <1>1, ReadMissCoherent
  <2>2. Coherent(Fetch(missed, c, t).hier)
    BY <1>1, <2>1, FetchCoherent
  <2>3. Coherent(ReadRemoteAction(missed, c, t))
    BY <1>1, <2>1, ReadRemoteGood, WeakerExclusive DEF Coherent
  <2> QED BY <1>4, <2>1, <2>2, <2>3 DEF Stage, StageOfRead
<1>5. CASE r.op # "read" /\ label \in {"writeSnoop", "below", "writeFill"}
  <2> DEFINE missed == WriteMissed(b, c, t)
  <2>1. Coherent(missed)
    BY <1>1, <1>5, FrameFacts, WriteMissCoherent
  <2>2. Coherent(Acquired(missed, c, t).hier) /\ Coherent(WriteRemoteAction(missed, c, t))
    BY <1>1, <2>1, AcquiredFacts, WriteSnoopCoherent
  <2> QED BY <1>5, <2>1, <2>2 DEF Stage, StageOfWrite
<1>6. CASE r.op # "read" /\ label \in {"upgradeSnoop", "put"}
  <2>1. HitsIn(b, c, t) /\ r.val \in Values
    BY <1>6, FrameFacts DEF Stage, StageOfWrite
  <2>2. Coherent(Look(b, c, t)) /\ ValidInFront(Look(b, c, t), c, t)
    BY <1>1, <2>1, WriteUpgradeCoherent
  <2>3. Coherent(UpgradeSnooped(Look(b, c, t), c, t, r.word, r.val))
    BY <1>1, <2>1, <2>2, UpgradeSnoopCoherent
  <2> QED BY <1>6, <2>2, <2>3 DEF Stage, StageOfWrite
<1> QED BY <1>2, <1>3, <1>4, <1>5, <1>6 DEF Labels, Stage

-----------------------------------------------------------------------------
(* The inductive invariant.                                                *)

PlaceInv ==
  /\ pc \in [Tids -> Labels]
  /\ privateCachesLock \in Tids \cup {FREE}
  /\ frame \in [Tids -> Frames \cup {NoFrame}]
  /\ \A t \in Tids : IF InCall(t) THEN frame[t] \in Frames ELSE frame[t] = NoFrame
  /\ OneAtATime

(* The hierarchy is what the holder of the lock has made of it so far.     *)
AccessInv ==
  /\ Coherent(before)
  /\ (\A t \in Tids : ~InCall(t)) => hier = before
  /\ \A t \in Tids : InCall(t) =>
       /\ Cpu(t) = tidToCPUId(t)
       /\ Stage(pc[t], before, hier, frame[t])

ContainerInv == PlaceInv /\ AccessInv

(* Thread ids are natural numbers, so FREE is none of them; tidToCPUId of  *)
(* one that is not negative as an int is a CPU.                            *)
LEMMA TidFacts ==
  ASSUME NEW t \in Tids
  PROVE  /\ t # FREE
         /\ t \in IntTids => tidToCPUId(t) \in Cpus
         /\ findCacheByCPUId(tidToCPUId(t)) <=> tidToCPUId(t) \in Cpus
<1>1. t \in Nat /\ NumCaches \in Nat /\ NumCaches > 0 /\ 2 * IntLimit \in Nat \ {0}
  BY TidsAssumption, HierarchyAssumption
<1>2. ASSUME t \in IntTids PROVE tidToCPUId(t) \in Cpus
  <2> DEFINE i == AsInt(t)
  <2>1. i \in Int /\ i >= 0
    BY <1>1, <1>2, TidsAssumption DEF AsInt, IntTids
  <2> HIDE DEF i
  <2>2. Remainder(i, NumCaches) \in 0 .. NumCaches - 1
    BY <1>1, <2>1 DEF Remainder
  <2> QED BY <2>2 DEF tidToCPUId, Cpus, i
<1> QED BY <1>1, <1>2 DEF FREE, findCacheByCPUId

(* It holds at the start.                                                  *)
LEMMA InitInv == ContainerInit => ContainerInv
<1> SUFFICES ASSUME ContainerInit PROVE ContainerInv
  OBVIOUS
<1>1. Coherent(before)
  BY InitCoherent DEF ContainerInit
<1>2. PlaceInv
  BY TidFacts DEF ContainerInit, PlaceInv, OneAtATime, InCall, Labels
<1>3. AccessInv
  BY <1>1 DEF ContainerInit, AccessInv, InCall
<1> QED BY <1>2, <1>3 DEF ContainerInv

(* What a step inside an access must do.                                   *)
LEMMA Advance ==
  ASSUME ContainerInv, NEW t \in Tids, InCall(t), NEW to \in Labels \ {"idle"}, NEW h,
         Goto(t, to), Step(t, h), NEW f \in Frames, frame' = [frame EXCEPT ![t] = f],
         f.cpu = frame[t].cpu, Stage(to, before, h, f)
  PROVE  ContainerInv'
<1>1. /\ pc' = [pc EXCEPT ![t] = to] /\ hier' = h
      /\ privateCachesLock' = privateCachesLock /\ before' = before
  BY DEF Step, Goto
<1>2. /\ pc \in [Tids -> Labels] /\ frame \in [Tids -> Frames \cup {NoFrame}]
      /\ privateCachesLock = t
      /\ \A u \in Tids : InCall(u) => u = t
  BY DEF ContainerInv, PlaceInv, OneAtATime
<1>3. /\ pc'[t] = to /\ frame'[t] = f
      /\ \A u \in Tids \ {t} : pc'[u] = pc[u] /\ frame'[u] = frame[u]
      /\ \A u \in Tids : InCall(u)' <=> InCall(u)
  BY <1>1, <1>2 DEF InCall
<1>4. PlaceInv'
  <2>1. pc' \in [Tids -> Labels] /\ frame' \in [Tids -> Frames \cup {NoFrame}]
    BY <1>1, <1>2
  <2>2. \A u \in Tids : IF InCall(u)' THEN frame'[u] \in Frames ELSE frame'[u] = NoFrame
    BY <1>3 DEF ContainerInv, PlaceInv
  <2>3. OneAtATime'
    BY <1>1, <1>3 DEF ContainerInv, PlaceInv, OneAtATime
  <2> QED BY <1>1, <2>1, <2>2, <2>3 DEF ContainerInv, PlaceInv
<1>5. AccessInv'
  <2>1. \A u \in Tids : InCall(u)' =>
          Cpu(u)' = tidToCPUId(u) /\ Stage(pc'[u], before', hier', frame'[u])
    <3> SUFFICES ASSUME NEW u \in Tids, InCall(u)'
                 PROVE  Cpu(u)' = tidToCPUId(u) /\ Stage(pc'[u], before', hier', frame'[u])
      OBVIOUS
    <3>1. u = t
      BY <1>2, <1>3
    <3>2. frame[t].cpu = tidToCPUId(t)
      BY DEF ContainerInv, AccessInv, Cpu
    <3> QED BY <1>1, <1>3, <3>1, <3>2 DEF Cpu
  <2>2. InCall(t)'
    BY <1>3
  <2> QED BY <1>1, <2>1, <2>2 DEF ContainerInv, AccessInv
<1> QED BY <1>4, <1>5 DEF ContainerInv

(* The same of a step that leaves the frame alone.                         *)
LEMMA AdvanceSameFrame ==
  ASSUME ContainerInv, NEW t \in Tids, InCall(t), NEW to \in Labels \ {"idle"}, NEW h,
         Goto(t, to), Step(t, h), UNCHANGED frame, Stage(to, before, h, frame[t])
  PROVE  ContainerInv'
<1>1. frame[t] \in Frames /\ frame \in [Tids -> Frames \cup {NoFrame}]
  BY DEF ContainerInv, PlaceInv
<1>2. frame' = [frame EXCEPT ![t] = frame[t]]
  BY <1>1
<1> QED BY <1>1, <1>2, Advance

(* The thread that takes a step inside an access, as it finds things.      *)
LEMMA Here ==
  ASSUME ContainerInv, NEW t \in Tids, InCall(t)
  PROVE  /\ Coherent(before) /\ Stage(pc[t], before, hier, frame[t])
         /\ frame[t] \in Frames
         /\ Cpu(t) = frame[t].cpu /\ Tag(t) = CalcTag(frame[t].request.line)
         /\ Request(t) = frame[t].request
         /\ Reads(t) <=> frame[t].request.op = "read"
         /\ Cpu(t) \in Cpus /\ Tag(t) \in Tags /\ Request(t).word \in Words
         /\ ~Reads(t) => Request(t).val \in Values
BY FrameFacts DEF ContainerInv, PlaceInv, AccessInv, Cpu, Tag, Request, Reads

-----------------------------------------------------------------------------
(* Every step keeps it.                                                    *)

LEMMA GetLockStep ==
  ASSUME ContainerInv, NEW t \in Tids, GetLock(t)
  PROVE  ContainerInv'
<1>1. /\ privateCachesLock' = t /\ hier' = hier /\ before' = before
      /\ privateCachesLock = FREE /\ pc[t] = "idle"
  BY DEF GetLock, LockFree
<1>2. /\ pc \in [Tids -> Labels] /\ frame \in [Tids -> Frames \cup {NoFrame}]
      /\ \A u \in Tids : ~InCall(u)
  BY <1>1, TidFacts DEF ContainerInv, PlaceInv, OneAtATime
<1>3. hier' = before'
  BY <1>1, <1>2 DEF ContainerInv, AccessInv
<1>4. CASE tidToCPUId(t) \in Cpus
  <2>1. PICK r \in Requests :
          frame' = [frame EXCEPT ![t] = [request |-> r, cpu |-> tidToCPUId(t),
                                         st |-> NULLst, ld |-> NaNLine]]
    BY <1>4, TidFacts DEF GetLock
  <2>2. pc' = [pc EXCEPT ![t] = "lookup"]
    BY <1>4, TidFacts DEF GetLock, Goto
  <2> DEFINE f == [request |-> r, cpu |-> tidToCPUId(t), st |-> NULLst, ld |-> NaNLine]
  <2>3. f \in Frames /\ f.cpu = tidToCPUId(t) /\ f.request = r
    <3>1. NaNLine \in LineData /\ NULLst \in 0 .. 2
      BY DEF NaNLine, LineData, NULLst
    <3> QED BY <1>4, <3>1 DEF Frames
  <2> HIDE DEF f
  <2>4. /\ pc'[t] = "lookup" /\ frame'[t] = f
        /\ \A u \in Tids \ {t} : pc'[u] = pc[u] /\ frame'[u] = frame[u]
    BY <1>2, <2>1, <2>2 DEF f
  <2>5. \A u \in Tids : InCall(u)' <=> u = t
    BY <1>2, <2>4 DEF InCall
  <2>6. PlaceInv'
    <3>1. pc' \in [Tids -> Labels] /\ frame' \in [Tids -> Frames \cup {NoFrame}]
      BY <1>2, <2>1, <2>2, <2>3 DEF Labels, f
    <3>2. \A u \in Tids : IF InCall(u)' THEN frame'[u] \in Frames ELSE frame'[u] = NoFrame
      BY <1>2, <2>3, <2>4, <2>5 DEF ContainerInv, PlaceInv
    <3>3. OneAtATime'
      BY <1>1, <2>5 DEF OneAtATime
    <3> QED BY <1>1, <3>1, <3>2, <3>3 DEF PlaceInv
  <2>7. AccessInv'
    <3>1. Stage("lookup", before', hier', f)
      BY <1>3 DEF Stage, StageOfRead, StageOfWrite
    <3>2. Cpu(t)' = tidToCPUId(t) /\ Stage(pc'[t], before', hier', frame'[t])
      BY <2>3, <2>4, <3>1 DEF Cpu
    <3> QED BY <1>1, <1>3, <2>5, <3>2 DEF ContainerInv, AccessInv
  <2> QED BY <2>6, <2>7 DEF ContainerInv
<1>5. CASE tidToCPUId(t) \notin Cpus
  <2>1. pc' = pc /\ frame' = frame
    BY <1>5, TidFacts DEF GetLock
  <2>2. t \notin IntTids
    BY <1>5, TidFacts
  <2>3. \A u \in Tids : ~InCall(u)'
    BY <1>2, <2>1 DEF InCall
  <2>4. OneAtATime'
    BY <1>1, <2>2, <2>3 DEF OneAtATime, IntTids
  <2>5. PlaceInv'
    BY <1>1, <1>2, <2>1, <2>3, <2>4 DEF ContainerInv, PlaceInv
  <2>6. AccessInv'
    BY <1>1, <1>3, <2>3 DEF ContainerInv, AccessInv
  <2> QED BY <2>5, <2>6 DEF ContainerInv
<1> QED BY <1>4, <1>5

LEMMA LookupReadHitStep ==
  ASSUME ContainerInv, NEW t \in Tids, LookupReadHit(t)
  PROVE  ContainerInv'
<1> DEFINE f == [frame[t] EXCEPT !.st = 1]
           h == ReadHitOf(hier, Cpu(t), Tag(t))
<1>1. InCall(t) /\ pc[t] = "lookup" /\ Reads(t) /\ HitsIn(hier, Cpu(t), Tag(t))
  BY DEF LookupReadHit, ReadHits, InCall
<1>2. f \in Frames /\ f.cpu = frame[t].cpu /\ f.request = frame[t].request
  BY <1>1, Here DEF Frames
<1>3. hier = before
  BY <1>1, Here DEF Stage
<1>4. Stage("return", before, h, f)
  BY <1>1, <1>2, <1>3, Here DEF Stage, StageOfRead, AccessOf, ReadOf
<1>5. Goto(t, "return") /\ Step(t, h) /\ frame' = [frame EXCEPT ![t] = f]
  BY DEF LookupReadHit, ReadHits
<1> HIDE DEF h, f
<1> QED BY <1>1, <1>2, <1>4, <1>5, Advance DEF Labels

LEMMA LookupReadMissStep ==
  ASSUME ContainerInv, NEW t \in Tids, LookupReadMiss(t)
  PROVE  ContainerInv'
<1> DEFINE f == [frame[t] EXCEPT !.st = Pointer(RowOf(hier, Cpu(t), Tag(t)), Tag(t))]
           h == ReadMissed(hier, Cpu(t), Tag(t))
<1>1. InCall(t) /\ pc[t] = "lookup" /\ Reads(t) /\ ~HitsIn(hier, Cpu(t), Tag(t))
  BY DEF LookupReadMiss, ReadMisses, InCall
<1>2. Pointer(RowOf(hier, Cpu(t), Tag(t)), Tag(t)) \in 0 .. 2
  BY DEF Pointer, NULLst
<1>3. /\ f \in Frames /\ f.cpu = frame[t].cpu /\ f.request = frame[t].request
      /\ f.st = Pointer(RowOf(hier, Cpu(t), Tag(t)), Tag(t))
  BY <1>1, <1>2, Here DEF Frames
<1>4. hier = before
  BY <1>1, Here DEF Stage
<1>5. Stage("readSnoop", before, h, f)
  BY <1>1, <1>3, <1>4, Here DEF Stage, StageOfRead
<1>6. Goto(t, "readSnoop") /\ Step(t, h) /\ frame' = [frame EXCEPT ![t] = f]
  BY DEF LookupReadMiss, ReadMisses
<1> HIDE DEF h, f
<1> QED BY <1>1, <1>3, <1>5, <1>6, Advance DEF Labels

LEMMA ReadServedStep ==
  ASSUME ContainerInv, NEW t \in Tids, ReadServed(t)
  PROVE  ContainerInv'
<1> DEFINE fetched == Fetch(hier, Cpu(t), Tag(t))
           f == [frame[t] EXCEPT !.ld = fetched.data]
<1>1. InCall(t) /\ pc[t] = "readSnoop"
  BY DEF ReadServed, SiblingReads, InCall
<1>2. /\ Reads(t) /\ hier = ReadMissed(before, Cpu(t), Tag(t))
      /\ ~HitsIn(before, Cpu(t), Tag(t))
      /\ frame[t].st = Pointer(RowOf(before, Cpu(t), Tag(t)), Tag(t))
  BY <1>1, Here DEF Stage, StageOfRead
<1>3. Coherent(hier)
  BY <1>1, Here, StageCoherent DEF Labels
<1>4. fetched.data \in LineData
  BY <1>1, <1>3, Here, FetchCoherent
<1>5. Goto(t, "readFill") /\ Step(t, fetched.hier) /\ frame' = [frame EXCEPT ![t] = f]
  BY DEF ReadServed, SiblingReads
<1>6. fetched = Fetch(ReadMissed(before, Cpu(t), Tag(t)), Cpu(t), Tag(t))
  BY <1>2
<1> HIDE DEF fetched
<1>7. /\ f \in Frames /\ f.cpu = frame[t].cpu /\ f.request = frame[t].request
      /\ f.st = frame[t].st /\ f.ld = fetched.data
  BY <1>1, <1>4, Here DEF Frames
<1> HIDE DEF f
<1>8. Stage("readFill", before, fetched.hier, f)
  BY <1>1, <1>2, <1>6, <1>7, Here DEF Stage, StageOfRead
<1> QED BY <1>1, <1>5, <1>7, <1>8, Advance DEF Labels

LEMMA ReadUnservedStep ==
  ASSUME ContainerInv, NEW t \in Tids, ReadUnserved(t)
  PROVE  ContainerInv'
<1> DEFINE h == ReadRemoteAction(hier, Cpu(t), Tag(t))
<1>1. InCall(t) /\ pc[t] = "readSnoop" /\ ValidCopies(hier, Cpu(t), Tag(t)) = {}
  BY DEF ReadUnserved, NobodyReads, InCall
<1>2. /\ Reads(t) /\ hier = ReadMissed(before, Cpu(t), Tag(t))
      /\ ~HitsIn(before, Cpu(t), Tag(t))
      /\ frame[t].st = Pointer(RowOf(before, Cpu(t), Tag(t)), Tag(t))
  BY <1>1, Here DEF Stage, StageOfRead
<1>3. Stage("below", before, h, frame[t])
  BY <1>1, <1>2, Here DEF Stage, StageOfRead
<1>4. Goto(t, "below") /\ Step(t, h) /\ UNCHANGED frame
  BY DEF ReadUnserved, NobodyReads
<1> HIDE DEF h
<1> QED BY <1>1, <1>3, <1>4, AdvanceSameFrame DEF Labels

LEMMA AskParentStep ==
  ASSUME ContainerInv, NEW t \in Tids, AskParent(t)
  PROVE  ContainerInv'
<1> DEFINE got == LLCRead(hier, Tag(t))
           f == [frame[t] EXCEPT !.ld = got.data]
           to == IF Reads(t) THEN "readFill" ELSE "writeFill"
<1>1. InCall(t) /\ pc[t] = "below"
  BY DEF AskParent, ParentAnswers, InCall
<1>2. Coherent(hier)
  BY <1>1, Here, StageCoherent DEF Labels
<1>3. got.data \in LineData
  BY <1>1, <1>2, Here, LLCReadUnder DEF Coherent
<1>4. Goto(t, to) /\ Step(t, got.hier) /\ frame' = [frame EXCEPT ![t] = f]
  BY DEF AskParent, ParentAnswers
<1>5. CASE Reads(t)
  <2>1. /\ ValidCopies(ReadMissed(before, Cpu(t), Tag(t)), Cpu(t), Tag(t)) = {}
        /\ hier = ReadRemoteAction(ReadMissed(before, Cpu(t), Tag(t)), Cpu(t), Tag(t))
        /\ ~HitsIn(before, Cpu(t), Tag(t))
        /\ frame[t].st = Pointer(RowOf(before, Cpu(t), Tag(t)), Tag(t))
    BY <1>1, <1>5, Here DEF Stage, StageOfRead
  <2>2. got = Fetch(ReadMissed(before, Cpu(t), Tag(t)), Cpu(t), Tag(t))
    BY <2>1 DEF Fetch
  <2> HIDE DEF got
  <2>3. /\ f \in Frames /\ f.cpu = frame[t].cpu /\ f.request = frame[t].request
        /\ f.st = frame[t].st /\ f.ld = got.data
    BY <1>1, <1>3, Here DEF Frames
  <2> HIDE DEF f
  <2>4. Stage("readFill", before, got.hier, f)
    BY <1>1, <1>5, <2>1, <2>2, <2>3, Here DEF Stage, StageOfRead
  <2> QED BY <1>1, <1>4, <1>5, <2>3, <2>4, Advance DEF Labels
<1>6. CASE ~Reads(t)
  <2>1. /\ ValidCopies(WriteMissed(before, Cpu(t), Tag(t)), Cpu(t), Tag(t)) = {}
        /\ hier = WriteRemoteAction(WriteMissed(before, Cpu(t), Tag(t)), Cpu(t), Tag(t))
        /\ ~HitsIn(before, Cpu(t), Tag(t))
    BY <1>1, <1>6, Here DEF Stage, StageOfWrite
  <2>2. got = Acquired(WriteMissed(before, Cpu(t), Tag(t)), Cpu(t), Tag(t))
    BY <2>1 DEF Acquired
  <2> HIDE DEF got
  <2>3. /\ f \in Frames /\ f.cpu = frame[t].cpu /\ f.request = frame[t].request
        /\ f.ld = got.data
    BY <1>1, <1>3, Here DEF Frames
  <2> HIDE DEF f
  <2>4. Stage("writeFill", before, got.hier, f)
    BY <1>1, <1>6, <2>1, <2>2, <2>3, Here DEF Stage, StageOfWrite
  <2> QED BY <1>1, <1>4, <1>6, <2>3, <2>4, Advance DEF Labels
<1> QED BY <1>5, <1>6

(* The stale word that the fill compares is the one in front after the     *)
(* first lookup, because neither the snoop nor the level below touches the *)
(* caller's row.                                                           *)
LEMMA ReadFillStep ==
  ASSUME ContainerInv, NEW t \in Tids, ReadFill(t)
  PROVE  ContainerInv'
<1> DEFINE c == Cpu(t)
           tag == Tag(t)
           w == Request(t).word
           row == RowOf(hier, c, tag)
           missed == ReadMissed(before, c, tag)
           fetched == [hier |-> hier, data |-> frame[t].ld]
           judged == Judge(frame[t].st # NULLst, row[1].data, fetched, c, w)
           h == FillLine(judged, c, tag, "S", frame[t].ld, LLCWrite)
           f == [frame[t] EXCEPT !.st = PointerAfterFill(@, row, tag)]
<1>1. InCall(t) /\ pc[t] = "readFill"
  BY DEF ReadFill, ReadFills, InCall
<1>2. /\ Reads(t) /\ hier = Fetch(missed, c, tag).hier
      /\ frame[t].ld = Fetch(missed, c, tag).data
      /\ ~HitsIn(before, c, tag)
      /\ frame[t].st = Pointer(RowOf(before, c, tag), tag)
  BY <1>1, Here DEF Stage, StageOfRead
<1>3. c \in Cpus /\ tag \in Tags /\ w \in Words
  BY <1>1, Here
<1>4. row = RowOf(missed, c, tag)
  <2>1. Coherent(missed)
    BY <1>1, <1>3, Here, ReadMissCoherent
  <2> HIDE DEF missed
  <2> QED BY <1>2, <1>3, <2>1, FetchOwnRow
<1>5. Found(RowOf(before, c, tag), tag) <=> frame[t].st # NULLst
  BY <1>2 DEF Pointer, NULLst
<1>6. judged = Judge(Found(RowOf(before, c, tag), tag), FrontData(missed, c, tag),
                     Fetch(missed, c, tag), c, w)
  <2> HIDE DEF missed, row, c, tag, w
  <2> QED BY <1>2, <1>4, <1>5 DEF Judge, FrontData
<1>7. h = AccessOf(before, c, frame[t].request)
  <2>1. ReadMissOf(before, c, tag, w) = h
    BY <1>2, <1>6 DEF ReadMissOf
  <2> HIDE DEF h
  <2> QED BY <1>1, <1>2, <2>1, Here DEF AccessOf, ReadOf
<1>8. Goto(t, "return") /\ Step(t, h) /\ frame' = [frame EXCEPT ![t] = f]
  BY DEF ReadFill, ReadFills
<1>9. PointerAfterFill(frame[t].st, row, tag) \in 0 .. 2
  BY <1>1, Here, FrameFacts DEF PointerAfterFill
<1>10. f \in Frames /\ f.cpu = frame[t].cpu /\ f.request = frame[t].request
  BY <1>1, <1>9, Here DEF Frames
<1> HIDE DEF h, f
<1>11. Stage("return", before, h, f)
  BY <1>1, <1>2, <1>7, <1>10, Here DEF Stage, StageOfRead
<1> QED BY <1>1, <1>8, <1>10, <1>11, Advance DEF Labels

LEMMA LookupWriteMissStep ==
  ASSUME ContainerInv, NEW t \in Tids, LookupWriteMiss(t)
  PROVE  ContainerInv'
<1> DEFINE h == WriteMissed(hier, Cpu(t), Tag(t))
<1>1. InCall(t) /\ pc[t] = "lookup" /\ ~Reads(t) /\ ~HitsIn(hier, Cpu(t), Tag(t))
  BY DEF LookupWriteMiss, WriteMisses, InCall
<1>2. hier = before
  BY <1>1, Here DEF Stage
<1>3. Stage("writeSnoop", before, h, frame[t])
  BY <1>1, <1>2, Here DEF Stage, StageOfWrite
<1>4. Goto(t, "writeSnoop") /\ Step(t, h) /\ UNCHANGED frame
  BY DEF LookupWriteMiss, WriteMisses
<1> HIDE DEF h
<1> QED BY <1>1, <1>3, <1>4, AdvanceSameFrame DEF Labels

LEMMA WriteServedStep ==
  ASSUME ContainerInv, NEW t \in Tids, WriteServed(t)
  PROVE  ContainerInv'
<1> DEFINE reply == InvalidateReply(hier, Cpu(t), Tag(t))
           h == WriteRemoteAction(hier, Cpu(t), Tag(t))
           f == [frame[t] EXCEPT !.ld = reply]
<1>1. InCall(t) /\ pc[t] = "writeSnoop" /\ ValidCopies(hier, Cpu(t), Tag(t)) # {}
  BY DEF WriteServed, SiblingYields, InCall
<1>2. /\ ~Reads(t) /\ hier = WriteMissed(before, Cpu(t), Tag(t))
      /\ ~HitsIn(before, Cpu(t), Tag(t))
  BY <1>1, Here DEF Stage, StageOfWrite
<1>3. Coherent(hier)
  BY <1>1, Here, StageCoherent DEF Labels
<1>4. reply \in LineData
  BY <1>1, <1>3, Here, ReplyType
<1>5. Acquired(hier, Cpu(t), Tag(t)) = [hier |-> h, data |-> reply]
  BY <1>1 DEF Acquired
<1>6. Goto(t, "writeFill") /\ Step(t, h) /\ frame' = [frame EXCEPT ![t] = f]
  BY DEF WriteServed, SiblingYields
<1> HIDE DEF h, reply
<1>7. /\ f \in Frames /\ f.cpu = frame[t].cpu /\ f.request = frame[t].request
      /\ f.ld = reply
  BY <1>1, <1>4, Here DEF Frames
<1> HIDE DEF f
<1>8. Stage("writeFill", before, h, f)
  BY <1>1, <1>2, <1>5, <1>7, Here DEF Stage, StageOfWrite
<1> QED BY <1>1, <1>6, <1>7, <1>8, Advance DEF Labels

LEMMA WriteUnservedStep ==
  ASSUME ContainerInv, NEW t \in Tids, WriteUnserved(t)
  PROVE  ContainerInv'
<1> DEFINE h == WriteRemoteAction(hier, Cpu(t), Tag(t))
<1>1. InCall(t) /\ pc[t] = "writeSnoop" /\ ValidCopies(hier, Cpu(t), Tag(t)) = {}
  BY DEF WriteUnserved, NobodyYields, InCall
<1>2. /\ ~Reads(t) /\ hier = WriteMissed(before, Cpu(t), Tag(t))
      /\ ~HitsIn(before, Cpu(t), Tag(t))
  BY <1>1, Here DEF Stage, StageOfWrite
<1>3. Stage("below", before, h, frame[t])
  BY <1>1, <1>2, Here DEF Stage, StageOfWrite
<1>4. Goto(t, "below") /\ Step(t, h) /\ UNCHANGED frame
  BY DEF WriteUnserved, NobodyYields
<1> HIDE DEF h
<1> QED BY <1>1, <1>3, <1>4, AdvanceSameFrame DEF Labels

LEMMA WriteFillStep ==
  ASSUME ContainerInv, NEW t \in Tids, WriteFill(t)
  PROVE  ContainerInv'
<1> DEFINE r == Request(t)
           h == FillLine(hier, Cpu(t), Tag(t), "M", [frame[t].ld EXCEPT ![r.word] = r.val], LLCWrite)
           missed == WriteMissed(before, Cpu(t), Tag(t))
<1>1. InCall(t) /\ pc[t] = "writeFill"
  BY DEF WriteFill, WriteFills, InCall
<1>2. /\ ~Reads(t) /\ ~HitsIn(before, Cpu(t), Tag(t))
      /\ hier = Acquired(missed, Cpu(t), Tag(t)).hier
      /\ frame[t].ld = Acquired(missed, Cpu(t), Tag(t)).data
  BY <1>1, Here DEF Stage, StageOfWrite
<1>3. WriteMissOf(before, Cpu(t), Tag(t), r.word, r.val) = h
  BY <1>2 DEF WriteMissOf, Acquired
<1>4. Goto(t, "return") /\ Step(t, h) /\ UNCHANGED frame
  BY DEF WriteFill, WriteFills
<1> HIDE DEF h, missed
<1>5. Stage("return", before, h, frame[t])
  BY <1>1, <1>2, <1>3, Here DEF Stage, StageOfWrite, AccessOf, WriteOf
<1> QED BY <1>1, <1>4, <1>5, AdvanceSameFrame DEF Labels

LEMMA LookupUpgradeStep ==
  ASSUME ContainerInv, NEW t \in Tids, LookupUpgrade(t)
  PROVE  ContainerInv'
<1> DEFINE h == Look(hier, Cpu(t), Tag(t))
<1>1. /\ InCall(t) /\ pc[t] = "lookup" /\ ~Reads(t) /\ HitsIn(hier, Cpu(t), Tag(t))
      /\ StateOf(hier, Cpu(t), Tag(t)) = "S"
  BY DEF LookupUpgrade, Upgrades, InCall
<1>2. hier = before
  BY <1>1, Here DEF Stage
<1>3. Stage("upgradeSnoop", before, h, frame[t])
  BY <1>1, <1>2, Here DEF Stage, StageOfWrite
<1>4. Goto(t, "upgradeSnoop") /\ Step(t, h) /\ UNCHANGED frame
  BY DEF LookupUpgrade, Upgrades
<1> HIDE DEF h
<1> QED BY <1>1, <1>3, <1>4, AdvanceSameFrame DEF Labels

LEMMA UpgradeSnoopStep ==
  ASSUME ContainerInv, NEW t \in Tids, UpgradeSnoop(t)
  PROVE  ContainerInv'
<1> DEFINE h == UpgradeSnooped(hier, Cpu(t), Tag(t), Request(t).word, Request(t).val)
<1>1. InCall(t) /\ pc[t] = "upgradeSnoop"
  BY DEF UpgradeSnoop, UpgradeTold, InCall
<1>2. /\ ~Reads(t) /\ hier = Look(before, Cpu(t), Tag(t))
      /\ HitsIn(before, Cpu(t), Tag(t)) /\ StateOf(before, Cpu(t), Tag(t)) = "S"
  BY <1>1, Here DEF Stage, StageOfWrite
<1>3. Stage("put", before, h, frame[t])
  BY <1>1, <1>2, Here DEF Stage, StageOfWrite
<1>4. Goto(t, "put") /\ Step(t, h) /\ UNCHANGED frame
  BY DEF UpgradeSnoop, UpgradeTold, UpgradeFirst
<1> HIDE DEF h
<1> QED BY <1>1, <1>3, <1>4, AdvanceSameFrame DEF Labels

LEMMA PutStep ==
  ASSUME ContainerInv, NEW t \in Tids, Put(t)
  PROVE  ContainerInv'
<1> DEFINE h == PutOwned(hier, Cpu(t), Tag(t), Request(t).word, Request(t).val)
<1>1. InCall(t) /\ pc[t] = "put"
  BY DEF Put, Puts, InCall
<1>2. /\ ~Reads(t) /\ HitsIn(before, Cpu(t), Tag(t)) /\ StateOf(before, Cpu(t), Tag(t)) = "S"
      /\ hier = UpgradeSnooped(Look(before, Cpu(t), Tag(t)), Cpu(t), Tag(t),
                               Request(t).word, Request(t).val)
  BY <1>1, Here DEF Stage, StageOfWrite
<1>3. WriteUpgradeOf(before, Cpu(t), Tag(t), Request(t).word, Request(t).val) = h
  BY <1>2 DEF WriteUpgradeOf
<1>4. Goto(t, "return") /\ Step(t, h) /\ UNCHANGED frame
  BY DEF Put, Puts
<1> HIDE DEF h
<1>5. Stage("return", before, h, frame[t])
  BY <1>1, <1>2, <1>3, Here DEF Stage, StageOfWrite, AccessOf, WriteOf
<1> QED BY <1>1, <1>4, <1>5, AdvanceSameFrame DEF Labels

LEMMA LookupWriteHitStep ==
  ASSUME ContainerInv, NEW t \in Tids, LookupWriteHit(t)
  PROVE  ContainerInv'
<1> DEFINE h == WriteHitOf(hier, Cpu(t), Tag(t), Request(t).word, Request(t).val)
<1>1. /\ InCall(t) /\ pc[t] = "lookup" /\ ~Reads(t) /\ HitsIn(hier, Cpu(t), Tag(t))
      /\ StateOf(hier, Cpu(t), Tag(t)) # "S"
  BY DEF LookupWriteHit, WriteHits, InCall
<1>2. hier = before
  BY <1>1, Here DEF Stage
<1>3. Goto(t, "return") /\ Step(t, h) /\ UNCHANGED frame
  BY DEF LookupWriteHit, WriteHits
<1>4. Stage("return", before, h, frame[t])
  BY <1>1, <1>2, Here DEF Stage, StageOfWrite, AccessOf, WriteOf
<1> HIDE DEF h
<1> QED BY <1>1, <1>3, <1>4, AdvanceSameFrame DEF Labels

(* At the end of an access its line is in front, so that the second lookup *)
(* of readWord finds it and moves nothing.                                 *)
LEMMA AtTheEnd ==
  ASSUME ContainerInv, NEW t \in Tids, pc[t] = "return"
  PROVE  /\ hier = AccessOf(before, tidToCPUId(t), Request(t)) /\ Coherent(hier)
         /\ Look(hier, Cpu(t), Tag(t)) = hier /\ HitsIn(hier, Cpu(t), Tag(t))
<1>1. InCall(t) /\ Cpu(t) = tidToCPUId(t)
  BY DEF InCall, ContainerInv, AccessInv
<1>2. hier = AccessOf(before, Cpu(t), Request(t))
  BY <1>1, Here DEF Stage
<1>3. Request(t) \in Requests /\ Tag(t) = CalcTag(Request(t).line)
  BY <1>1, Here, FrameFacts
<1>4. Coherent(hier) /\ ValidInFront(hier, Cpu(t), Tag(t))
  BY <1>1, <1>2, <1>3, Here, AccessFront
<1> QED BY <1>1, <1>2, <1>4, Here, LookFront

LEMMA ReturnStep ==
  ASSUME ContainerInv, NEW t \in Tids, Return(t)
  PROVE  /\ ContainerInv'
         /\ pc[t] = "return" /\ before' = AccessOf(before, tidToCPUId(t), Request(t))
<1>1. /\ pc[t] = "return" /\ pc' = [pc EXCEPT ![t] = "idle"] /\ privateCachesLock' = FREE
      /\ frame' = [frame EXCEPT ![t] = NoFrame]
  BY DEF Return, Leaves, Goto
<1>2. hier' = hier /\ before' = hier
  BY <1>1, AtTheEnd DEF Return, Leaves, LastLookup
<1>3. /\ pc \in [Tids -> Labels] /\ frame \in [Tids -> Frames \cup {NoFrame}]
      /\ \A u \in Tids : InCall(u) => u = t
  BY <1>1 DEF ContainerInv, PlaceInv, OneAtATime, InCall
<1>4. /\ pc'[t] = "idle" /\ frame'[t] = NoFrame
      /\ \A u \in Tids \ {t} : pc'[u] = pc[u] /\ frame'[u] = frame[u]
  BY <1>1, <1>3
<1>5. \A u \in Tids : ~InCall(u)'
  BY <1>3, <1>4 DEF InCall
<1>6. PlaceInv'
  <2>1. pc' \in [Tids -> Labels] /\ frame' \in [Tids -> Frames \cup {NoFrame}]
    BY <1>1, <1>3 DEF Labels
  <2>2. \A u \in Tids : frame'[u] = NoFrame
    BY <1>3, <1>4 DEF ContainerInv, PlaceInv
  <2>3. OneAtATime'
    BY <1>1, <1>5, TidFacts DEF OneAtATime
  <2> QED BY <1>1, <1>5, <2>1, <2>2, <2>3 DEF PlaceInv
<1>7. AccessInv'
  BY <1>1, <1>2, <1>5, AtTheEnd DEF AccessInv
<1> QED BY <1>1, <1>2, <1>6, <1>7, AtTheEnd DEF ContainerInv

(* Every step keeps it.                                                    *)
LEMMA NextInv == ContainerInv /\ [ContainerNext]_vars => ContainerInv'
<1> SUFFICES ASSUME ContainerInv, [ContainerNext]_vars PROVE ContainerInv'
  OBVIOUS
<1>1. CASE UNCHANGED vars
  BY <1>1 DEF vars, ContainerInv, PlaceInv, AccessInv, OneAtATime, InCall, Cpu
<1>2. CASE ContainerNext
  <2>1. PICK t \in Tids : GetLock(t) \/ ReadWord(t) \/ WriteWord(t) \/ Return(t)
    BY <1>2 DEF ContainerNext
  <2>2. CASE ReadWord(t)
    BY <2>2, LookupReadHitStep, LookupReadMissStep, ReadServedStep, ReadUnservedStep,
       AskParentStep, ReadFillStep DEF ReadWord
  <2>3. CASE WriteWord(t)
    BY <2>3, LookupWriteMissStep, WriteServedStep, WriteUnservedStep, WriteFillStep,
       LookupUpgradeStep, UpgradeSnoopStep, PutStep, LookupWriteHitStep DEF WriteWord
  <2> QED BY <2>1, <2>2, <2>3, GetLockStep, ReturnStep
<1> QED BY <1>1, <1>2

(* So it always holds.                                                     *)
LEMMA AlwaysInv == ContainerSpec => []ContainerInv
<1>1. ContainerInit => ContainerInv
  BY InitInv
<1>2. ContainerInv /\ [ContainerNext]_vars => ContainerInv'
  BY NextInv
<1> QED BY <1>1, <1>2, PTL DEF ContainerSpec

(* The hierarchy is coherent even in the middle of an access.              *)
LEMMA InvCoherent == ContainerInv => Coherent(hier) /\ Coherent(before)
<1> SUFFICES ASSUME ContainerInv PROVE Coherent(hier)
  BY DEF ContainerInv, AccessInv
<1>1. CASE \A t \in Tids : ~InCall(t)
  BY <1>1 DEF ContainerInv, AccessInv
<1>2. ASSUME NEW t \in Tids, InCall(t) PROVE Coherent(hier)
  <2>1. pc[t] \in Labels \ {"idle"}
    BY <1>2 DEF ContainerInv, PlaceInv, InCall
  <2> QED BY <1>2, <2>1, Here, StageCoherent
<1> QED BY <1>1, <1>2

(* The steps of an access and the branches they take.                      *)
LEMMA StepsMove ==
  ASSUME NEW t \in Tids, ReadWord(t) \/ WriteWord(t) \/ Return(t)
  PROVE  Moves(t)
BY DEF ReadWord, WriteWord, Moves, LookupReadHit, LookupReadMiss, ReadServed, ReadUnserved,
       AskParent, ReadFill, LookupWriteMiss, WriteServed, WriteUnserved, WriteFill,
       LookupUpgrade, UpgradeSnoop, Put, LookupWriteHit, Return

LEMMA MovesMove ==
  ASSUME NEW t \in Tids, Moves(t), pc \in [Tids -> Labels]
  PROVE  /\ pc[t] # "idle" /\ pc'[t] # pc[t]
         /\ \E label \in Labels : pc' = [pc EXCEPT ![t] = label]
<1>1. \E from \in Labels, to \in Labels :
        pc[t] = from /\ from # to /\ from # "idle" /\ pc' = [pc EXCEPT ![t] = to]
  BY DEF Moves, Goto, Labels, ReadHits, ReadMisses, SiblingReads, NobodyReads, ParentAnswers,
         ReadFills, WriteMisses, SiblingYields, NobodyYields, WriteFills, Upgrades, UpgradeTold,
         Puts, WriteHits, Leaves
<1> QED BY <1>1

(* Only a release ends an access.                                          *)
LEMMA ReturnsReturn ==
  ASSUME ContainerInv, ContainerNext, NEW t \in Tids, Returns(t)
  PROVE  Return(t)
<1>1. PICK u \in Tids : GetLock(u) \/ ReadWord(u) \/ WriteWord(u) \/ Return(u)
  BY DEF ContainerNext
<1>2. pc \in [Tids -> Labels]
  BY DEF ContainerInv, PlaceInv
<1>3. pc' = pc \/ \E label \in Labels : pc' = [pc EXCEPT ![u] = label]
  BY <1>1, <1>2, StepsMove, MovesMove DEF GetLock, Goto, Labels
<1>4. u = t
  BY <1>2, <1>3 DEF Returns
<1>5. ~GetLock(t)
  BY DEF GetLock, Returns
<1>6. ~ReadWord(t) /\ ~WriteWord(t)
  <2>1. ASSUME ReadWord(t) \/ WriteWord(t)
        PROVE  pc[t] # "return"
    BY <2>1 DEF ReadWord, WriteWord, LookupReadHit, LookupReadMiss, ReadServed, ReadUnserved,
       AskParent, ReadFill, LookupWriteMiss, WriteServed, WriteUnserved, WriteFill,
       LookupUpgrade, UpgradeSnoop, Put, LookupWriteHit, ReadHits, ReadMisses, SiblingReads,
       NobodyReads, ParentAnswers, ReadFills, WriteMisses, SiblingYields, NobodyYields,
       WriteFills, Upgrades, UpgradeTold, Puts, WriteHits
  <2> QED BY <2>1 DEF Returns
<1> QED BY <1>1, <1>4, <1>5, <1>6

-----------------------------------------------------------------------------
(* The theorems.                                                           *)

(* Type correctness of the container's threads and of both hierarchies.    *)
THEOREM ContainerTypeCorrect == ContainerSpec => []ContainerTypeOK
<1>1. ContainerInv => ContainerTypeOK
  <2> SUFFICES ASSUME ContainerInv PROVE ContainerTypeOK
    OBVIOUS
  <2>1. HierType(hier) /\ HierType(before)
    BY InvCoherent DEF Coherent, Good
  <2>2. \A t \in Tids : frame[t] # NoFrame <=> InCall(t)
    BY FrameFacts DEF ContainerInv, PlaceInv
  <2> QED BY <2>1, <2>2 DEF ContainerInv, PlaceInv, ContainerTypeOK
<1> QED BY <1>1, AlwaysInv, PTL

(* privateCachesLock keeps all but one thread out of the accesses, for any *)
(* thread ids; and no thread has it without being inside one, but one whose*)
(* id is negative as an int and which found no cache.                      *)
THEOREM MutualExclusion == ContainerSpec => []OneAtATime
<1>1. ContainerInv => OneAtATime
  BY DEF ContainerInv, PlaceInv
<1> QED BY <1>1, AlwaysInv, PTL

(* A line modified in one private cache is valid in no other, not even     *)
(* between the lookup, the snoop and the fill of an access.                *)
THEOREM OneWriterInside == ContainerSpec => []SingleWriter
<1>1. ContainerInv => SingleWriter
  BY InvCoherent, CoherentImplies
<1> QED BY <1>1, AlwaysInv, PTL

(* Whatever access comes next in whatever reachable state, getStateAsInt of*)
(* its line finds it afterwards and changes nothing.                       *)
THEOREM ProbesAreHarmless == Spec => []ProbeAfterAccess
<1>1. Coherent(hier) => ProbeAfterAccess
  <2> SUFFICES ASSUME Coherent(hier), NEW c \in Cpus, NEW l \in Lines, NEW w \in Words
               PROVE  /\ Harmless(ReadOf(hier, c, CalcTag(l), w), c, CalcTag(l))
                      /\ \A v \in Values : Harmless(WriteOf(hier, c, CalcTag(l), w, v), c, CalcTag(l))
    BY DEF ProbeAfterAccess
  <2>1. ASSUME NEW r \in Requests, r.line = l PROVE Harmless(AccessOf(hier, c, r), c, CalcTag(l))
    <3>1. CalcTag(l) \in Tags
      BY IndexFacts
    <3>2. /\ Coherent(AccessOf(hier, c, r))
          /\ ValidInFront(AccessOf(hier, c, r), c, CalcTag(l))
      BY <2>1, AccessFront
    <3> QED BY <3>1, <3>2, LookFront DEF Harmless, getStateAsInt
  <2>2. Harmless(ReadOf(hier, c, CalcTag(l), w), c, CalcTag(l))
    <3> DEFINE r == [op |-> "read", line |-> l, word |-> w]
    <3>1. r \in Requests /\ r.line = l /\ AccessOf(hier, c, r) = ReadOf(hier, c, CalcTag(l), w)
      BY DEF Requests, AccessOf
    <3> QED BY <2>1, <3>1
  <2>3. ASSUME NEW v \in Values PROVE Harmless(WriteOf(hier, c, CalcTag(l), w, v), c, CalcTag(l))
    <3> DEFINE r == [op |-> "write", line |-> l, word |-> w, val |-> v]
    <3>1. r \in Requests /\ r.line = l /\ AccessOf(hier, c, r) = WriteOf(hier, c, CalcTag(l), w, v)
      BY DEF Requests, AccessOf
    <3> QED BY <2>1, <3>1
  <2> QED BY <2>2, <2>3
<1>2. Spec => []Coherent(hier)
  <2>1. Init => Coherent(hier)
    BY InitCoherent
  <2>2. Coherent(hier) /\ [Next]_hier => Coherent(hier)'
    BY NextCoherent
  <2> QED BY <2>1, <2>2, PTL DEF Spec
<1> QED BY <1>1, <1>2, PTL

(* The fairness that the liveness of the lock assumes is of the threads'   *)
(* own steps: in a step of the system, a thread moves as Moves says exactly*)
(* if the step is one of readWord, writeWord or the release by that thread.*)
THEOREM FairnessIsOfSteps ==
  ContainerSpec => [][\A t \in Tids : Moves(t) <=> (ReadWord(t) \/ WriteWord(t) \/ Return(t))]_vars
<1> DEFINE Same == \A t \in Tids : Moves(t) <=> (ReadWord(t) \/ WriteWord(t) \/ Return(t))
<1>1. ContainerInv /\ [ContainerNext]_vars => [Same]_vars
  <2> SUFFICES ASSUME ContainerInv, ContainerNext, NEW t \in Tids
               PROVE  Moves(t) <=> (ReadWord(t) \/ WriteWord(t) \/ Return(t))
    OBVIOUS
  <2>1. ASSUME ReadWord(t) \/ WriteWord(t) \/ Return(t) PROVE Moves(t)
    BY <2>1, StepsMove
  <2>2. ASSUME Moves(t) PROVE ReadWord(t) \/ WriteWord(t) \/ Return(t)
    <3>1. PICK u \in Tids : GetLock(u) \/ ReadWord(u) \/ WriteWord(u) \/ Return(u)
      BY DEF ContainerNext
    <3>2. pc \in [Tids -> Labels]
      BY DEF ContainerInv, PlaceInv
    <3>3. pc[t] # "idle" /\ pc'[t] # pc[t]
      BY <2>2, <3>2, MovesMove
    <3>4. pc' = pc \/ \E label \in Labels : pc' = [pc EXCEPT ![u] = label]
      BY <3>1, <3>2, StepsMove, MovesMove DEF GetLock, Goto, Labels
    <3>5. u = t
      BY <3>2, <3>3, <3>4
    <3> QED BY <3>1, <3>3, <3>5 DEF GetLock
  <2> QED BY <2>1, <2>2
<1> QED BY <1>1, AlwaysInv, PTL DEF ContainerSpec

(* From one release of the lock to the next the hierarchy makes exactly    *)
(* one whole access of MSI_SMPCache, that of the thread that releases it.  *)
THEOREM Atomicity == ContainerSpec => AccessesAreAtomic
<1>1. ContainerInv /\ [ContainerNext]_vars => [\E t \in Tids : WholeAccess(t)]_before
  <2> SUFFICES ASSUME ContainerInv, ContainerNext, before' # before
               PROVE  \E t \in Tids : WholeAccess(t)
    BY DEF vars
  <2>1. PICK t \in Tids : GetLock(t) \/ ReadWord(t) \/ WriteWord(t) \/ Return(t)
    BY DEF ContainerNext
  <2>2. Return(t)
    BY <2>1 DEF GetLock, ReadWord, WriteWord, Step, LookupReadHit, ReadHits, LookupReadMiss, ReadMisses, ReadServed, SiblingReads,
                ReadUnserved, NobodyReads, AskParent, ParentAnswers, ReadFill, ReadFills, LookupWriteMiss, WriteMisses, WriteServed, SiblingYields, WriteUnserved, NobodyYields,
                WriteFill, WriteFills, LookupUpgrade, Upgrades, UpgradeSnoop, UpgradeTold, Put, Puts, LookupWriteHit, WriteHits
  <2> QED BY <2>2, ReturnStep DEF WholeAccess
<1> QED BY <1>1, AlwaysInv, PTL DEF ContainerSpec, AccessesAreAtomic

-----------------------------------------------------------------------------
(* Whole accesses.                                                         *)

LEMMA RequestFacts ==
  ASSUME NEW r \in Requests
  PROVE  /\ r.line \in Lines /\ r.word \in Words /\ CalcTag(r.line) \in Used
         /\ r.op # "read" => r.val \in Values
BY DEF Requests, Used

(* What an access makes of the content of its line.                        *)
ContentAfter(content, r) ==
  IF r.op = "read" THEN content ELSE [content EXCEPT ![r.word] = r.val]

(* An access keeps the hierarchy sound and changes the content of no other *)
(* line; a read does not change that of its own, a write stores its value. *)
LEMMA AccessSound ==
  ASSUME NEW h, Sound(h), NEW c \in Cpus, NEW r \in Requests
  PROVE  LET t == CalcTag(r.line)
         IN  /\ KeepsOthers(AccessOf(h, c, r), h, t)
             /\ Content(AccessOf(h, c, r), t) = ContentAfter(Content(h, t), r)
<1> DEFINE t == CalcTag(r.line)
           w == r.word
<1>1. t \in Used /\ w \in Words /\ (r.op # "read" => r.val \in Values)
  BY RequestFacts
<1> HIDE DEF t, w
<1>2. CASE r.op = "read" /\ HitsIn(h, c, t)
  <2>1. AccessOf(h, c, r) = ReadHitOf(h, c, t)
    BY <1>2 DEF AccessOf, ReadOf, t, w
  <2> QED BY <1>1, <1>2, <2>1, ReadHitSound DEF ContentAfter, t
<1>3. CASE r.op = "read" /\ ~HitsIn(h, c, t)
  <2>1. AccessOf(h, c, r) = ReadMissOf(h, c, t, w)
    BY <1>3 DEF AccessOf, ReadOf, t, w
  <2> QED BY <1>1, <1>3, <2>1, ReadMissSound DEF ContentAfter, t
<1>4. CASE r.op # "read"
  <2>1. AccessOf(h, c, r) = WriteOf(h, c, t, w, r.val)
    BY <1>4 DEF AccessOf, t, w
  <2>2. CASE ~HitsIn(h, c, t)
    <3>1. AccessOf(h, c, r) = WriteMissOf(h, c, t, w, r.val)
      BY <2>1, <2>2 DEF WriteOf
    <3> QED BY <1>1, <1>4, <2>2, <3>1, WriteMissSound DEF ContentAfter, t, w
  <2>3. CASE HitsIn(h, c, t) /\ StateOf(h, c, t) = "S"
    <3>1. AccessOf(h, c, r) = WriteUpgradeOf(h, c, t, w, r.val)
      BY <2>1, <2>3 DEF WriteOf
    <3> QED BY <1>1, <1>4, <2>3, <3>1, WriteUpgradeSound DEF ContentAfter, t, w
  <2>4. CASE HitsIn(h, c, t) /\ StateOf(h, c, t) # "S"
    <3>1. AccessOf(h, c, r) = WriteHitOf(h, c, t, w, r.val)
      BY <2>1, <2>4 DEF WriteOf
    <3> QED BY <1>1, <1>4, <2>4, <3>1, WriteHitSound DEF ContentAfter, t, w
  <2> QED BY <2>2, <2>3, <2>4
<1> QED BY <1>2, <1>3, <1>4 DEF t

-----------------------------------------------------------------------------
(* The places inside an access.                                            *)

(* What a write miss has acquired, and from whom, leaves a sound hierarchy.*)
LEMMA AcquiredSound ==
  ASSUME NEW h, Sound(h), NEW c \in Cpus, NEW t \in Used
  PROVE  Sound(WriteRemoteAction(h, c, t)) /\ Sound(Acquired(h, c, t).hier)
<1> DEFINE alone == WriteRemoteAction(h, c, t)
<1>1. Sound(alone) /\ Fine(alone)
  BY WriteRemoteSound, SoundIsFine DEF KeepsOthers
<1>2. Acquired(h, c, t).hier = alone \/ Acquired(h, c, t).hier = LLCRead(alone, t).hier
  BY DEF Acquired
<1> HIDE DEF alone
<1>3. Sound(LLCRead(alone, t).hier)
  BY <1>1, LLCReadKeeps, BelowSound DEF KeepsOthers
<1> QED BY <1>1, <1>2, <1>3 DEF alone

(* The copies of every line agree at every place of an access.             *)
LEMMA StageSound ==
  ASSUME NEW b, Sound(b), NEW h, NEW f \in Frames, NEW label \in Labels \ {"idle"},
         Stage(label, b, h, f)
  PROVE  Sound(h)
<1> DEFINE c == f.cpu
           t == CalcTag(f.request.line)
           r == f.request
<1>1. c \in Cpus /\ r \in Requests /\ r.word \in Words /\ t \in Used /\ t \in Tags
  BY FrameFacts, RequestFacts
<1>2. CASE label = "lookup"
  BY <1>2 DEF Stage
<1>3. CASE label = "return"
  <2>1. h = AccessOf(b, c, r)
    BY <1>3 DEF Stage
  <2> QED BY <1>1, <2>1, AccessSound DEF KeepsOthers
<1>4. CASE r.op = "read" /\ label \in {"readSnoop", "below", "readFill"}
  <2> DEFINE missed == ReadMissed(b, c, t)
  <2>1. ~HitsIn(b, c, t)
    BY <1>4 DEF Stage, StageOfRead
  <2>2. Sound(missed) /\ Holds(missed, c, t) = NoData
    <3>1. c \in Caches /\ Good(b)
      BY <1>1, CacheFacts, SoundIsFine
    <3>2. Holds(b, c, t) = NoData
      BY <1>1, <2>1, <3>1, HoldsFacts
    <3> QED BY <1>1, <3>1, <3>2, LookSound DEF ReadMissed, KeepsOthers
  <2>3. h = missed \/ h = ReadRemoteAction(missed, c, t) \/ h = Fetch(missed, c, t).hier
    BY <1>4 DEF Stage, StageOfRead
  <2> HIDE DEF missed, c, t
  <2> QED BY <1>1, <2>2, <2>3, FetchSound, ReadRemoteSound DEF KeepsOthers
<1>5. CASE r.op # "read" /\ label \in {"writeSnoop", "below", "writeFill"}
  <2> DEFINE missed == WriteMissed(b, c, t)
  <2>1. Sound(missed)
    BY <1>1, LookSound DEF WriteMissed, KeepsOthers
  <2>2. h = missed \/ h = WriteRemoteAction(missed, c, t) \/ h = Acquired(missed, c, t).hier
    BY <1>5 DEF Stage, StageOfWrite
  <2> HIDE DEF missed, c, t
  <2> QED BY <1>1, <2>1, <2>2, AcquiredSound
<1>6. CASE r.op # "read" /\ label \in {"upgradeSnoop", "put"}
  <2> DEFINE looked == Look(b, c, t)
  <2>1. HitsIn(b, c, t) /\ r.val \in Values
    BY <1>6, FrameFacts DEF Stage, StageOfWrite
  <2>2. Sound(looked) /\ ValidInFront(looked, c, t)
    BY <1>1, <2>1, LookSound, WriteUpgradeCoherent, SoundIsFine
  <2>3. h = looked \/ h = UpgradeSnooped(looked, c, t, r.word, r.val)
    BY <1>6 DEF Stage, StageOfWrite
  <2> HIDE DEF looked, c, t
  <2> QED BY <1>1, <2>1, <2>2, <2>3, UpgradeSnoopSound DEF KeepsOthers
<1> QED BY <1>2, <1>3, <1>4, <1>5, <1>6 DEF Labels, Stage

-----------------------------------------------------------------------------
(* The inductive invariant.                                                *)

(* The pointer that readWord returns its word through is the one it took at*)
(* its first lookup, as the fill left it.                                  *)
PointerFor(b, c, tag) ==
  IF HitsIn(b, c, tag) THEN 1
  ELSE PointerAfterFill(Pointer(RowOf(b, c, tag), tag), RowOf(Look(b, c, tag), c, tag), tag)

PointerInv == \A t \in Tids :
  (pc[t] = "return" /\ Reads(t)) => frame[t].st = PointerFor(before, Cpu(t), Tag(t))

MemoryInv == ContainerInv /\ Sound(before) /\ PointerInv

(* Who is outside keeps what it has; before changes only at a release.     *)
LEMMA OneMoves ==
  ASSUME ContainerInv, NEW t \in Tids, ReadWord(t) \/ WriteWord(t)
  PROVE  /\ before' = before /\ InCall(t)
         /\ \A u \in Tids \ {t} : pc'[u] = "idle"
         /\ pc \in [Tids -> Labels] /\ frame \in [Tids -> Frames \cup {NoFrame}]
<1>1. /\ before' = before /\ InCall(t)
      /\ \E label \in Labels : pc' = [pc EXCEPT ![t] = label]
  BY DEF ReadWord, WriteWord, Step, Goto, LookupReadHit, ReadHits, LookupReadMiss, ReadMisses, ReadServed, SiblingReads,
         ReadUnserved, NobodyReads, AskParent, ParentAnswers, ReadFill, ReadFills, LookupWriteMiss, WriteMisses, WriteServed, SiblingYields, WriteUnserved, NobodyYields,
         WriteFill, WriteFills, LookupUpgrade, Upgrades, UpgradeSnoop, UpgradeTold, Put, Puts, LookupWriteHit, WriteHits, InCall, Labels
<1>2. pc \in [Tids -> Labels] /\ frame \in [Tids -> Frames \cup {NoFrame}]
  BY DEF ContainerInv, PlaceInv
<1>3. \A u \in Tids \ {t} : pc[u] = "idle"
  BY <1>1 DEF ContainerInv, PlaceInv, OneAtATime, InCall
<1> QED BY <1>1, <1>2, <1>3

(* The fill of a read miss looks at the row as the lookup left it.         *)
LEMMA PointerOfFill ==
  ASSUME ContainerInv, NEW t \in Tids, ReadFill(t)
  PROVE  PointerAfterFill(frame[t].st, RowOf(hier, Cpu(t), Tag(t)), Tag(t))
           = PointerFor(before, Cpu(t), Tag(t))
<1> DEFINE c == Cpu(t)
           tag == Tag(t)
           missed == ReadMissed(before, c, tag)
<1>1. InCall(t) /\ pc[t] = "readFill"
  BY DEF ReadFill, ReadFills, InCall
<1>2. /\ hier = Fetch(missed, c, tag).hier /\ ~HitsIn(before, c, tag)
      /\ frame[t].st = Pointer(RowOf(before, c, tag), tag)
  BY <1>1, Here DEF Stage, StageOfRead
<1>3. c \in Cpus /\ tag \in Tags /\ Coherent(before)
  BY <1>1, Here
<1>4. Coherent(missed) /\ missed.cache = Look(before, c, tag).cache
  BY <1>3, AccessLook DEF ReadMissed
<1> HIDE DEF missed, c, tag
<1>5. RowOf(hier, c, tag) = RowOf(missed, c, tag)
  BY <1>2, <1>3, <1>4, FetchOwnRow
<1>6. RowOf(missed, c, tag) = RowOf(Look(before, c, tag), c, tag)
  BY <1>4 DEF RowOf
<1> QED BY <1>2, <1>5, <1>6 DEF PointerFor, c, tag

LEMMA PointerStep ==
  ASSUME ContainerInv, PointerInv, NEW t \in Tids, ReadWord(t) \/ WriteWord(t)
  PROVE  PointerInv'
<1>1. /\ before' = before /\ InCall(t)
      /\ \A u \in Tids \ {t} : pc'[u] = "idle"
      /\ pc \in [Tids -> Labels] /\ frame \in [Tids -> Frames \cup {NoFrame}]
  BY OneMoves
<1> SUFFICES ASSUME pc'[t] = "return", frame'[t].request.op = "read"
             PROVE  frame'[t].st = PointerFor(before, frame'[t].cpu, CalcTag(frame'[t].request.line))
  BY <1>1 DEF PointerInv, Reads, Request, Cpu, Tag
<1>2. CASE LookupReadHit(t)
  <2>1. pc[t] = "lookup" /\ HitsIn(hier, Cpu(t), Tag(t)) /\ frame' = [frame EXCEPT ![t].st = 1]
    BY <1>2 DEF LookupReadHit, ReadHits
  <2>2. hier = before /\ frame[t] \in Frames
    BY <1>1, <2>1, Here DEF Stage
  <2>3. frame'[t].st = 1 /\ frame'[t].cpu = Cpu(t) /\ CalcTag(frame'[t].request.line) = Tag(t)
    BY <1>1, <2>1, <2>2 DEF Frames, Cpu, Tag, Request
  <2> QED BY <2>1, <2>2, <2>3 DEF PointerFor
<1>3. CASE ReadFill(t)
  <2> DEFINE st == PointerAfterFill(frame[t].st, RowOf(hier, Cpu(t), Tag(t)), Tag(t))
  <2>1. frame' = [frame EXCEPT ![t].st = st]
    BY <1>1, <1>3 DEF ReadFill, ReadFills
  <2>2. frame[t] \in Frames
    BY <1>1, Here
  <2>3. st = PointerFor(before, Cpu(t), Tag(t))
    BY <1>3, PointerOfFill
  <2> HIDE DEF st
  <2>4. frame'[t].st = st /\ frame'[t].cpu = Cpu(t) /\ CalcTag(frame'[t].request.line) = Tag(t)
    BY <1>1, <2>1, <2>2 DEF Frames, Cpu, Tag, Request
  <2> QED BY <2>3, <2>4
<1>4. CASE WriteFill(t) \/ Put(t) \/ LookupWriteHit(t)
  <2>1. ~Reads(t) /\ frame' = frame
    <3>1. pc[t] \in {"writeFill", "put"} \/ ~Reads(t)
      BY <1>4 DEF WriteFill, WriteFills, Put, Puts, LookupWriteHit, WriteHits
    <3>2. pc[t] \in {"writeFill", "put"} => ~Reads(t)
      BY <1>1, Here DEF Stage
    <3> QED BY <1>4, <3>1, <3>2 DEF WriteFill, WriteFills, Put, Puts, LookupWriteHit, WriteHits
  <2> QED BY <2>1 DEF Reads, Request
<1>5. CASE \/ LookupReadMiss(t) \/ ReadServed(t) \/ ReadUnserved(t) \/ AskParent(t)
           \/ LookupWriteMiss(t) \/ WriteServed(t) \/ WriteUnserved(t)
           \/ LookupUpgrade(t) \/ UpgradeSnoop(t)
  <2>1. \E label \in Labels \ {"return"} : pc' = [pc EXCEPT ![t] = label]
    BY <1>5 DEF Step, Goto, LookupReadMiss, ReadMisses, ReadServed, SiblingReads, ReadUnserved, NobodyReads, AskParent, ParentAnswers,
                LookupWriteMiss, WriteMisses, WriteServed, SiblingYields, WriteUnserved, NobodyYields, LookupUpgrade, Upgrades, UpgradeSnoop, UpgradeTold, Labels
  <2> QED BY <1>1, <2>1
<1> QED BY <1>2, <1>3, <1>4, <1>5 DEF ReadWord, WriteWord

(* It holds at the start.                                                  *)
LEMMA MemoryInvInit == ContainerInit => MemoryInv
<1>1. ContainerInit => Sound(before)
  BY InitSound DEF ContainerInit
<1>2. ContainerInit => PointerInv
  BY DEF ContainerInit, PointerInv
<1> QED BY <1>1, <1>2, InitInv DEF MemoryInv

(* Every step keeps it.                                                    *)
LEMMA MemoryInvNext == MemoryInv /\ [ContainerNext]_vars => MemoryInv'
<1> SUFFICES ASSUME MemoryInv, [ContainerNext]_vars PROVE Sound(before') /\ PointerInv'
  BY NextInv DEF MemoryInv, Sound, Coherent, Good, Exclusive, HierType, Homed, Agreed
<1>1. CASE UNCHANGED vars
  BY <1>1 DEF vars, MemoryInv, PointerInv, Reads, Request, Cpu, Tag
<1>2. CASE ContainerNext
  <2>1. PICK t \in Tids : GetLock(t) \/ ReadWord(t) \/ WriteWord(t) \/ Return(t)
    BY <1>2 DEF ContainerNext
  <2>2. pc \in [Tids -> Labels] /\ ContainerInv /\ PointerInv /\ Sound(before)
    BY DEF MemoryInv, ContainerInv, PlaceInv
  <2>3. CASE GetLock(t)
    <3>1. /\ before' = before /\ \A u \in Tids : ~InCall(u)
          /\ pc' = pc \/ pc' = [pc EXCEPT ![t] = "lookup"]
      BY <2>2, <2>3, TidFacts DEF GetLock, Goto, LockFree, ContainerInv, PlaceInv, OneAtATime
    <3>2. \A u \in Tids : pc'[u] # "return"
      BY <2>2, <3>1 DEF InCall
    <3> QED BY <2>2, <3>1, <3>2 DEF PointerInv
  <2>4. CASE ReadWord(t) \/ WriteWord(t)
    BY <2>2, <2>4, OneMoves, PointerStep
  <2>5. CASE Return(t)
    <3>1. pc[t] = "return" /\ before' = AccessOf(before, tidToCPUId(t), Request(t))
      BY <2>2, <2>5, ReturnStep
    <3>2. Request(t) \in Requests /\ tidToCPUId(t) \in Cpus
      BY <2>2, <3>1, Here, FrameFacts DEF InCall, ContainerInv, AccessInv
    <3>3. Sound(before')
      BY <2>2, <3>1, <3>2, AccessSound DEF KeepsOthers
    <3>4. pc' = [pc EXCEPT ![t] = "idle"] /\ \A u \in Tids : InCall(u) => u = t
      BY <2>2, <2>5, <3>1 DEF Return, Leaves, Goto, ContainerInv, PlaceInv, OneAtATime, InCall
    <3>5. \A u \in Tids : pc'[u] # "return"
      BY <2>2, <3>4 DEF InCall
    <3> QED BY <3>3, <3>5 DEF PointerInv
  <2> QED BY <2>1, <2>3, <2>4, <2>5
<1> QED BY <1>1, <1>2

(* So it always holds.                                                     *)
LEMMA AlwaysMemoryInv == ContainerSpec => []MemoryInv
<1>1. ContainerInit => MemoryInv
  BY MemoryInvInit
<1>2. MemoryInv /\ [ContainerNext]_vars => MemoryInv'
  BY MemoryInvNext
<1> QED BY <1>1, <1>2, PTL DEF ContainerSpec

-----------------------------------------------------------------------------
(* The theorems.                                                           *)

(* All valid private copies of a line hold the same data, even between the *)
(* lookup, the snoop, the fill and the store of an access.                 *)
THEOREM CopiesAgreeInside == ContainerSpec => []CopiesAgree
<1>1. MemoryInv => Sound(hier)
  <2> SUFFICES ASSUME MemoryInv PROVE Sound(hier)
    OBVIOUS
  <2>1. CASE \A t \in Tids : ~InCall(t)
    BY <2>1 DEF MemoryInv, ContainerInv, AccessInv
  <2>2. ASSUME NEW t \in Tids, InCall(t) PROVE Sound(hier)
    <3>1. pc[t] \in Labels \ {"idle"}
      BY <2>2 DEF MemoryInv, ContainerInv, PlaceInv, InCall
    <3> QED BY <2>2, <3>1, Here, StageSound DEF MemoryInv
  <2> QED BY <2>1, <2>2
<1>2. MemoryInv => CopiesAgree
  BY <1>1, SoundImpliesCopiesAgree
<1> QED BY <1>2, AlwaysMemoryInv, PTL

(* The word that readWord is about to return is that of the content that   *)
(* its access found, and leaves.                                           *)
LEMMA ReturnedIs ==
  ASSUME MemoryInv, NEW t \in Tids, pc[t] = "return", Reads(t)
  PROVE  /\ ReturnedWord(t) = Content(before, Tag(t))[Request(t).word]
         /\ Content(hier, Tag(t)) = Content(before, Tag(t)) /\ Sound(hier) /\ Tag(t) \in Used
<1> DEFINE c == Cpu(t)
           tag == Tag(t)
           w == Request(t).word
           r == Request(t)
<1>1. /\ ContainerInv /\ Sound(before) /\ InCall(t)
      /\ frame[t].st = PointerFor(before, c, tag)
  BY DEF MemoryInv, PointerInv, InCall
<1>2. /\ hier = AccessOf(before, c, r) /\ c \in Cpus /\ r \in Requests /\ r.op = "read"
      /\ tag = CalcTag(r.line) /\ tag \in Used /\ tag \in Tags /\ w \in Words
  BY <1>1, Here, FrameFacts, RequestFacts DEF Stage
<1>3. hier = ReadOf(before, c, tag, w)
  BY <1>2 DEF AccessOf
<1>4. Sound(hier) /\ Content(hier, tag) = Content(before, tag)
  <2> HIDE DEF c, tag, r, w
  <2>1. /\ KeepsOthers(hier, before, tag)
        /\ Content(hier, tag) = ContentAfter(Content(before, tag), r)
    BY <1>1, <1>2, AccessSound
  <2> QED BY <1>2, <2>1 DEF KeepsOthers, ContentAfter
<1>5. ReturnedWord(t) = WordAt(frame[t].st, RowOf(hier, c, tag), tag, w)
  BY DEF ReturnedWord
<1> HIDE DEF c, tag, r, w
<1>6. ReturnedWord(t) = ReadValue(before, c, tag, w)
  <2>1. CASE HitsIn(before, c, tag)
    <3>1. RowOf(hier, c, tag) = RowOf(Look(before, c, tag), c, tag)
      <4>1. hier = ReadHitOf(before, c, tag)
        BY <1>3, <2>1 DEF ReadOf
      <4>2. ReadHitOf(before, c, tag).cache = Look(before, c, tag).cache
        BY <1>1, <1>2, AccessLook, SoundIsFine DEF ReadHitOf
      <4> QED BY <4>1, <4>2 DEF RowOf
    <3>2. Pointer(RowOf(before, c, tag), tag) = 1
      BY <2>1 DEF Pointer, HitsIn, Hits
    <3> QED BY <1>1, <1>5, <2>1, <3>1, <3>2 DEF ReadValue, PointerFor
  <2>2. CASE ~HitsIn(before, c, tag)
    <3>1. hier = ReadMissOf(before, c, tag, w)
      BY <1>3, <2>2 DEF ReadOf
    <3> QED BY <1>1, <1>5, <2>2, <3>1 DEF ReadValue, PointerFor
  <2> QED BY <2>1, <2>2
<1>7. ReturnedWord(t) = Content(before, tag)[w]
  BY <1>1, <1>2, <1>6, ReadIsContent
<1> QED BY <1>2, <1>4, <1>7 DEF tag, w

(* The word that readWord returns through a pointer it took before its fill*)
(* is the content of memory at that moment: the pointer still points at the*)
(* line it was taken for, or none was taken.                               *)
THEOREM ReadsReturnContent == ContainerSpec => []ReadsReturn
<1>1. MemoryInv => ReadsReturn
  <2> SUFFICES ASSUME MemoryInv, NEW t \in Tids, pc[t] = "return", Reads(t)
               PROVE  ReturnedWord(t) = MemoryData(Tag(t))[Request(t).word]
    BY DEF ReadsReturn
  <2>1. /\ ReturnedWord(t) = Content(hier, Tag(t))[Request(t).word]
        /\ Sound(hier) /\ Tag(t) \in Used
    BY ReturnedIs
  <2>2. MemoryOf(hier, Tag(t)) = Content(hier, Tag(t))
    BY <2>1, UsedFacts, MemoryIs
  <2> QED BY <2>1, <2>2 DEF MemoryData
<1> QED BY <1>1, AlwaysMemoryInv, PTL

(* The release of an access is a step of the shared memory, the one that   *)
(* the access was called for.                                              *)
LEMMA ReturnPerforms ==
  ASSUME NoAliases, MemoryInv, NEW t \in Tids, Return(t)
  PROVE  Performed(Request(t), ReturnedWord(t), Overflowed(before'))
<1> DEFINE r == Request(t)
           tag == CalcTag(r.line)
           word == ReturnedWord(t)
<1>1. /\ ContainerInv /\ Sound(before) /\ pc[t] = "return" /\ InCall(t)
      /\ before' = AccessOf(before, tidToCPUId(t), r)
  BY ReturnStep DEF MemoryInv, InCall
<1>2. r \in Requests /\ tidToCPUId(t) \in Cpus /\ Tag(t) = tag /\ (Reads(t) <=> r.op = "read")
  BY <1>1, Here, FrameFacts DEF ContainerInv, AccessInv, Reads
<1>3. /\ r.line \in Lines /\ KeepsOthers(before', before, tag)
      /\ Content(before', tag) = ContentAfter(Content(before, tag), r)
  BY <1>1, <1>2, AccessSound, RequestFacts
<1>4. /\ \A x \in Lines \ {r.line} :
           \/ Memories(before')[x] = Memories(before)[x]
           \/ x \in Overflowed(before') /\ Memories(before')[x] = NaNLine
      /\ Memories(before')[r.line] = Content(before', tag)
      /\ Memories(before)[r.line] = Content(before, tag)
  BY <1>1, <1>3, OthersAreKept
<1>5. SharedMemory!OthersKept(Memories(before), Memories(before'), r.line, Overflowed(before'))
  BY <1>4 DEF SharedMemory!OthersKept, SharedMemory!Forgotten, NaNLine
<1>6. r.op = "read" => word = Content(before, tag)[r.word]
  BY <1>1, <1>2, ReturnedIs
<1> HIDE DEF r, tag, word
<1>7. CASE r.op = "read"
  <2>1. SharedMemory!ReadStep(Memories(before), Memories(before'), r.line, r.word, word,
                              Overflowed(before'))
    BY <1>3, <1>4, <1>5, <1>6, <1>7 DEF SharedMemory!ReadStep, ContentAfter
  <2>2. SharedMemory!Read(r.line, r.word, word, Overflowed(before'))
    BY <2>1 DEF SharedMemory!Read, Memories
  <2> QED BY <1>7, <2>2 DEF Performed, r, word
<1>8. CASE r.op # "read"
  <2>1. SharedMemory!WriteStep(Memories(before), Memories(before'), r.line, r.word, r.val,
                               Overflowed(before'))
    BY <1>3, <1>4, <1>5, <1>8 DEF SharedMemory!WriteStep, ContentAfter
  <2>2. SharedMemory!Write(r.line, r.word, r.val, Overflowed(before'))
    BY <2>1 DEF SharedMemory!Write, Memories
  <2> QED BY <1>8, <2>2 DEF Performed, r
<1> QED BY <1>7, <1>8

(* The threads share one memory, whatever CPUs and levels their accesses go*)
(* through: whenever an access ends, it has done to the memory what it was *)
(* called for.  A read returned the word of memory and changed nothing, a  *)
(* write put its value into its word and changed no other, and a line that *)
(* was forgotten meanwhile is one that main memory has no place for.       *)
THEOREM ThreadsHaveOneMemory ==
  ASSUME NoAliases
  PROVE  ContainerSpec => ThreadsShareMemory
<1> DEFINE Performs == \A t \in Tids : Returns(t) =>
             Performed(Request(t), ReturnedWord(t), Overflowed(before'))
<1>1. ContainerInit => SharedMemory!Init
  <2> SUFFICES ASSUME ContainerInit PROVE SharedMemory!Init
    OBVIOUS
  <2>1. before = hier /\ Init
    BY DEF ContainerInit
  <2>2. \A l \in Lines : MemoryOf(before, CalcTag(l)) = NaNLine
    BY <2>1, InitSound, MemoryIs, IndexFacts
  <2>3. [l \in Lines |-> MemoryOf(before, CalcTag(l))] = [l \in Lines |-> NaNLine]
    BY <2>2
  <2> QED BY <2>3 DEF SharedMemory!Init, SharedMemory!Forgotten, NaNLine, Memories
<1>2. MemoryInv /\ [ContainerNext]_vars => [Performs]_vars
  <2> SUFFICES ASSUME MemoryInv, ContainerNext, NEW t \in Tids, Returns(t)
               PROVE  Performed(Request(t), ReturnedWord(t), Overflowed(before'))
    OBVIOUS
  <2>1. Return(t)
    BY ReturnsReturn DEF MemoryInv
  <2> QED BY <2>1, ReturnPerforms
<1>3. (ContainerSpec => SharedMemory!Init /\ [][Performs]_vars)
        => (ContainerSpec => ThreadsShareMemory)
  BY DEF ThreadsShareMemory
<1> QED BY <1>1, <1>2, <1>3, AlwaysMemoryInv, PTL DEF ContainerSpec
=============================================================================
