-------------------------- MODULE Coherence_proofs --------------------------
(***************************************************************************)
(* The type of the hierarchy of MSI_SMPCache and the coherence of its      *)
(* private caches, for any number of caches, ways, sets, lines, words and  *)
(* values: every row of the three levels is well formed, and a line        *)
(* modified in one private cache is valid in no other.                     *)
(***************************************************************************)
EXTENDS MSI_Properties, CacheCore_proofs

-----------------------------------------------------------------------------
(* The type of the hierarchy is kept by every operator it is built from.   *)

(* The caches of the three levels are different and have at least one way. *)
LEMMA CacheFacts ==
  /\ Cpus \subseteq Caches /\ LLC \in Caches /\ Main \in Caches
  /\ LLC \notin Cpus /\ Main \notin Cpus /\ LLC # Main
  /\ \A k \in Caches : Assoc(k) \in Nat \ {0}
  /\ \A c \in Cpus : Assoc(c) = PrivateAssoc
BY HierarchyAssumption DEF Cpus, Caches, LLC, Main, Assoc

(* Every tag has a set and every line number a tag.                        *)
LEMMA IndexFacts ==
  /\ \A t \in Tags : SetOf(t) \in Sets
  /\ \A l \in Lines : CalcTag(l) \in Tags
BY GeometryAssumption, HierarchyAssumption DEF Tags, Sets, SetOf, CalcTag

(* Every row of a level has the ways of that level.                        *)
LEMMA RowOfType ==
  ASSUME NEW h, HierType(h), NEW k \in Caches, NEW t \in Tags
  PROVE  RowOf(h, k, t) \in Row(Assoc(k))
BY IndexFacts DEF HierType, RowOf

(* Storing a row changes that row and nothing else.                        *)
LEMMA WithRowType ==
  ASSUME NEW h, HierType(h), NEW k \in Caches, NEW t \in Tags,
         NEW row \in Row(Assoc(k))
  PROVE  /\ HierType(WithRow(h, k, t, row))
         /\ RowOf(WithRow(h, k, t, row), k, t) = row
         /\ \A j \in Caches, s \in Sets : (j # k \/ s # SetOf(t)) =>
              WithRow(h, k, t, row).cache[j][s] = h.cache[j][s]
<1> DEFINE g == WithRow(h, k, t, row)
<1>1. SetOf(t) \in Sets /\ row \in AnyRow
  BY IndexFacts DEF AnyRow
<1>2. /\ h.cache \in [Caches -> [Sets -> AnyRow]]
      /\ h = [cache |-> h.cache, stats |-> h.stats]
      /\ h.stats \in [Caches -> [Counters -> Nat]]
  BY DEF HierType
<1>3. g = [cache |-> [h.cache EXCEPT ![k] = [h.cache[k] EXCEPT ![SetOf(t)] = row]],
           stats |-> h.stats]
  <2> DEFINE rows == [h.cache EXCEPT ![k] = [h.cache[k] EXCEPT ![SetOf(t)] = row]]
  <2>1. g = [h EXCEPT !.cache = rows]
    BY DEF WithRow
  <2>2. h \in [cache : [Caches -> [Sets -> AnyRow]], stats : [Caches -> [Counters -> Nat]]]
    BY DEF HierType
  <2> HIDE DEF rows, g
  <2>3. [h EXCEPT !.cache = rows] = [cache |-> rows, stats |-> h.stats]
    BY <2>2
  <2> QED BY <2>1, <2>3 DEF rows
<1>4. g.cache[k] = [h.cache[k] EXCEPT ![SetOf(t)] = row]
  BY <1>2, <1>3
<1>5. \A j \in Caches : j # k => g.cache[j] = h.cache[j]
  BY <1>2, <1>3
<1>6. h.cache[k] \in [Sets -> AnyRow]
  BY <1>2
<1>7. g.cache[k][SetOf(t)] = row /\ \A s \in Sets : s # SetOf(t) => g.cache[k][s] = h.cache[k][s]
  BY <1>1, <1>4, <1>6
<1>8. g \in [cache : [Caches -> [Sets -> AnyRow]], stats : [Caches -> [Counters -> Nat]]]
  BY <1>1, <1>2, <1>3, <1>6
<1>9. \A j \in Caches, s \in Sets : g.cache[j][s] \in Row(Assoc(j))
  BY <1>5, <1>7 DEF HierType
<1> QED BY <1>5, <1>7, <1>8, <1>9 DEF HierType, RowOf

(* Counting changes no line.                                               *)
LEMMA CountType ==
  ASSUME NEW h, HierType(h), NEW k \in Caches, NEW names
  PROVE  HierType(Count(h, k, names)) /\ Count(h, k, names).cache = h.cache
<1>1. CASE ~Counting
  BY <1>1 DEF Count
<1>2. CASE Counting
  <2> DEFINE f == [n \in Counters |-> IF n \in names THEN h.stats[k][n] + 1 ELSE h.stats[k][n]]
  <2>1. /\ h = [cache |-> h.cache, stats |-> h.stats]
        /\ h.stats \in [Caches -> [Counters -> Nat]]
        /\ h.cache \in [Caches -> [Sets -> AnyRow]]
    BY DEF HierType
  <2>2. f \in [Counters -> Nat]
    BY <2>1
  <2>3. Count(h, k, names) = [cache |-> h.cache, stats |-> [h.stats EXCEPT ![k] = f]]
    BY <1>2, <2>1 DEF Count
  <2>4. [h.stats EXCEPT ![k] = f] \in [Caches -> [Counters -> Nat]]
    BY <2>1, <2>2
  <2> HIDE DEF f
  <2> QED BY <2>1, <2>3, <2>4 DEF HierType
<1> QED BY <1>1, <1>2

(* A lookup, which reorders a row, keeps the type.                         *)
LEMMA LookType ==
  ASSUME NEW h, HierType(h), NEW k \in Caches, NEW t \in Tags
  PROVE  HierType(Look(h, k, t))
<1>1. FindLine(RowOf(h, k, t), t) \in Row(Assoc(k))
  BY CacheFacts, RowOfType, FindLineType
<1> QED BY <1>1, WithRowType DEF Look

(* The data of the line in front, and of the line a lookup finds.          *)
LEMMA FrontDataType ==
  ASSUME NEW h, HierType(h), NEW k \in Caches, NEW t \in Tags
  PROVE  FrontData(h, k, t) \in LineData
<1>1. RowOf(h, k, t) \in Row(Assoc(k)) /\ 1 \in 1 .. Assoc(k)
  BY RowOfType, CacheFacts
<1>2. RowOf(h, k, t)[1] \in Line
  BY <1>1 DEF Row
<1> QED BY <1>2 DEF FrontData, Line

(* The line that a hit finds is a line.                                    *)
LEMMA FoundLineType ==
  ASSUME NEW h, HierType(h), NEW k \in Caches, NEW t \in Tags, HitsIn(h, k, t)
  PROVE  RowOf(h, k, t)[FindPos(RowOf(h, k, t), t)] \in Line
<1>1. RowOf(h, k, t) \in Row(Assoc(k)) /\ Assoc(k) \in Nat \ {0}
  BY RowOfType, CacheFacts
<1>2. FindPos(RowOf(h, k, t), t) \in 1 .. Assoc(k)
  BY <1>1, FindPosIn DEF HitsIn, Hits
<1> QED BY <1>1, <1>2 DEF Row

(* What a fill stores once the victim has been pushed below.               *)
LEMMA FillType ==
  ASSUME NEW h, HierType(h), NEW g, HierType(g), NEW k \in Caches, NEW t \in Tags,
         NEW s \in States, NEW data \in LineData
  PROVE  /\ HierType(WithRow(g, k, t, Install(RowOf(h, k, t), t, s, data)))
         /\ Victim(RowOf(h, k, t), t) \in Line
<1>1. RowOf(h, k, t) \in Row(Assoc(k)) /\ Assoc(k) \in Nat \ {0}
  BY RowOfType, CacheFacts
<1>2. Install(RowOf(h, k, t), t, s, data) \in Row(Assoc(k))
  BY <1>1, InstallType
<1> QED BY <1>1, <1>2, WithRowType, VictimType

-----------------------------------------------------------------------------
(* Main memory.                                                            *)

(* The data of a fresh line is data of a line.                             *)
LEMMA NaNLineType == NaNLine \in LineData
BY DEF NaNLine, LineData

(* A fill of main memory, whose victims go nowhere.                        *)
LEMMA MainFillType ==
  ASSUME NEW h, HierType(h), NEW t \in Tags, NEW s \in States, NEW data \in LineData
  PROVE  HierType(FillLine(h, Main, t, s, data, NoWrite))
<1>1. HierType(WithRow(h, Main, t, Install(RowOf(h, Main, t), t, s, data)))
  BY CacheFacts, FillType
<1> QED BY <1>1 DEF FillLine, Evicts

(* A write-back to main memory.                                            *)
LEMMA MainWriteType ==
  ASSUME NEW h, HierType(h), NEW t \in Tags, NEW data \in LineData
  PROVE  HierType(MainWrite(h, t, data))
<1> DEFINE looked == Count(Look(h, Main, t), Main, {"numWritebacksReceived"})
           hit == WithRow(looked, Main, t, SetData(RowOf(looked, Main, t), data))
<1>1. Main \in Caches /\ Assoc(Main) \in Nat \ {0}
  BY CacheFacts
<1>2. HierType(looked)
  BY <1>1, LookType, CountType
<1>3. HierType(hit)
  BY <1>1, <1>2, RowOfType, FrontUpdateType, WithRowType
<1>4. HierType(Count(hit, Main, {"numWriteHits"}))
  BY <1>1, <1>3, CountType
<1>5. HierType(FillLine(looked, Main, t, "M", data, NoWrite))
  BY <1>2, MainFillType DEF States
<1> QED BY <1>4, <1>5 DEF MainWrite, WriteLine, Received

(* A read from main memory yields data of a line, on a miss as on a hit.   *)
LEMMA MainReadType ==
  ASSUME NEW h, HierType(h), NEW t \in Tags
  PROVE  HierType(MainRead(h, t).hier) /\ MainRead(h, t).data \in LineData
<1> DEFINE looked == Look(h, Main, t)
           missed == Count(looked, Main, {"numReadMisses", "numReadRequestsSent"})
<1>1. Main \in Caches
  BY CacheFacts
<1>2. HierType(looked) /\ HierType(missed)
  BY <1>1, LookType, CountType
<1>3. CASE HitsIn(h, Main, t)
  <2>1. MainRead(h, t) = [hier |-> Count(looked, Main, {"numReadHits"}),
                          data |-> FrontData(looked, Main, t)]
    BY <1>3 DEF MainRead, ReadLine
  <2> QED BY <1>1, <1>2, <2>1, CountType, FrontDataType
<1>4. CASE ~HitsIn(h, Main, t)
  <2>1. MainRead(h, t) = [hier |-> FillLine(missed, Main, t, "S", NaNLine, NoWrite),
                          data |-> NaNLine]
    BY <1>4 DEF MainRead, ReadLine, NoRead
  <2> QED BY <1>2, <2>1, MainFillType, NaNLineType DEF States
<1> QED BY <1>3, <1>4

-----------------------------------------------------------------------------
(* The last-level cache.                                                   *)

(* A fill of the last-level cache, with the write-back of its victim.      *)
LEMMA LLCFillType ==
  ASSUME NEW h, HierType(h), NEW t \in Tags, NEW s \in States, NEW data \in LineData
  PROVE  HierType(FillLine(h, LLC, t, s, data, MainWrite))
<1> DEFINE victim == Victim(RowOf(h, LLC, t), t)
           pushed == Count(MainWrite(h, victim.tag, victim.data), LLC, {"numReplacements"})
           new == Install(RowOf(h, LLC, t), t, s, data)
<1>1. LLC \in Caches
  BY CacheFacts
<1>2. victim \in Line
  BY <1>1, FillType
<1>3. victim.tag \in Tags /\ victim.data \in LineData
  BY <1>2 DEF Line
<1>4. HierType(pushed)
  BY <1>1, <1>3, MainWriteType, CountType
<1>5. HierType(WithRow(pushed, LLC, t, new)) /\ HierType(WithRow(h, LLC, t, new))
  BY <1>1, <1>4, FillType
<1> QED BY <1>5 DEF FillLine, Evicts

(* A write-back to the last-level cache.                                   *)
LEMMA LLCWriteType ==
  ASSUME NEW h, HierType(h), NEW t \in Tags, NEW data \in LineData
  PROVE  HierType(LLCWrite(h, t, data))
<1> DEFINE looked == Count(Look(h, LLC, t), LLC, {"numWritebacksReceived"})
           hit == WithRow(looked, LLC, t, SetData(RowOf(looked, LLC, t), data))
<1>1. LLC \in Caches /\ Assoc(LLC) \in Nat \ {0}
  BY CacheFacts
<1>2. HierType(looked)
  BY <1>1, LookType, CountType
<1>3. HierType(hit)
  BY <1>1, <1>2, RowOfType, FrontUpdateType, WithRowType
<1>4. HierType(Count(hit, LLC, {"numWriteHits"}))
  BY <1>1, <1>3, CountType
<1>5. HierType(FillLine(looked, LLC, t, "M", data, MainWrite))
  BY <1>2, LLCFillType DEF States
<1> QED BY <1>4, <1>5 DEF LLCWrite, WriteLine, Received

(* A read from the last-level cache, which may read main memory.           *)
LEMMA LLCReadType ==
  ASSUME NEW h, HierType(h), NEW t \in Tags
  PROVE  HierType(LLCRead(h, t).hier) /\ LLCRead(h, t).data \in LineData
<1> DEFINE looked == Look(h, LLC, t)
           missed == Count(looked, LLC, {"numReadMisses", "numReadRequestsSent"})
           below == MainRead(missed, t)
<1>1. LLC \in Caches
  BY CacheFacts
<1>2. HierType(looked) /\ HierType(missed)
  BY <1>1, LookType, CountType
<1>3. CASE HitsIn(h, LLC, t)
  <2>1. LLCRead(h, t) = [hier |-> Count(looked, LLC, {"numReadHits"}),
                         data |-> FrontData(looked, LLC, t)]
    BY <1>3 DEF LLCRead, ReadLine
  <2> QED BY <1>1, <1>2, <2>1, CountType, FrontDataType
<1>4. CASE ~HitsIn(h, LLC, t)
  <2>1. LLCRead(h, t) = [hier |-> FillLine(below.hier, LLC, t, "S", below.data, MainWrite),
                         data |-> below.data]
    BY <1>4 DEF LLCRead, ReadLine
  <2>2. HierType(below.hier) /\ below.data \in LineData
    BY <1>2, MainReadType
  <2> QED BY <2>1, <2>2, LLCFillType DEF States
<1> QED BY <1>3, <1>4

-----------------------------------------------------------------------------
(* The private caches.                                                     *)

(* A fill of a private cache, with all the write-backs it causes below.    *)
LEMMA PrivateFillType ==
  ASSUME NEW h, HierType(h), NEW c \in Cpus, NEW t \in Tags, NEW s \in States,
         NEW data \in LineData
  PROVE  HierType(FillLine(h, c, t, s, data, LLCWrite))
<1> DEFINE victim == Victim(RowOf(h, c, t), t)
           pushed == Count(LLCWrite(h, victim.tag, victim.data), c, {"numReplacements"})
           new == Install(RowOf(h, c, t), t, s, data)
<1>1. c \in Caches
  BY CacheFacts
<1>2. victim \in Line
  BY <1>1, FillType
<1>3. victim.tag \in Tags /\ victim.data \in LineData
  BY <1>2 DEF Line
<1>4. HierType(pushed)
  BY <1>1, <1>3, LLCWriteType, CountType
<1>5. HierType(WithRow(pushed, c, t, new)) /\ HierType(WithRow(h, c, t, new))
  BY <1>1, <1>4, FillType
<1> QED BY <1>5 DEF FillLine, Evicts

(* A snoop gives some caches a new row for one tag.                        *)
Answered(h, asked, t, rows) ==
  [h EXCEPT !.cache =
     [k \in Caches |-> IF k \in asked THEN [h.cache[k] EXCEPT ![SetOf(t)] = rows[k]]
                                      ELSE h.cache[k]]]

(* Such answers are well typed if the new rows are; no other row changes.  *)
LEMMA AnsweredType ==
  ASSUME NEW h, HierType(h), NEW asked, NEW t \in Tags, NEW rows,
         \A k \in Caches : rows[k] \in Row(Assoc(k))
  PROVE  /\ HierType(Answered(h, asked, t, rows))
         /\ \A k \in Caches, s \in Sets :
              Answered(h, asked, t, rows).cache[k][s] =
                IF k \in asked /\ s = SetOf(t) THEN rows[k] ELSE h.cache[k][s]
<1> DEFINE g == Answered(h, asked, t, rows)
           new == [k \in Caches |-> IF k \in asked
                                    THEN [h.cache[k] EXCEPT ![SetOf(t)] = rows[k]]
                                    ELSE h.cache[k]]
<1>1. h \in [cache : [Caches -> [Sets -> AnyRow]], stats : [Caches -> [Counters -> Nat]]]
  BY DEF HierType
<1>2. g = [cache |-> new, stats |-> h.stats]
  <2>1. g = [h EXCEPT !.cache = new]
    BY DEF Answered
  <2> HIDE DEF new, g
  <2> QED BY <1>1, <2>1
<1>3. SetOf(t) \in Sets
  BY IndexFacts
<1>4. \A k \in Caches : h.cache[k] \in [Sets -> AnyRow] /\ rows[k] \in AnyRow
  BY <1>1 DEF AnyRow
<1>5. \A k \in Caches, s \in Sets :
        new[k][s] = IF k \in asked /\ s = SetOf(t) THEN rows[k] ELSE h.cache[k][s]
  BY <1>3, <1>4
<1>6. new \in [Caches -> [Sets -> AnyRow]]
  BY <1>3, <1>4
<1>7. g \in [cache : [Caches -> [Sets -> AnyRow]], stats : [Caches -> [Counters -> Nat]]]
  <2> HIDE DEF new, g
  <2> QED BY <1>1, <1>2, <1>6
<1>8. \A k \in Caches, s \in Sets : new[k][s] \in Row(Assoc(k))
  BY <1>5 DEF HierType
<1>9. g.cache = new
  <2> HIDE DEF new, g
  <2> QED BY <1>2
<1> QED BY <1>5, <1>7, <1>8, <1>9 DEF HierType

(* What a sibling's row becomes when a read, or a write, asks for tag t.   *)
ReadAnswer(row, t) == IF Hits(row, t) THEN SetState(FindLine(row, t), "S") ELSE FindLine(row, t)
WriteAnswer(row, t) == IF Hits(row, t) THEN Invalidate(FindLine(row, t)) ELSE FindLine(row, t)

(* The answers of a sibling are rows of its cache.                         *)
LEMMA AnswerType ==
  ASSUME NEW n \in Nat \ {0}, NEW row \in Row(n), NEW t \in Tags
  PROVE  ReadAnswer(row, t) \in Row(n) /\ WriteAnswer(row, t) \in Row(n)
BY FindLineType, FrontUpdateType DEF ReadAnswer, WriteAnswer, States

(* A snoop keeps the type and changes the asked siblings' rows only.       *)
LEMMA RemoteType ==
  ASSUME NEW h, HierType(h), NEW c \in Cpus, NEW t \in Tags
  PROVE  /\ HierType(ReadRemoteAction(h, c, t))
         /\ HierType(WriteRemoteAction(h, c, t))
         /\ \A k \in Caches, s \in Sets :
              ReadRemoteAction(h, c, t).cache[k][s] =
                IF k \in AskedOnRead(h, c, t) /\ s = SetOf(t)
                THEN ReadAnswer(RowOf(h, k, t), t) ELSE h.cache[k][s]
         /\ \A k \in Caches, s \in Sets :
              WriteRemoteAction(h, c, t).cache[k][s] =
                IF k \in Siblings(c) /\ s = SetOf(t)
                THEN WriteAnswer(RowOf(h, k, t), t) ELSE h.cache[k][s]
<1> DEFINE reads == [k \in Caches |-> ReadAnswer(RowOf(h, k, t), t)]
           writes == [k \in Caches |-> WriteAnswer(RowOf(h, k, t), t)]
<1>1. \A k \in Caches : reads[k] \in Row(Assoc(k)) /\ writes[k] \in Row(Assoc(k))
  BY CacheFacts, RowOfType, AnswerType
<1>2. ReadRemoteAction(h, c, t) = Answered(h, AskedOnRead(h, c, t), t, reads)
  BY DEF ReadRemoteAction, Answered, ReadAnswer
<1>3. WriteRemoteAction(h, c, t) = Answered(h, Siblings(c), t, writes)
  BY DEF WriteRemoteAction, Answered, WriteAnswer
<1>4. \A k \in Caches : reads[k] = ReadAnswer(RowOf(h, k, t), t)
                        /\ writes[k] = WriteAnswer(RowOf(h, k, t), t)
  OBVIOUS
<1> HIDE DEF reads, writes
<1>5. HierType(ReadRemoteAction(h, c, t)) /\ HierType(WriteRemoteAction(h, c, t))
  <2>1. HierType(Answered(h, AskedOnRead(h, c, t), t, reads))
    BY <1>1, AnsweredType
  <2>2. HierType(Answered(h, Siblings(c), t, writes))
    BY <1>1, AnsweredType
  <2> QED BY <1>2, <1>3, <2>1, <2>2
<1>6. \A k \in Caches, s \in Sets :
        ReadRemoteAction(h, c, t).cache[k][s] =
          IF k \in AskedOnRead(h, c, t) /\ s = SetOf(t) THEN reads[k] ELSE h.cache[k][s]
  BY <1>1, <1>2, AnsweredType
<1>7. \A k \in Caches, s \in Sets :
        WriteRemoteAction(h, c, t).cache[k][s] =
          IF k \in Siblings(c) /\ s = SetOf(t) THEN writes[k] ELSE h.cache[k][s]
  BY <1>1, <1>3, AnsweredType
<1> QED BY <1>4, <1>5, <1>6, <1>7

(* When some sibling has a valid copy, the first and the last of them do.  *)
LEMMA ValidCopiesFacts ==
  ASSUME NEW h, NEW c \in Cpus, NEW t \in Tags, ValidCopies(h, c, t) # {}
  PROVE  /\ Provider(h, c, t) \in ValidCopies(h, c, t)
         /\ \A o \in ValidCopies(h, c, t) : Provider(h, c, t) <= o
         /\ Max(ValidCopies(h, c, t)) \in ValidCopies(h, c, t)
         /\ ValidCopies(h, c, t) \subseteq Caches
<1> DEFINE S == ValidCopies(h, c, t)
<1>1. S \in SUBSET Cpus /\ Cpus \in SUBSET Nat /\ S # {}
  BY HierarchyAssumption DEF ValidCopies, Siblings, Cpus
<1>2. S \in SUBSET Nat /\ S \in SUBSET (0 .. NumCaches) /\ NumCaches \in Nat
  BY <1>1, HierarchyAssumption DEF Cpus
<1> HIDE DEF S
<1>3. Min(S) \in S /\ \A o \in S : Min(S) <= o
  BY <1>1, <1>2, MinIn
<1>4. Max(S) \in S
  BY <1>1, <1>2, MaxIn
<1> QED BY <1>1, <1>3, <1>4, CacheFacts DEF Provider, S

(* What a read miss fetches is the data of a line.                         *)
LEMMA FetchType ==
  ASSUME NEW h, HierType(h), NEW c \in Cpus, NEW t \in Tags
  PROVE  HierType(Fetch(h, c, t).hier) /\ Fetch(h, c, t).data \in LineData
<1> DEFINE asked == ReadRemoteAction(h, c, t)
           p == Provider(h, c, t)
           kind == IF ProvidedShared(h, c, t) THEN "numReadMissesServicedByShared"
                                              ELSE "numReadMissesServicedByModified"
<1>1. c \in Caches /\ HierType(asked)
  BY CacheFacts, RemoteType
<1>2. CASE ValidCopies(h, c, t) # {}
  <2>1. Fetch(h, c, t) = [hier |-> Count(asked, c, {"numReadMissesServicedByOthers", kind}),
                          data |-> FrontData(asked, p, t)]
    BY <1>2 DEF Fetch
  <2>2. p \in Caches
    BY <1>2, ValidCopiesFacts
  <2> QED BY <1>1, <2>1, <2>2, CountType, FrontDataType
<1>3. CASE ValidCopies(h, c, t) = {}
  BY <1>1, <1>3, LLCReadType DEF Fetch
<1> QED BY <1>2, <1>3

(* Changing one word of a line's data yields a line's data.                *)
LEMMA WordType ==
  ASSUME NEW data \in LineData, NEW w \in Words, NEW v \in Values
  PROVE  [data EXCEPT ![w] = v] \in LineData
BY DEF LineData

(* Storing a word in the line in front.                                    *)
LEMMA PutWordType ==
  ASSUME NEW h, HierType(h), NEW c \in Cpus, NEW t \in Tags, NEW w \in Words, NEW v \in Values
  PROVE  HierType(PutWord(h, c, t, w, v))
<1>1. c \in Caches /\ Assoc(c) \in Nat \ {0} /\ RowOf(h, c, t) \in Row(Assoc(c))
  BY CacheFacts, RowOfType
<1>2. RowOf(h, c, t)[1].data \in LineData
  BY <1>1, FrontDataType DEF FrontData
<1>3. [RowOf(h, c, t)[1].data EXCEPT ![w] = v] \in LineData
  BY <1>2, WordType
<1>4. SetData(RowOf(h, c, t), [RowOf(h, c, t)[1].data EXCEPT ![w] = v]) \in Row(Assoc(c))
  BY <1>1, <1>3, FrontUpdateType
<1> QED BY <1>1, <1>4, WithRowType DEF PutWord

-----------------------------------------------------------------------------
(* The type invariant.                                                     *)

(* The hierarchy that createNewCache, createLLC and createMain build is    *)
(* well typed.                                                             *)
LEMMA InitType == Init => TypeOK
<1> SUFFICES ASSUME Init PROVE TypeOK
  OBVIOUS
<1>1. ColdLine \in Line
  <2>1. 0 \in Tags
    BY GeometryAssumption DEF Tags
  <2> QED BY <2>1, NaNLineType DEF ColdLine, Line, States
<1>2. \A k \in Caches : [p \in 1 .. Assoc(k) |-> ColdLine] \in Row(Assoc(k))
  BY <1>1 DEF Row
<1>3. \A k \in Caches : [p \in 1 .. Assoc(k) |-> ColdLine] \in AnyRow
  BY <1>2 DEF AnyRow
<1> DEFINE rows == [k \in Caches |-> [s \in Sets |-> [p \in 1 .. Assoc(k) |-> ColdLine]]]
           zero == [k \in Caches |-> [n \in Counters |-> 0]]
<1>4. rows \in [Caches -> [Sets -> AnyRow]] /\ zero \in [Caches -> [Counters -> Nat]]
  BY <1>3
<1>5. \A k \in Caches, s \in Sets : rows[k][s] \in Row(Assoc(k))
  BY <1>2
<1>6. hier = [cache |-> rows, stats |-> zero]
  BY DEF Init
<1> HIDE DEF rows, zero
<1> QED BY <1>4, <1>5, <1>6 DEF TypeOK, HierType

(* No access can store an ill-typed line, at any level.                    *)
LEMMA NextType == TypeOK /\ [Next]_hier => TypeOK'
<1> SUFFICES ASSUME TypeOK, [Next]_hier PROVE TypeOK'
  OBVIOUS
<1>0. HierType(hier)
  BY DEF TypeOK
<1>1. ASSUME NEW c \in Cpus, NEW l \in Lines, ReadHit(c, l)
      PROVE  HierType(hier')
  <2>1. c \in Caches /\ CalcTag(l) \in Tags
    BY CacheFacts, IndexFacts
  <2>2. HierType(ReadHitOf(hier, c, CalcTag(l)))
    BY <1>0, <2>1, LookType, CountType DEF ReadHitOf
  <2> QED BY <1>1, <2>2 DEF ReadHit
<1>2. ASSUME NEW c \in Cpus, NEW l \in Lines, NEW w \in Words, ReadMiss(c, l, w)
      PROVE  HierType(hier')
  <2> DEFINE t == CalcTag(l)
             missed == Count(Look(hier, c, t), c,
                             {"numReadMisses", "numReadRequestsSent"}
                               \cup OnInvalid(RowOf(hier, c, t), t, "numReadOnInvalidMisses"))
             fetched == Fetch(missed, c, t)
             judged == IF Found(RowOf(hier, c, t), t)
                       THEN Count(fetched.hier, c,
                                  SharingCounters(FrontData(missed, c, t)[w], fetched.data[w]))
                       ELSE fetched.hier
  <2>1. c \in Caches /\ t \in Tags
    BY CacheFacts, IndexFacts
  <2>2. HierType(missed)
    BY <1>0, <2>1, LookType, CountType
  <2>3. HierType(fetched.hier) /\ fetched.data \in LineData
    BY <2>1, <2>2, FetchType
  <2>4. HierType(judged)
    BY <2>1, <2>3, CountType
  <2>5. HierType(FillLine(judged, c, t, "S", fetched.data, LLCWrite))
    BY <2>1, <2>3, <2>4, PrivateFillType DEF States
  <2> QED BY <1>2, <2>5 DEF ReadMiss, ReadMissOf, ReadMissed, Judge
<1>3. ASSUME NEW c \in Cpus, NEW l \in Lines, NEW w \in Words, NEW v \in Values,
             WriteMiss(c, l, w, v)
      PROVE  HierType(hier')
  <2> DEFINE t == CalcTag(l)
             missed == Count(Look(hier, c, t), c,
                             {"numWriteMisses", "numInvalidatesSent"}
                               \cup OnInvalid(RowOf(hier, c, t), t, "numWriteOnInvalidMisses"))
             alone == WriteRemoteAction(missed, c, t)
             got == IF ValidCopies(missed, c, t) = {}
                    THEN LLCRead(alone, t)
                    ELSE [hier |-> alone, data |-> InvalidateReply(missed, c, t)]
  <2>1. c \in Caches /\ t \in Tags
    BY CacheFacts, IndexFacts
  <2>2. HierType(missed) /\ HierType(alone)
    BY <1>0, <2>1, LookType, CountType, RemoteType
  <2>3. HierType(got.hier) /\ got.data \in LineData
    <3>1. CASE ValidCopies(missed, c, t) = {}
      BY <2>1, <2>2, <3>1, LLCReadType
    <3>2. CASE ValidCopies(missed, c, t) # {}
      <4> DEFINE last == Max(ValidCopies(missed, c, t))
      <4>1. last \in Caches /\ HitsIn(missed, last, t)
        <5>1. last \in ValidCopies(missed, c, t) /\ last \in Caches
          BY <2>1, <3>2, ValidCopiesFacts
        <5> QED BY <5>1 DEF ValidCopies
      <4>2. InvalidateReply(missed, c, t) \in LineData
        BY <2>1, <2>2, <4>1, FoundLineType DEF InvalidateReply, Line
      <4> QED BY <2>2, <3>2, <4>2
    <3> QED BY <3>1, <3>2
  <2>4. [got.data EXCEPT ![w] = v] \in LineData
    BY <2>3, WordType
  <2>5. HierType(FillLine(got.hier, c, t, "M", [got.data EXCEPT ![w] = v], LLCWrite))
    BY <2>1, <2>3, <2>4, PrivateFillType DEF States
  <2> QED BY <1>3, <2>5 DEF WriteMiss, WriteMissOf, WriteMissed
<1>4. ASSUME NEW c \in Cpus, NEW l \in Lines, NEW w \in Words, NEW v \in Values,
             WriteUpgrade(c, l, w, v)
      PROVE  HierType(hier')
  <2> DEFINE t == CalcTag(l)
             looked == Look(hier, c, t)
             alone == Count(WriteRemoteAction(looked, c, t), c,
                            {"numWriteMisses", "numWriteOnSharedMisses", "numInvalidatesSent"}
                              \cup Silent(looked, c, t, w, v))
             owned == WithRow(alone, c, t, SetState(RowOf(alone, c, t), "M"))
  <2>1. c \in Caches /\ t \in Tags /\ Assoc(c) \in Nat \ {0}
    BY CacheFacts, IndexFacts
  <2>2. HierType(looked) /\ HierType(alone)
    BY <1>0, <2>1, LookType, CountType, RemoteType
  <2>3. HierType(owned)
    BY <2>1, <2>2, RowOfType, FrontUpdateType, WithRowType DEF States
  <2>4. HierType(PutWord(owned, c, t, w, v))
    BY <2>1, <2>3, PutWordType
  <2> QED BY <1>4, <2>4 DEF WriteUpgrade, WriteUpgradeOf, UpgradeSnooped, PutOwned
<1>5. ASSUME NEW c \in Cpus, NEW l \in Lines, NEW w \in Words, NEW v \in Values,
             WriteHit(c, l, w, v)
      PROVE  HierType(hier')
  <2> DEFINE t == CalcTag(l)
             looked == Look(hier, c, t)
             counted == Count(looked, c, {"numWriteHits"} \cup Silent(looked, c, t, w, v))
  <2>1. c \in Caches /\ t \in Tags
    BY CacheFacts, IndexFacts
  <2>2. HierType(counted)
    BY <1>0, <2>1, LookType, CountType
  <2>3. HierType(PutWord(counted, c, t, w, v))
    BY <2>1, <2>2, PutWordType
  <2> QED BY <1>5, <2>3 DEF WriteHit, WriteHitOf
<1>6. CASE UNCHANGED hier
  BY <1>0, <1>6 DEF TypeOK
<1> QED BY <1>1, <1>2, <1>3, <1>4, <1>5, <1>6 DEF TypeOK, Next

(* Type correctness: every row always has the ways of its level, whatever  *)
(* the accesses, snoops, fills and write-backs.                            *)
THEOREM TypeCorrect == Spec => []TypeOK
<1>1. Init => TypeOK
  BY InitType
<1>2. TypeOK /\ [Next]_hier => TypeOK'
  BY NextType
<1> QED BY <1>1, <1>2, PTL DEF Spec

-----------------------------------------------------------------------------
(* The inductive invariant.                                                *)

(* Well-formed rows at every level: a lookup then hits exactly if some     *)
(* line of the row is valid, which is what the snoops rely on.             *)
Good(h) == HierType(h) /\ \A k \in Caches, s \in Sets : RowOK(h.cache[k][s])

(* Nobody else has what one CPU owns.                                      *)
Exclusive(h) ==
  \A c, d \in Cpus, s \in Sets : \A t :
    (c # d /\ Owns(h.cache[c][s], t)) => ~Has(h.cache[d][s], t)

Coherent(h) == Good(h) /\ Exclusive(h)

(* No private cache of g has or owns more than it does in h.               *)
Weaker(g, h) ==
  \A c \in Cpus, s \in Sets : \A t :
    /\ Has(g.cache[c][s], t) => Has(h.cache[c][s], t)
    /\ Owns(g.cache[c][s], t) => Owns(h.cache[c][s], t)

(* The private caches of g are those of h.                                 *)
SamePrivate(g, h) == \A c \in Cpus : g.cache[c] = h.cache[c]

(* Losing lines or ownership does not break exclusiveness.                 *)
LEMMA WeakerExclusive ==
  ASSUME NEW g, NEW h, Weaker(g, h), Exclusive(h)
  PROVE  Exclusive(g)
BY DEF Weaker, Exclusive

(* Neither does leaving the private caches alone.                          *)
LEMMA SameIsWeaker ==
  ASSUME NEW g, NEW h, SamePrivate(g, h)
  PROVE  Weaker(g, h)
BY DEF SamePrivate, Weaker

-----------------------------------------------------------------------------
(* Steps within one cache.                                                 *)

(* The row of a tag, in a well-formed hierarchy.                           *)
LEMMA RowGood ==
  ASSUME NEW h, Good(h), NEW k \in Caches, NEW t \in Tags
  PROVE  RowOf(h, k, t) \in Row(Assoc(k)) /\ RowOK(RowOf(h, k, t)) /\ Assoc(k) \in Nat \ {0}
BY IndexFacts, CacheFacts, RowOfType DEF Good, RowOf

(* Storing a well-formed row.                                              *)
LEMMA WithRowGood ==
  ASSUME NEW h, Good(h), NEW k \in Caches, NEW t \in Tags,
         NEW row \in Row(Assoc(k)), RowOK(row)
  PROVE  /\ Good(WithRow(h, k, t, row))
         /\ RowOf(WithRow(h, k, t, row), k, t) = row
         /\ \A j \in Caches, s \in Sets :
              WithRow(h, k, t, row).cache[j][s] =
                IF j = k /\ s = SetOf(t) THEN row ELSE h.cache[j][s]
<1> DEFINE g == WithRow(h, k, t, row)
<1>1. HierType(h) /\ SetOf(t) \in Sets
  BY IndexFacts DEF Good
<1>2. /\ HierType(g) /\ RowOf(g, k, t) = row
      /\ \A j \in Caches, s \in Sets : (j # k \/ s # SetOf(t)) => g.cache[j][s] = h.cache[j][s]
  BY <1>1, WithRowType
<1>3. g.cache[k][SetOf(t)] = row
  BY <1>2 DEF RowOf
<1> HIDE DEF g
<1>4. \A j \in Caches, s \in Sets :
        g.cache[j][s] = IF j = k /\ s = SetOf(t) THEN row ELSE h.cache[j][s]
  BY <1>2, <1>3
<1>5. \A j \in Caches, s \in Sets : RowOK(g.cache[j][s])
  BY <1>4 DEF Good
<1> QED BY <1>2, <1>4, <1>5 DEF Good, g

(* Storing a row in a lower level leaves the private caches alone.         *)
LEMMA WithRowBelow ==
  ASSUME NEW h, Good(h), NEW k \in {LLC, Main}, NEW t \in Tags,
         NEW row \in Row(Assoc(k)), RowOK(row)
  PROVE  Good(WithRow(h, k, t, row)) /\ SamePrivate(WithRow(h, k, t, row), h)
<1> DEFINE g == WithRow(h, k, t, row)
<1>1. k \in Caches /\ k \notin Cpus
  BY CacheFacts
<1>2. Good(g) /\ HierType(h) /\ HierType(g)
  BY <1>1, WithRowGood DEF Good
<1>3. \A j \in Cpus, s \in Sets : g.cache[j][s] = h.cache[j][s]
  BY <1>1, WithRowGood, CacheFacts
<1>4. ASSUME NEW j \in Cpus PROVE g.cache[j] = h.cache[j]
  <2>1. j \in Caches
    BY CacheFacts
  <2>2. g.cache[j] \in [Sets -> AnyRow] /\ h.cache[j] \in [Sets -> AnyRow]
    <3> HIDE DEF g
    <3> QED BY <1>2, <2>1 DEF HierType
  <2> HIDE DEF g
  <2> QED BY <1>3, <2>2
<1> QED BY <1>2, <1>4 DEF SamePrivate

(* Counting changes no row.                                                *)
LEMMA CountGood ==
  ASSUME NEW h, Good(h), NEW k \in Caches, NEW names
  PROVE  Good(Count(h, k, names)) /\ Count(h, k, names).cache = h.cache
BY CountType DEF Good

(* A lookup keeps the hierarchy well formed and changes what no row says.  *)
LEMMA LookGood ==
  ASSUME NEW h, Good(h), NEW k \in Caches, NEW t \in Tags
  PROVE  /\ Good(Look(h, k, t))
         /\ Weaker(Look(h, k, t), h)
         /\ RowOf(Look(h, k, t), k, t) = FindLine(RowOf(h, k, t), t)
         /\ k \notin Cpus => SamePrivate(Look(h, k, t), h)
         /\ HitsIn(h, k, t) => /\ RowOf(Look(h, k, t), k, t)[1].tag = t
                               /\ IsValid(RowOf(Look(h, k, t), k, t)[1])
<1> DEFINE row == RowOf(h, k, t)
           new == FindLine(row, t)
           g == WithRow(h, k, t, new)
<1>1. row \in Row(Assoc(k)) /\ RowOK(row) /\ Assoc(k) \in Nat \ {0}
  BY RowGood
<1>2. new \in Row(Assoc(k)) /\ RowOK(new)
  BY <1>1, FindLineType, FindLineOK
<1>3. /\ Good(g) /\ RowOf(g, k, t) = new
      /\ \A j \in Caches, s \in Sets :
           g.cache[j][s] = IF j = k /\ s = SetOf(t) THEN new ELSE h.cache[j][s]
  <2> HIDE DEF new
  <2> QED BY <1>2, WithRowGood
<1>4. \A u : (Has(new, u) => Has(row, u)) /\ (Owns(new, u) => Owns(row, u))
  BY <1>1, FindLineOK
<1>5. Hits(row, t) => new[1].tag = t /\ IsValid(new[1])
  BY <1>1, FindLineOK
<1>6. k \notin Cpus => SamePrivate(g, h)
  <2>1. k \notin Cpus => k \in {LLC, Main}
    BY DEF Caches
  <2> HIDE DEF new
  <2> QED BY <1>2, <2>1, WithRowBelow
<1>7. Look(h, k, t) = g /\ row = h.cache[k][SetOf(t)]
  BY DEF Look, RowOf
<1> HIDE DEF row, new, g
<1>8. Weaker(g, h)
  BY <1>3, <1>4, <1>7, CacheFacts DEF Weaker
<1> QED BY <1>3, <1>5, <1>6, <1>7, <1>8 DEF HitsIn, row, new

-----------------------------------------------------------------------------
(* The lower levels.                                                       *)

(* A fill of any cache, once the victim has been pushed below.             *)
LEMMA InstallGood ==
  ASSUME NEW h, Good(h), NEW g, Good(g), NEW k \in Caches, NEW t \in Tags,
         NEW s \in {"M", "S"}, NEW data \in LineData
  PROVE  /\ Good(WithRow(g, k, t, Install(RowOf(h, k, t), t, s, data)))
         /\ k \notin Cpus =>
              SamePrivate(WithRow(g, k, t, Install(RowOf(h, k, t), t, s, data)), g)
         /\ Victim(RowOf(h, k, t), t).tag \in Tags
         /\ Victim(RowOf(h, k, t), t).data \in LineData
<1> DEFINE row == RowOf(h, k, t)
           new == Install(row, t, s, data)
<1>1. row \in Row(Assoc(k)) /\ RowOK(row) /\ Assoc(k) \in Nat \ {0} /\ s \in States
  BY RowGood DEF States
<1>2. new \in Row(Assoc(k)) /\ RowOK(new)
  <2> HIDE DEF row
  <2> QED BY <1>1, InstallType, InstallOK
<1>3. Victim(row, t) \in Line
  <2> HIDE DEF row
  <2> QED BY <1>1, VictimType
<1>4. k \notin Cpus => k \in {LLC, Main}
  BY DEF Caches
<1> HIDE DEF row, new
<1>5. Good(WithRow(g, k, t, new))
  BY <1>2, WithRowGood
<1>6. k \notin Cpus => SamePrivate(WithRow(g, k, t, new), g)
  BY <1>2, <1>4, WithRowBelow
<1>7. Victim(row, t).tag \in Tags /\ Victim(row, t).data \in LineData
  BY <1>3 DEF Line
<1> QED BY <1>5, <1>6, <1>7 DEF row, new

(* Overwriting the data of a line that was hit.                            *)
LEMMA PutDataGood ==
  ASSUME NEW h, Good(h), NEW k \in Caches, NEW t \in Tags,
         IsValid(RowOf(h, k, t)[1]), NEW data \in LineData
  PROVE  /\ Good(WithRow(h, k, t, SetData(RowOf(h, k, t), data)))
         /\ Weaker(WithRow(h, k, t, SetData(RowOf(h, k, t), data)), h)
         /\ k \notin Cpus => SamePrivate(WithRow(h, k, t, SetData(RowOf(h, k, t), data)), h)
<1> DEFINE row == RowOf(h, k, t)
           new == SetData(row, data)
           g == WithRow(h, k, t, new)
<1>1. row \in Row(Assoc(k)) /\ RowOK(row) /\ Assoc(k) \in Nat \ {0}
  BY RowGood
<1>2. new \in Row(Assoc(k))
  <2> HIDE DEF row
  <2> QED BY <1>1, FrontUpdateType
<1>3. RowOK(new) /\ \A u : (Has(new, u) <=> Has(row, u)) /\ (Owns(new, u) <=> Owns(row, u))
  <2> HIDE DEF row
  <2> QED BY <1>1, SetDataOK DEF row
<1>4. k \notin Cpus => k \in {LLC, Main}
  BY DEF Caches
<1>5. row = h.cache[k][SetOf(t)]
  BY DEF RowOf
<1> HIDE DEF row, new
<1>6. /\ Good(g)
      /\ \A j \in Caches, s \in Sets :
           g.cache[j][s] = IF j = k /\ s = SetOf(t) THEN new ELSE h.cache[j][s]
  BY <1>2, <1>3, WithRowGood
<1>7. k \notin Cpus => SamePrivate(g, h)
  BY <1>2, <1>3, <1>4, WithRowBelow
<1> HIDE DEF g
<1>8. Weaker(g, h)
  BY <1>3, <1>5, <1>6, CacheFacts DEF Weaker
<1> QED BY <1>6, <1>7, <1>8 DEF g, row, new

(* What a lower level does for the caches above keeps every row well       *)
(* formed and touches no private cache.                                    *)
Under(g, h) == Good(g) /\ SamePrivate(g, h)

(* Such steps compose.                                                     *)
LEMMA UnderTrans ==
  ASSUME NEW f, NEW g, NEW h, Under(f, g), Under(g, h)
  PROVE  Under(f, h)
BY DEF Under, SamePrivate

(* A lookup or a count at a lower level.                                   *)
LEMMA LookUnder ==
  ASSUME NEW h, Good(h), NEW k \in {LLC, Main}, NEW t \in Tags, NEW names
  PROVE  /\ Under(Look(h, k, t), h)
         /\ Under(Count(h, k, names), h)
         /\ Under(Count(Look(h, k, t), k, names), h)
<1>1. k \in Caches /\ k \notin Cpus
  BY CacheFacts
<1>2. Under(Look(h, k, t), h)
  BY <1>1, LookGood DEF Under
<1>3. \A g : Good(g) => Under(Count(g, k, names), g)
  BY <1>1, CountGood DEF Under, SamePrivate
<1>4. Under(Count(Look(h, k, t), k, names), Look(h, k, t))
  BY <1>2, <1>3 DEF Under
<1> QED BY <1>2, <1>3, <1>4, UnderTrans

(* A write-back that hits at a lower level.                                *)
LEMMA WriteHitUnder ==
  ASSUME NEW h, Good(h), NEW k \in {LLC, Main}, NEW t \in Tags, NEW data \in LineData,
         NEW first, NEW last, HitsIn(h, k, t)
  PROVE  Under(Count(WithRow(Count(Look(h, k, t), k, first), k, t,
                             SetData(RowOf(Count(Look(h, k, t), k, first), k, t), data)),
                     k, last), h)
<1> DEFINE looked == Count(Look(h, k, t), k, first)
           hit == WithRow(looked, k, t, SetData(RowOf(looked, k, t), data))
<1>1. k \in Caches /\ k \notin Cpus
  BY CacheFacts
<1>2. Under(looked, h)
  BY LookUnder
<1>3. looked.cache = Look(h, k, t).cache
  BY <1>1, LookGood, CountGood
<1>4. RowOf(looked, k, t) = RowOf(Look(h, k, t), k, t)
  BY <1>3 DEF RowOf
<1>5. IsValid(RowOf(looked, k, t)[1])
  BY <1>1, <1>4, LookGood
<1> HIDE DEF looked
<1>6. Under(hit, looked)
  BY <1>1, <1>2, <1>5, PutDataGood DEF Under
<1> HIDE DEF hit
<1>7. Under(Count(hit, k, last), hit)
  BY <1>6, LookUnder DEF Under
<1> QED BY <1>2, <1>6, <1>7, UnderTrans DEF looked, hit

(* A fill of main memory.                                                  *)
LEMMA MainFillUnder ==
  ASSUME NEW h, Good(h), NEW t \in Tags, NEW s \in {"M", "S"}, NEW data \in LineData
  PROVE  Under(FillLine(h, Main, t, s, data, NoWrite), h)
<1>1. Main \in Caches /\ Main \notin Cpus
  BY CacheFacts
<1>2. Under(WithRow(h, Main, t, Install(RowOf(h, Main, t), t, s, data)), h)
  BY <1>1, InstallGood DEF Under
<1> QED BY <1>2 DEF FillLine, Evicts

(* A write-back that reaches main memory.                                  *)
LEMMA MainWriteUnder ==
  ASSUME NEW h, Good(h), NEW t \in Tags, NEW data \in LineData
  PROVE  Under(MainWrite(h, t, data), h)
<1> DEFINE looked == Count(Look(h, Main, t), Main, {"numWritebacksReceived"})
<1>1. CASE HitsIn(h, Main, t)
  BY <1>1, WriteHitUnder DEF MainWrite, WriteLine, Received
<1>2. CASE ~HitsIn(h, Main, t)
  <2>1. Under(looked, h)
    BY LookUnder
  <2> HIDE DEF looked
  <2>2. Under(FillLine(looked, Main, t, "M", data, NoWrite), looked)
    BY <2>1, MainFillUnder DEF Under
  <2>3. Under(FillLine(looked, Main, t, "M", data, NoWrite), h)
    BY <2>1, <2>2, UnderTrans
  <2> QED BY <1>2, <2>3 DEF MainWrite, WriteLine, Received, looked
<1> QED BY <1>1, <1>2

(* A line read that reaches main memory.                                   *)
LEMMA MainReadUnder ==
  ASSUME NEW h, Good(h), NEW t \in Tags
  PROVE  Under(MainRead(h, t).hier, h) /\ MainRead(h, t).data \in LineData
<1> DEFINE looked == Look(h, Main, t)
           missed == Count(looked, Main, {"numReadMisses", "numReadRequestsSent"})
<1>1. Main \in Caches
  BY CacheFacts
<1>2. Under(missed, h) /\ Under(looked, h)
  BY LookUnder
<1>3. MainRead(h, t).data \in LineData
  BY MainReadType DEF Good
<1>4. CASE HitsIn(h, Main, t)
  <2>1. MainRead(h, t).hier = Count(looked, Main, {"numReadHits"})
    BY <1>4 DEF MainRead, ReadLine
  <2>2. Under(Count(looked, Main, {"numReadHits"}), h)
    BY LookUnder
  <2> QED BY <1>3, <2>1, <2>2
<1>5. CASE ~HitsIn(h, Main, t)
  <2>1. MainRead(h, t).hier = FillLine(missed, Main, t, "S", NaNLine, NoWrite)
    BY <1>5 DEF MainRead, ReadLine, NoRead
  <2> HIDE DEF missed
  <2>2. Under(FillLine(missed, Main, t, "S", NaNLine, NoWrite), missed)
    BY <1>2, NaNLineType, MainFillUnder DEF Under
  <2> QED BY <1>2, <1>3, <2>1, <2>2, UnderTrans
<1> QED BY <1>4, <1>5

(* The last-level cache: its fills push victims to main memory.            *)
LEMMA LLCFillUnder ==
  ASSUME NEW h, Good(h), NEW t \in Tags, NEW s \in {"M", "S"}, NEW data \in LineData
  PROVE  Under(FillLine(h, LLC, t, s, data, MainWrite), h)
<1> DEFINE victim == Victim(RowOf(h, LLC, t), t)
           written == MainWrite(h, victim.tag, victim.data)
           pushed == Count(written, LLC, {"numReplacements"})
           new == Install(RowOf(h, LLC, t), t, s, data)
<1>1. LLC \in Caches /\ LLC \notin Cpus
  BY CacheFacts
<1>2. victim.tag \in Tags /\ victim.data \in LineData
  BY <1>1, InstallGood
<1>3. Under(written, h)
  <2> HIDE DEF victim
  <2> QED BY <1>2, MainWriteUnder
<1>4. Under(pushed, written)
  <2> HIDE DEF written
  <2> QED BY <1>3, LookUnder DEF Under
<1>5. Under(pushed, h)
  BY <1>3, <1>4, UnderTrans
<1>6. Under(WithRow(h, LLC, t, new), h)
  BY <1>1, InstallGood DEF Under
<1>7. Under(WithRow(pushed, LLC, t, new), pushed)
  <2> HIDE DEF pushed
  <2> QED BY <1>1, <1>5, InstallGood DEF Under
<1>8. Under(WithRow(pushed, LLC, t, new), h)
  <2> HIDE DEF pushed, new
  <2> QED BY <1>5, <1>7, UnderTrans
<1> QED BY <1>6, <1>8 DEF FillLine, Evicts

(* A write-back that reaches the last-level cache.                         *)
LEMMA LLCWriteUnder ==
  ASSUME NEW h, Good(h), NEW t \in Tags, NEW data \in LineData
  PROVE  Under(LLCWrite(h, t, data), h)
<1> DEFINE looked == Count(Look(h, LLC, t), LLC, {"numWritebacksReceived"})
<1>1. CASE HitsIn(h, LLC, t)
  BY <1>1, WriteHitUnder DEF LLCWrite, WriteLine, Received
<1>2. CASE ~HitsIn(h, LLC, t)
  <2>1. Under(looked, h)
    BY LookUnder
  <2> HIDE DEF looked
  <2>2. Under(FillLine(looked, LLC, t, "M", data, MainWrite), looked)
    BY <2>1, LLCFillUnder DEF Under
  <2>3. Under(FillLine(looked, LLC, t, "M", data, MainWrite), h)
    BY <2>1, <2>2, UnderTrans
  <2> QED BY <1>2, <2>3 DEF LLCWrite, WriteLine, Received, looked
<1> QED BY <1>1, <1>2

(* A line read that reaches the last-level cache.                          *)
LEMMA LLCReadUnder ==
  ASSUME NEW h, Good(h), NEW t \in Tags
  PROVE  Under(LLCRead(h, t).hier, h) /\ LLCRead(h, t).data \in LineData
<1> DEFINE looked == Look(h, LLC, t)
           missed == Count(looked, LLC, {"numReadMisses", "numReadRequestsSent"})
           below == MainRead(missed, t)
<1>1. LLC \in Caches
  BY CacheFacts
<1>2. Under(missed, h) /\ Under(looked, h)
  BY LookUnder
<1>3. LLCRead(h, t).data \in LineData
  BY LLCReadType DEF Good
<1>4. CASE HitsIn(h, LLC, t)
  <2>1. LLCRead(h, t).hier = Count(looked, LLC, {"numReadHits"})
    BY <1>4 DEF LLCRead, ReadLine
  <2>2. Under(Count(looked, LLC, {"numReadHits"}), h)
    BY LookUnder
  <2> QED BY <1>3, <2>1, <2>2
<1>5. CASE ~HitsIn(h, LLC, t)
  <2>1. LLCRead(h, t).hier = FillLine(below.hier, LLC, t, "S", below.data, MainWrite)
    BY <1>5 DEF LLCRead, ReadLine
  <2> HIDE DEF missed
  <2>2. Under(below.hier, missed) /\ below.data \in LineData
    BY <1>2, MainReadUnder DEF Under
  <2> HIDE DEF below
  <2>3. Under(FillLine(below.hier, LLC, t, "S", below.data, MainWrite), below.hier)
    BY <2>2, LLCFillUnder DEF Under
  <2> QED BY <1>2, <1>3, <2>1, <2>2, <2>3, UnderTrans
<1> QED BY <1>4, <1>5

-----------------------------------------------------------------------------
(* The private caches.                                                     *)

(* What an asked sibling answers: a read takes ownership away, a write the *)
(* line itself.                                                            *)
LEMMA AnswerGood ==
  ASSUME NEW n \in Nat \ {0}, NEW row \in Row(n), RowOK(row), NEW t \in Tags
  PROVE  /\ RowOK(ReadAnswer(row, t)) /\ RowOK(WriteAnswer(row, t))
         /\ \A u : /\ Has(ReadAnswer(row, t), u) => Has(row, u)
                   /\ Owns(ReadAnswer(row, t), u) => Owns(row, u)
                   /\ Has(WriteAnswer(row, t), u) => Has(row, u)
                   /\ Owns(WriteAnswer(row, t), u) => Owns(row, u)
         /\ Hits(row, t) => ~Owns(ReadAnswer(row, t), t)
         /\ ~Has(WriteAnswer(row, t), t)
<1> DEFINE new == FindLine(row, t)
<1>1. /\ new \in Row(n) /\ RowOK(new)
      /\ \A u : (Has(new, u) <=> Has(row, u)) /\ (Owns(new, u) <=> Owns(row, u))
      /\ Hits(row, t) => new[1].tag = t /\ IsValid(new[1])
  BY FindLineType, FindLineOK
<1> HIDE DEF new
<1>2. CASE Hits(row, t)
  <2>1. ReadAnswer(row, t) = SetState(new, "S") /\ WriteAnswer(row, t) = Invalidate(new)
    BY <1>2 DEF ReadAnswer, WriteAnswer, new
  <2>2. /\ RowOK(SetState(new, "S"))
        /\ \A u : Has(SetState(new, "S"), u) <=> Has(new, u)
        /\ \A u : Owns(SetState(new, "S"), u) => u # t /\ Owns(new, u)
    BY <1>1, <1>2, SetStateOK
  <2>3. /\ RowOK(Invalidate(new)) /\ ~Has(Invalidate(new), t)
        /\ \A u : Has(Invalidate(new), u) => Has(new, u)
        /\ \A u : Owns(Invalidate(new), u) => Owns(new, u)
    BY <1>1, <1>2, InvalidateOK
  <2> QED BY <1>1, <2>1, <2>2, <2>3
<1>3. CASE ~Hits(row, t)
  <2>1. ReadAnswer(row, t) = new /\ WriteAnswer(row, t) = new
    BY <1>3 DEF ReadAnswer, WriteAnswer, new
  <2>2. ~Has(row, t)
    BY <1>3, HitsIffHas
  <2> QED BY <1>1, <1>3, <2>1, <2>2
<1> QED BY <1>2, <1>3

(* A valid copy is what a row has.                                         *)
LEMMA HitsInIffHas ==
  ASSUME NEW h, Good(h), NEW k \in Caches, NEW t \in Tags
  PROVE  HitsIn(h, k, t) <=> Has(h.cache[k][SetOf(t)], t)
<1>1. RowOf(h, k, t) \in Row(Assoc(k)) /\ RowOK(RowOf(h, k, t)) /\ Assoc(k) \in Nat \ {0}
  BY RowGood
<1> QED BY <1>1, HitsIffHas DEF HitsIn, RowOf

(* After the snoop of a read no sibling owns the line: if anyone did, it   *)
(* was the only one with a valid copy, so the snoop reached it.            *)
LEMMA ReadRemoteGood ==
  ASSUME NEW h, Coherent(h), NEW c \in Cpus, NEW t \in Tags
  PROVE  /\ Good(ReadRemoteAction(h, c, t))
         /\ Weaker(ReadRemoteAction(h, c, t), h)
         /\ \A d \in Siblings(c) : ~Owns(ReadRemoteAction(h, c, t).cache[d][SetOf(t)], t)
<1> DEFINE g == ReadRemoteAction(h, c, t)
<1>1. Good(h) /\ HierType(h) /\ Exclusive(h) /\ SetOf(t) \in Sets
  BY IndexFacts DEF Coherent, Good
<1>2. /\ HierType(g)
      /\ \A k \in Caches, s \in Sets :
           g.cache[k][s] = IF k \in AskedOnRead(h, c, t) /\ s = SetOf(t)
                           THEN ReadAnswer(RowOf(h, k, t), t) ELSE h.cache[k][s]
  BY <1>1, RemoteType
<1> HIDE DEF g
<1>3. \A k \in Caches :
        /\ RowOK(ReadAnswer(RowOf(h, k, t), t))
        /\ \A u : /\ Has(ReadAnswer(RowOf(h, k, t), t), u) => Has(RowOf(h, k, t), u)
                  /\ Owns(ReadAnswer(RowOf(h, k, t), t), u) => Owns(RowOf(h, k, t), u)
        /\ HitsIn(h, k, t) => ~Owns(ReadAnswer(RowOf(h, k, t), t), t)
  BY <1>1, RowGood, AnswerGood DEF HitsIn
<1>4. \A k \in Caches, s \in Sets : RowOK(g.cache[k][s])
  BY <1>1, <1>2, <1>3 DEF Good
<1>5. Weaker(g, h)
  BY <1>2, <1>3, CacheFacts DEF Weaker, RowOf
<1>6. ASSUME NEW d \in Siblings(c), Owns(g.cache[d][SetOf(t)], t)
      PROVE  FALSE
  <2>1. d \in Cpus /\ d \in Caches /\ c # d
    BY CacheFacts DEF Siblings
  <2>2. Owns(h.cache[d][SetOf(t)], t)
    BY <1>1, <1>5, <1>6, <2>1 DEF Weaker
  <2>3. HitsIn(h, d, t)
    <3>1. Has(h.cache[d][SetOf(t)], t)
      BY <2>2 DEF Owns, Has, IsValid
    <3> QED BY <1>1, <2>1, <3>1, HitsInIffHas
  <2>4. d \in ValidCopies(h, c, t)
    BY <2>3 DEF ValidCopies
  <2>5. Provider(h, c, t) \in ValidCopies(h, c, t)
    BY <2>4, ValidCopiesFacts
  <2>6. Provider(h, c, t) = d
    <3> DEFINE p == Provider(h, c, t)
    <3>1. p \in Cpus /\ p \in Caches /\ HitsIn(h, p, t)
      BY <2>5, CacheFacts DEF ValidCopies, Siblings
    <3> HIDE DEF p
    <3>2. Has(h.cache[p][SetOf(t)], t)
      BY <1>1, <3>1, HitsInIffHas
    <3>3. p = d
      BY <1>1, <2>1, <2>2, <3>1, <3>2 DEF Exclusive
    <3> QED BY <3>3 DEF p
  <2>7. d \in AskedOnRead(h, c, t)
    <3>1. d = Min(ValidCopies(h, c, t)) /\ d \in Int
      BY <2>1, <2>6, HierarchyAssumption DEF Provider, Cpus
    <3> QED BY <2>4, <3>1 DEF AskedOnRead
  <2>8. g.cache[d][SetOf(t)] = ReadAnswer(RowOf(h, d, t), t)
    BY <1>1, <1>2, <2>1, <2>7
  <2> QED BY <1>3, <1>6, <2>1, <2>3, <2>8
<1> QED BY <1>2, <1>4, <1>5, <1>6 DEF Good, g

(* After the snoop of a write no sibling has the line, and the writer's    *)
(* cache is as it was.                                                     *)
LEMMA WriteRemoteGood ==
  ASSUME NEW h, Good(h), NEW c \in Cpus, NEW t \in Tags
  PROVE  /\ Good(WriteRemoteAction(h, c, t))
         /\ Weaker(WriteRemoteAction(h, c, t), h)
         /\ \A s \in Sets : WriteRemoteAction(h, c, t).cache[c][s] = h.cache[c][s]
         /\ \A d \in Siblings(c) : ~Has(WriteRemoteAction(h, c, t).cache[d][SetOf(t)], t)
<1> DEFINE g == WriteRemoteAction(h, c, t)
<1>1. HierType(h) /\ SetOf(t) \in Sets
  BY IndexFacts DEF Good
<1>2. /\ HierType(g)
      /\ \A k \in Caches, s \in Sets :
           g.cache[k][s] = IF k \in Siblings(c) /\ s = SetOf(t)
                           THEN WriteAnswer(RowOf(h, k, t), t) ELSE h.cache[k][s]
  BY <1>1, RemoteType
<1> HIDE DEF g
<1>3. \A k \in Caches :
        /\ RowOK(WriteAnswer(RowOf(h, k, t), t))
        /\ \A u : /\ Has(WriteAnswer(RowOf(h, k, t), t), u) => Has(RowOf(h, k, t), u)
                  /\ Owns(WriteAnswer(RowOf(h, k, t), t), u) => Owns(RowOf(h, k, t), u)
        /\ ~Has(WriteAnswer(RowOf(h, k, t), t), t)
  BY <1>1, RowGood, AnswerGood
<1>4. \A k \in Caches, s \in Sets : RowOK(g.cache[k][s])
  BY <1>1, <1>2, <1>3 DEF Good
<1>5. Weaker(g, h)
  BY <1>2, <1>3, CacheFacts DEF Weaker, RowOf
<1>6. \A s \in Sets : g.cache[c][s] = h.cache[c][s]
  BY <1>2, CacheFacts DEF Siblings
<1>7. \A d \in Siblings(c) : ~Has(g.cache[d][SetOf(t)], t)
  BY <1>1, <1>2, <1>3, CacheFacts DEF Siblings
<1> QED BY <1>2, <1>4, <1>5, <1>6, <1>7 DEF Good, g

(* A fill of a private cache is safe if the snoop before it left nobody    *)
(* who owns the line (to share it) or has it (to modify it).               *)
LEMMA PrivateFillCoherent ==
  ASSUME NEW h, Coherent(h), NEW c \in Cpus, NEW t \in Tags, NEW s \in {"M", "S"},
         NEW data \in LineData,
         \A d \in Siblings(c) : ~Owns(h.cache[d][SetOf(t)], t),
         s = "M" => \A d \in Siblings(c) : ~Has(h.cache[d][SetOf(t)], t)
  PROVE  /\ Coherent(FillLine(h, c, t, s, data, LLCWrite))
         /\ RowOf(FillLine(h, c, t, s, data, LLCWrite), c, t) = Install(RowOf(h, c, t), t, s, data)
<1> DEFINE victim == Victim(RowOf(h, c, t), t)
           written == LLCWrite(h, victim.tag, victim.data)
           pushed == Count(written, c, {"numReplacements"})
           new == Install(RowOf(h, c, t), t, s, data)
           start == IF victim.islineInvalid THEN h ELSE pushed
           g == WithRow(start, c, t, new)
<1>1. c \in Caches /\ c # Main /\ Good(h) /\ Exclusive(h) /\ SetOf(t) \in Sets
  BY CacheFacts, IndexFacts DEF Coherent
<1>2. FillLine(h, c, t, s, data, LLCWrite) = g
  BY <1>1 DEF FillLine, Evicts
<1>3. victim.tag \in Tags /\ victim.data \in LineData
  BY <1>1, InstallGood
<1>4. Under(written, h)
  <2> HIDE DEF victim
  <2> QED BY <1>1, <1>3, LLCWriteUnder
<1>5. Under(pushed, written)
  <2> HIDE DEF written
  <2> QED BY <1>1, <1>4, CountGood DEF Under, SamePrivate
<1>6. Good(start) /\ SamePrivate(start, h)
  <2>1. Under(pushed, h)
    BY <1>4, <1>5, UnderTrans
  <2>2. SamePrivate(h, h)
    BY DEF SamePrivate
  <2> HIDE DEF pushed
  <2> QED BY <1>1, <2>1, <2>2 DEF Under
<1>7. RowOf(h, c, t) \in Row(Assoc(c)) /\ RowOK(RowOf(h, c, t)) /\ Assoc(c) \in Nat \ {0}
  BY <1>1, RowGood
<1>8. new \in Row(Assoc(c)) /\ RowOK(new)
  BY <1>7, InstallType, InstallOK DEF States
<1>9. \A u : /\ Has(new, u) => u = t \/ Has(RowOf(h, c, t), u)
             /\ Owns(new, u) => IF u = t THEN s = "M" ELSE Owns(RowOf(h, c, t), u)
  BY <1>7, InstallOK
<1> HIDE DEF start, new
<1>10. /\ Good(g)
       /\ \A j \in Caches, z \in Sets :
            g.cache[j][z] = IF j = c /\ z = SetOf(t) THEN new ELSE start.cache[j][z]
  BY <1>1, <1>6, <1>8, WithRowGood
<1> HIDE DEF g
<1>11. \A j \in Cpus, z \in Sets :
         g.cache[j][z] = IF j = c /\ z = SetOf(t) THEN new ELSE h.cache[j][z]
  BY <1>6, <1>10, CacheFacts DEF SamePrivate
<1>12. Exclusive(g)
  <2> SUFFICES ASSUME NEW a \in Cpus, NEW b \in Cpus, NEW z \in Sets, NEW u, a # b,
                      Owns(g.cache[a][z], u)
               PROVE  ~Has(g.cache[b][z], u)
    BY DEF Exclusive
  <2>1. CASE z # SetOf(t) \/ (a # c /\ b # c)
    BY <1>1, <1>11, <2>1 DEF Exclusive
  <2>2. CASE z = SetOf(t) /\ a = c
    <3>1. b \in Siblings(c) /\ g.cache[b][z] = h.cache[b][z] /\ g.cache[a][z] = new
      BY <1>11, <2>2 DEF Siblings
    <3>2. CASE u = t
      BY <1>9, <2>2, <3>1, <3>2
    <3>3. CASE u # t
      <4>1. Owns(h.cache[a][z], u)
        BY <1>9, <2>2, <3>1, <3>3 DEF RowOf
      <4> QED BY <1>1, <3>1, <4>1 DEF Exclusive
    <3> QED BY <3>2, <3>3
  <2>3. CASE z = SetOf(t) /\ b = c
    <3>1. a \in Siblings(c) /\ g.cache[a][z] = h.cache[a][z] /\ g.cache[b][z] = new
      BY <1>11, <2>3 DEF Siblings
    <3>2. u # t
      BY <2>3, <3>1
    <3>3. ~Has(h.cache[b][z], u)
      BY <1>1, <3>1 DEF Exclusive
    <3> QED BY <1>9, <2>3, <3>1, <3>2, <3>3 DEF RowOf
  <2> QED BY <2>1, <2>2, <2>3
<1>13. RowOf(g, c, t) = new
  BY <1>1, <1>10 DEF RowOf
<1> QED BY <1>2, <1>10, <1>12, <1>13 DEF Coherent, new

-----------------------------------------------------------------------------
(* The accesses.                                                           *)

(* A lookup of an access, with what it counts.                             *)
LEMMA AccessLook ==
  ASSUME NEW h, Coherent(h), NEW c \in Cpus, NEW t \in Tags, NEW names
  PROVE  /\ Coherent(Look(h, c, t)) /\ Coherent(Count(Look(h, c, t), c, names))
         /\ Count(Look(h, c, t), c, names).cache = Look(h, c, t).cache
         /\ HitsIn(h, c, t) =>
              /\ RowOf(Look(h, c, t), c, t)[1].tag = t
              /\ IsValid(RowOf(Look(h, c, t), c, t)[1])
<1> DEFINE looked == Look(h, c, t)
<1>1. c \in Caches /\ Good(h) /\ Exclusive(h)
  BY CacheFacts DEF Coherent
<1>2. /\ Good(looked) /\ Weaker(looked, h)
      /\ HitsIn(h, c, t) => RowOf(looked, c, t)[1].tag = t /\ IsValid(RowOf(looked, c, t)[1])
  BY <1>1, LookGood
<1> HIDE DEF looked
<1>3. Good(Count(looked, c, names)) /\ Count(looked, c, names).cache = looked.cache
  BY <1>1, <1>2, CountGood
<1>4. Exclusive(looked)
  BY <1>1, <1>2, WeakerExclusive
<1>5. Exclusive(Count(looked, c, names))
  BY <1>3, <1>4 DEF Exclusive
<1> QED BY <1>2, <1>3, <1>4, <1>5 DEF Coherent, looked

(* Counting in a private cache.                                            *)
LEMMA CountCoherent ==
  ASSUME NEW h, Coherent(h), NEW c \in Cpus, NEW names
  PROVE  Coherent(Count(h, c, names)) /\ Count(h, c, names).cache = h.cache
<1>1. Good(Count(h, c, names)) /\ Count(h, c, names).cache = h.cache
  BY CacheFacts, CountGood DEF Coherent
<1> QED BY <1>1 DEF Coherent, Exclusive

(* A miss fetches the line, from a sibling or from below, and leaves no    *)
(* sibling that owns it.                                                   *)
LEMMA FetchCoherent ==
  ASSUME NEW h, Coherent(h), NEW c \in Cpus, NEW t \in Tags
  PROVE  /\ Coherent(Fetch(h, c, t).hier)
         /\ Fetch(h, c, t).data \in LineData
         /\ \A d \in Siblings(c) : ~Owns(Fetch(h, c, t).hier.cache[d][SetOf(t)], t)
<1> DEFINE asked == ReadRemoteAction(h, c, t)
           got == Fetch(h, c, t)
<1>1. c \in Caches /\ SetOf(t) \in Sets /\ Siblings(c) \subseteq Cpus
  BY CacheFacts, IndexFacts DEF Siblings
<1>2. got.data \in LineData
  BY FetchType DEF Coherent, Good
<1>3. Good(asked) /\ Weaker(asked, h) /\ \A d \in Siblings(c) : ~Owns(asked.cache[d][SetOf(t)], t)
  BY ReadRemoteGood
<1>4. Good(got.hier) /\ SamePrivate(got.hier, asked)
  <2>1. CASE ValidCopies(h, c, t) # {}
    <3>1. PICK names : got.hier = Count(asked, c, names)
      BY <2>1 DEF Fetch
    <3> HIDE DEF asked, got
    <3> QED BY <1>1, <1>3, <3>1, CountGood DEF SamePrivate
  <2>2. CASE ValidCopies(h, c, t) = {}
    <3>1. got.hier = LLCRead(asked, t).hier
      BY <2>2 DEF Fetch
    <3> HIDE DEF asked, got
    <3> QED BY <1>3, <3>1, LLCReadUnder DEF Under
  <2> QED BY <2>1, <2>2
<1> HIDE DEF asked, got
<1>5. Exclusive(got.hier)
  BY <1>3, <1>4, WeakerExclusive, SameIsWeaker DEF Coherent
<1>6. \A d \in Siblings(c) : ~Owns(got.hier.cache[d][SetOf(t)], t)
  BY <1>1, <1>3, <1>4 DEF SamePrivate
<1> QED BY <1>2, <1>4, <1>5, <1>6 DEF Coherent, got

(* Neither the snoop of a read nor the level below touches the own row.    *)
LEMMA FetchOwnRow ==
  ASSUME NEW h, Coherent(h), NEW c \in Cpus, NEW t \in Tags
  PROVE  /\ RowOf(ReadRemoteAction(h, c, t), c, t) = RowOf(h, c, t)
         /\ RowOf(Fetch(h, c, t).hier, c, t) = RowOf(h, c, t)
<1> DEFINE asked == ReadRemoteAction(h, c, t)
<1>1. c \in Caches /\ SetOf(t) \in Sets /\ HierType(h) /\ Good(asked)
  BY CacheFacts, IndexFacts, ReadRemoteGood DEF Coherent, Good
<1>2. c \notin AskedOnRead(h, c, t)
  BY DEF AskedOnRead, Siblings
<1>3. RowOf(asked, c, t) = RowOf(h, c, t)
  BY <1>1, <1>2, RemoteType DEF RowOf
<1> HIDE DEF asked
<1>4. CASE ValidCopies(h, c, t) # {}
  <2>1. PICK names : Fetch(h, c, t).hier = Count(asked, c, names)
    BY <1>4 DEF Fetch, asked
  <2>2. Count(asked, c, names).cache = asked.cache
    BY <1>1, CountGood
  <2> QED BY <1>3, <2>1, <2>2 DEF RowOf, asked
<1>5. CASE ValidCopies(h, c, t) = {}
  <2>1. Fetch(h, c, t) = LLCRead(asked, t)
    BY <1>5 DEF Fetch, asked
  <2>2. LLCRead(asked, t).hier.cache[c] = asked.cache[c]
    BY <1>1, LLCReadUnder DEF Under, SamePrivate
  <2> QED BY <1>3, <2>1, <2>2 DEF RowOf, asked
<1> QED BY <1>4, <1>5

(* The store at the end of a write to a line that is valid in front.       *)
LEMMA PutWordCoherent ==
  ASSUME NEW h, Coherent(h), NEW c \in Cpus, NEW t \in Tags, NEW w \in Words, NEW v \in Values,
         IsValid(RowOf(h, c, t)[1])
  PROVE  Coherent(PutWord(h, c, t, w, v))
<1>1. c \in Caches /\ Good(h) /\ Exclusive(h) /\ HierType(h)
  BY CacheFacts DEF Coherent, Good
<1>2. [RowOf(h, c, t)[1].data EXCEPT ![w] = v] \in LineData
  BY <1>1, FrontDataType, WordType DEF FrontData
<1>3. Good(PutWord(h, c, t, w, v)) /\ Weaker(PutWord(h, c, t, w, v), h)
  BY <1>1, <1>2, PutDataGood DEF PutWord
<1> QED BY <1>1, <1>3, WeakerExclusive DEF Coherent

(* An upgrade is safe if the snoop before it left no other copy.           *)
LEMMA OwnCoherent ==
  ASSUME NEW h, Coherent(h), NEW c \in Cpus, NEW t \in Tags,
         IsValid(RowOf(h, c, t)[1]), RowOf(h, c, t)[1].tag = t,
         \A d \in Siblings(c) : ~Has(h.cache[d][SetOf(t)], t)
  PROVE  /\ Coherent(WithRow(h, c, t, SetState(RowOf(h, c, t), "M")))
         /\ IsValid(RowOf(WithRow(h, c, t, SetState(RowOf(h, c, t), "M")), c, t)[1])
<1> DEFINE row == RowOf(h, c, t)
           new == SetState(row, "M")
           g == WithRow(h, c, t, new)
<1>1. c \in Caches /\ Good(h) /\ Exclusive(h) /\ SetOf(t) \in Sets
  BY CacheFacts, IndexFacts DEF Coherent
<1>2. row \in Row(Assoc(c)) /\ RowOK(row) /\ Assoc(c) \in Nat \ {0}
  BY <1>1, RowGood
<1>3. row = h.cache[c][SetOf(t)]
  BY DEF RowOf
<1> HIDE DEF row
<1>4. new \in Row(Assoc(c))
  BY <1>2, FrontUpdateType DEF States
<1>5. /\ RowOK(new)
      /\ \A u : Has(new, u) <=> Has(row, u)
      /\ \A u : Owns(new, u) => u = t \/ Owns(row, u)
  BY <1>2, SetStateOK DEF row
<1>6. IsValid(new[1])
  <2>1. row[1] \in Line /\ 1 \in DOMAIN row
    BY <1>2 DEF Row
  <2> QED BY <2>1 DEF SetState, IsValid, Line
<1> HIDE DEF new
<1>7. /\ Good(g) /\ RowOf(g, c, t) = new
      /\ \A j \in Caches, z \in Sets :
           g.cache[j][z] = IF j = c /\ z = SetOf(t) THEN new ELSE h.cache[j][z]
  BY <1>1, <1>4, <1>5, WithRowGood
<1> HIDE DEF g
<1>8. Exclusive(g)
  <2> SUFFICES ASSUME NEW a \in Cpus, NEW b \in Cpus, NEW z \in Sets, NEW u, a # b,
                      Owns(g.cache[a][z], u)
               PROVE  ~Has(g.cache[b][z], u)
    BY DEF Exclusive
  <2>1. \A j \in Cpus : Has(g.cache[j][z], u) <=> Has(h.cache[j][z], u)
    BY <1>3, <1>5, <1>7, CacheFacts
  <2>2. CASE Owns(h.cache[a][z], u)
    BY <1>1, <2>1, <2>2 DEF Exclusive
  <2>3. CASE ~Owns(h.cache[a][z], u)
    <3>1. a = c /\ z = SetOf(t) /\ u = t
      BY <1>3, <1>5, <1>7, <2>3, CacheFacts
    <3>2. b \in Siblings(c)
      BY <3>1 DEF Siblings
    <3> QED BY <2>1, <3>1, <3>2
  <2> QED BY <2>2, <2>3
<1> QED BY <1>6, <1>7, <1>8 DEF Coherent, g, new, row

-----------------------------------------------------------------------------
(* The stages of an access, and the accesses.                              *)

(* What a snoop leaves behind.                                             *)
NobodyElseOwns(h, c, t) == \A d \in Siblings(c) : ~Owns(h.cache[d][SetOf(t)], t)
NobodyElseHas(h, c, t) == \A d \in Siblings(c) : ~Has(h.cache[d][SetOf(t)], t)

(* The line that a hit brought to the front.                               *)
ValidInFront(h, c, t) == RowOf(h, c, t)[1].tag = t /\ IsValid(RowOf(h, c, t)[1])

(* Who does not have a line does not own it either.                        *)
LEMMA HasNotOwnsNot ==
  ASSUME NEW h, NEW c, NEW t, NobodyElseHas(h, c, t)
  PROVE  NobodyElseOwns(h, c, t)
BY DEF NobodyElseHas, NobodyElseOwns, Owns, Has, IsValid

(* A step below the private caches leaves the siblings as they are.        *)
LEMMA UnderCoherent ==
  ASSUME NEW h, Coherent(h), NEW g, Under(g, h), NEW c \in Cpus, NEW t \in Tags
  PROVE  /\ Coherent(g)
         /\ NobodyElseOwns(h, c, t) => NobodyElseOwns(g, c, t)
         /\ NobodyElseHas(h, c, t) => NobodyElseHas(g, c, t)
<1>1. Siblings(c) \subseteq Cpus
  BY DEF Siblings
<1> QED BY <1>1, SameIsWeaker, WeakerExclusive
        DEF Coherent, Under, SamePrivate, NobodyElseOwns, NobodyElseHas

(* The sharing counters.                                                   *)
LEMMA JudgeCoherent ==
  ASSUME NEW fetched, Coherent(fetched.hier), NEW c \in Cpus, NEW found, NEW stale, NEW w
  PROVE  /\ Coherent(Judge(found, stale, fetched, c, w))
         /\ Judge(found, stale, fetched, c, w).cache = fetched.hier.cache
BY CountCoherent DEF Judge

(* The fill that ends a read miss.                                         *)
LEMMA ReadFillCoherent ==
  ASSUME NEW fetched, Coherent(fetched.hier), NEW c \in Cpus, NEW t \in Tags,
         fetched.data \in LineData, NobodyElseOwns(fetched.hier, c, t),
         NEW found, NEW stale, NEW w
  PROVE  Coherent(FillLine(Judge(found, stale, fetched, c, w), c, t, "S", fetched.data, LLCWrite))
<1> DEFINE judged == Judge(found, stale, fetched, c, w)
<1>1. Coherent(judged) /\ judged.cache = fetched.hier.cache
  BY JudgeCoherent
<1>2. \A d \in Siblings(c) : ~Owns(judged.cache[d][SetOf(t)], t)
  BY <1>1 DEF NobodyElseOwns
<1> HIDE DEF judged
<1>3. Coherent(FillLine(judged, c, t, "S", fetched.data, LLCWrite))
  BY <1>1, <1>2, PrivateFillCoherent
<1> QED BY <1>3 DEF judged

(* A read miss.                                                            *)
LEMMA ReadMissCoherent ==
  ASSUME NEW h, Coherent(h), NEW c \in Cpus, NEW t \in Tags, NEW w \in Words
  PROVE  Coherent(ReadMissed(h, c, t)) /\ Coherent(ReadMissOf(h, c, t, w))
<1> DEFINE missed == ReadMissed(h, c, t)
           fetched == Fetch(missed, c, t)
<1>1. Coherent(missed)
  BY AccessLook DEF ReadMissed
<1> HIDE DEF missed
<1>2. /\ Coherent(fetched.hier) /\ fetched.data \in LineData
      /\ NobodyElseOwns(fetched.hier, c, t)
  BY <1>1, FetchCoherent DEF NobodyElseOwns
<1> HIDE DEF fetched
<1>3. \A found, stale :
        Coherent(FillLine(Judge(found, stale, fetched, c, w), c, t, "S", fetched.data, LLCWrite))
  BY <1>2, ReadFillCoherent
<1> QED BY <1>1, <1>3 DEF ReadMissOf, missed, fetched

(* The data in the reply to a write's snoop.                               *)
LEMMA ReplyType ==
  ASSUME NEW h, Coherent(h), NEW c \in Cpus, NEW t \in Tags, ValidCopies(h, c, t) # {}
  PROVE  InvalidateReply(h, c, t) \in LineData
<1> DEFINE last == Max(ValidCopies(h, c, t))
<1>1. last \in ValidCopies(h, c, t) /\ last \in Caches
  BY ValidCopiesFacts
<1>2. HitsIn(h, last, t)
  BY <1>1 DEF ValidCopies
<1> QED BY <1>1, <1>2, FoundLineType DEF InvalidateReply, Line, Coherent, Good

(* The snoop of a write.                                                   *)
LEMMA WriteSnoopCoherent ==
  ASSUME NEW h, Coherent(h), NEW c \in Cpus, NEW t \in Tags
  PROVE  /\ Coherent(WriteRemoteAction(h, c, t))
         /\ NobodyElseHas(WriteRemoteAction(h, c, t), c, t)
BY WriteRemoteGood, WeakerExclusive DEF Coherent, NobodyElseHas

(* The fill that ends a write miss.                                        *)
LEMMA WriteFillCoherent ==
  ASSUME NEW h, Coherent(h), NEW c \in Cpus, NEW t \in Tags, NobodyElseHas(h, c, t),
         NEW data \in LineData, NEW w \in Words, NEW v \in Values
  PROVE  Coherent(FillLine(h, c, t, "M", [data EXCEPT ![w] = v], LLCWrite))
<1>1. [data EXCEPT ![w] = v] \in LineData
  BY WordType
<1>2. NobodyElseOwns(h, c, t)
  BY HasNotOwnsNot
<1> QED BY <1>1, <1>2, PrivateFillCoherent DEF NobodyElseOwns, NobodyElseHas

(* A write miss.                                                           *)
LEMMA WriteMissCoherent ==
  ASSUME NEW h, Coherent(h), NEW c \in Cpus, NEW t \in Tags, NEW w \in Words, NEW v \in Values
  PROVE  Coherent(WriteMissed(h, c, t)) /\ Coherent(WriteMissOf(h, c, t, w, v))
<1> DEFINE missed == WriteMissed(h, c, t)
           alone == WriteRemoteAction(missed, c, t)
           got == IF ValidCopies(missed, c, t) = {}
                  THEN LLCRead(alone, t)
                  ELSE [hier |-> alone, data |-> InvalidateReply(missed, c, t)]
<1>1. Coherent(missed)
  BY AccessLook DEF WriteMissed
<1> HIDE DEF missed
<1>2. Coherent(alone) /\ NobodyElseHas(alone, c, t)
  BY <1>1, WriteSnoopCoherent
<1> HIDE DEF alone
<1>3. Coherent(got.hier) /\ NobodyElseHas(got.hier, c, t) /\ got.data \in LineData
  <2>1. CASE ValidCopies(missed, c, t) = {}
    BY <1>2, <2>1, LLCReadUnder, UnderCoherent DEF Coherent
  <2>2. CASE ValidCopies(missed, c, t) # {}
    BY <1>1, <1>2, <2>2, ReplyType
  <2> QED BY <2>1, <2>2
<1> HIDE DEF got
<1>4. Coherent(FillLine(got.hier, c, t, "M", [got.data EXCEPT ![w] = v], LLCWrite))
  BY <1>3, WriteFillCoherent
<1> QED BY <1>1, <1>4 DEF WriteMissOf, missed, alone, got

(* The snoop of an upgrade leaves the line in front, and alone.            *)
LEMMA UpgradeSnoopCoherent ==
  ASSUME NEW h, Coherent(h), NEW c \in Cpus, NEW t \in Tags, ValidInFront(h, c, t),
         NEW w \in Words, NEW v \in Values
  PROVE  /\ Coherent(UpgradeSnooped(h, c, t, w, v))
         /\ ValidInFront(UpgradeSnooped(h, c, t, w, v), c, t)
         /\ NobodyElseHas(UpgradeSnooped(h, c, t, w, v), c, t)
<1> DEFINE remote == WriteRemoteAction(h, c, t)
           names == {"numWriteMisses", "numWriteOnSharedMisses", "numInvalidatesSent"}
                      \cup Silent(h, c, t, w, v)
           alone == Count(remote, c, names)
<1>1. Coherent(remote) /\ NobodyElseHas(remote, c, t)
  BY WriteSnoopCoherent
<1>2. RowOf(remote, c, t) = RowOf(h, c, t)
  BY WriteRemoteGood, IndexFacts DEF Coherent, RowOf
<1> HIDE DEF remote, names
<1>3. Coherent(alone) /\ alone.cache = remote.cache
  BY <1>1, CountCoherent
<1>4. RowOf(alone, c, t) = RowOf(h, c, t)
  BY <1>2, <1>3 DEF RowOf
<1>5. NobodyElseHas(alone, c, t)
  BY <1>1, <1>3 DEF NobodyElseHas
<1> HIDE DEF alone
<1>6. ValidInFront(alone, c, t)
  BY <1>4 DEF ValidInFront
<1> QED BY <1>3, <1>5, <1>6 DEF UpgradeSnooped, remote, names, alone

(* The store that follows it.                                              *)
LEMMA PutOwnedCoherent ==
  ASSUME NEW h, Coherent(h), NEW c \in Cpus, NEW t \in Tags, ValidInFront(h, c, t),
         NobodyElseHas(h, c, t), NEW w \in Words, NEW v \in Values
  PROVE  Coherent(PutOwned(h, c, t, w, v))
<1> DEFINE owned == WithRow(h, c, t, SetState(RowOf(h, c, t), "M"))
<1>1. Coherent(owned) /\ IsValid(RowOf(owned, c, t)[1])
  BY OwnCoherent DEF ValidInFront, NobodyElseHas
<1> HIDE DEF owned
<1>2. Coherent(PutWord(owned, c, t, w, v))
  BY <1>1, PutWordCoherent
<1> QED BY <1>2 DEF PutOwned, owned

(* An upgrade.                                                             *)
LEMMA WriteUpgradeCoherent ==
  ASSUME NEW h, Coherent(h), NEW c \in Cpus, NEW t \in Tags, HitsIn(h, c, t),
         NEW w \in Words, NEW v \in Values
  PROVE  /\ Coherent(Look(h, c, t)) /\ ValidInFront(Look(h, c, t), c, t)
         /\ Coherent(WriteUpgradeOf(h, c, t, w, v))
<1> DEFINE looked == Look(h, c, t)
           alone == UpgradeSnooped(looked, c, t, w, v)
<1>1. Coherent(looked) /\ ValidInFront(looked, c, t)
  BY AccessLook DEF ValidInFront
<1> HIDE DEF looked
<1>2. Coherent(alone) /\ ValidInFront(alone, c, t) /\ NobodyElseHas(alone, c, t)
  BY <1>1, UpgradeSnoopCoherent
<1> HIDE DEF alone
<1>3. Coherent(PutOwned(alone, c, t, w, v))
  BY <1>2, PutOwnedCoherent
<1> QED BY <1>1, <1>3 DEF WriteUpgradeOf, looked, alone

(* A write hit.                                                            *)
LEMMA WriteHitCoherent ==
  ASSUME NEW h, Coherent(h), NEW c \in Cpus, NEW t \in Tags, HitsIn(h, c, t),
         NEW w \in Words, NEW v \in Values
  PROVE  Coherent(WriteHitOf(h, c, t, w, v))
<1> DEFINE looked == Look(h, c, t)
           names == {"numWriteHits"} \cup Silent(looked, c, t, w, v)
           counted == Count(looked, c, names)
<1>1. /\ Coherent(counted) /\ counted.cache = looked.cache
      /\ IsValid(RowOf(looked, c, t)[1])
  <2> HIDE DEF names
  <2> QED BY AccessLook
<1>2. IsValid(RowOf(counted, c, t)[1])
  BY <1>1 DEF RowOf
<1> HIDE DEF counted
<1>3. Coherent(PutWord(counted, c, t, w, v))
  BY <1>1, <1>2, PutWordCoherent
<1> QED BY <1>3 DEF WriteHitOf, counted

(* A read hit.                                                             *)
LEMMA ReadHitCoherent ==
  ASSUME NEW h, Coherent(h), NEW c \in Cpus, NEW t \in Tags
  PROVE  Coherent(ReadHitOf(h, c, t))
BY AccessLook DEF ReadHitOf

-----------------------------------------------------------------------------
(* The theorem.                                                            *)

(* The cold hierarchy: no line is valid.                                   *)
LEMMA InitCoherent == Init => Coherent(hier)
<1> SUFFICES ASSUME Init PROVE Coherent(hier)
  OBVIOUS
<1>1. HierType(hier)
  BY InitType DEF TypeOK
<1>2. \A k \in Caches, s \in Sets : hier.cache[k][s] = [p \in 1 .. Assoc(k) |-> ColdLine]
  BY DEF Init
<1>3. ~IsValid(ColdLine) /\ ColdLine.state = "I" /\ ColdLine.islineInvalid
  BY DEF ColdLine, IsValid
<1>4. ASSUME NEW k \in Caches, NEW s \in Sets
      PROVE  /\ RowOK(hier.cache[k][s])
             /\ \A t : ~Owns(hier.cache[k][s], t)
  <2> DEFINE row == hier.cache[k][s]
  <2>0. row = [p \in 1 .. Assoc(k) |-> ColdLine]
    BY <1>2
  <2> HIDE DEF row
  <2>1. DOMAIN row = 1 .. Assoc(k) /\ \A p \in 1 .. Assoc(k) : row[p] = ColdLine
    BY <2>0
  <2>2. Flagged(row) /\ Single(row)
    BY <1>3, <2>1 DEF Flagged, Single
  <2>3. \A t : ~Owns(row, t)
    BY <1>3, <2>1 DEF Owns
  <2> QED BY <2>2, <2>3 DEF RowOK, row
<1>5. Exclusive(hier)
  BY <1>4, CacheFacts DEF Exclusive
<1> QED BY <1>1, <1>4, <1>5 DEF Coherent, Good

(* Every access keeps the hierarchy coherent.                              *)
LEMMA NextCoherent == Coherent(hier) /\ [Next]_hier => Coherent(hier)'
<1> SUFFICES ASSUME Coherent(hier), [Next]_hier PROVE Coherent(hier')
  BY DEF Coherent, Good, Exclusive, HierType
<1>0. \A l \in Lines : CalcTag(l) \in Tags
  BY IndexFacts
<1>1. ASSUME NEW c \in Cpus, NEW l \in Lines, ReadHit(c, l)
      PROVE  Coherent(hier')
  BY <1>0, <1>1, ReadHitCoherent DEF ReadHit
<1>2. ASSUME NEW c \in Cpus, NEW l \in Lines, NEW w \in Words, ReadMiss(c, l, w)
      PROVE  Coherent(hier')
  BY <1>0, <1>2, ReadMissCoherent DEF ReadMiss
<1>3. ASSUME NEW c \in Cpus, NEW l \in Lines, NEW w \in Words, NEW v \in Values,
             WriteMiss(c, l, w, v)
      PROVE  Coherent(hier')
  BY <1>0, <1>3, WriteMissCoherent DEF WriteMiss
<1>4. ASSUME NEW c \in Cpus, NEW l \in Lines, NEW w \in Words, NEW v \in Values,
             WriteUpgrade(c, l, w, v)
      PROVE  Coherent(hier')
  BY <1>0, <1>4, WriteUpgradeCoherent DEF WriteUpgrade
<1>5. ASSUME NEW c \in Cpus, NEW l \in Lines, NEW w \in Words, NEW v \in Values,
             WriteHit(c, l, w, v)
      PROVE  Coherent(hier')
  BY <1>0, <1>5, WriteHitCoherent DEF WriteHit
<1>6. CASE UNCHANGED hier
  BY <1>6
<1> QED BY <1>1, <1>2, <1>3, <1>4, <1>5, <1>6 DEF Next

(* The invariant contains the three properties that the runs check.        *)
LEMMA CoherentImplies ==
  Coherent(hier) => FlagsAgree /\ OneLiveCopyPerCache /\ SingleWriter
<1> SUFFICES ASSUME Coherent(hier) PROVE FlagsAgree /\ OneLiveCopyPerCache /\ SingleWriter
  OBVIOUS
<1>1. \A k \in Caches, s \in Sets : /\ DOMAIN hier.cache[k][s] = 1 .. Assoc(k)
                                    /\ RowOK(hier.cache[k][s])
  BY DEF Coherent, Good, HierType, Row
<1>2. FlagsAgree
  BY <1>1 DEF FlagsAgree, RowOK, Flagged
<1>3. OneLiveCopyPerCache
  BY <1>1 DEF OneLiveCopyPerCache, RowOK, Single
<1>4. SingleWriter
  <2> SUFFICES ASSUME NEW c \in Cpus, NEW d \in Cpus, NEW s \in Sets,
                      NEW p \in 1 .. PrivateAssoc, NEW q \in 1 .. PrivateAssoc,
                      c # d, hier.cache[c][s][p].state = "M",
                      hier.cache[c][s][p].tag = hier.cache[d][s][q].tag
               PROVE  ~IsValid(hier.cache[d][s][q])
    BY DEF SingleWriter
  <2>1. DOMAIN hier.cache[c][s] = 1 .. PrivateAssoc /\ DOMAIN hier.cache[d][s] = 1 .. PrivateAssoc
    BY <1>1, CacheFacts
  <2>2. Owns(hier.cache[c][s], hier.cache[c][s][p].tag)
    BY <2>1 DEF Owns
  <2>3. ~Has(hier.cache[d][s], hier.cache[c][s][p].tag)
    BY <2>2 DEF Coherent, Exclusive
  <2> QED BY <2>1, <2>3 DEF Has
<1> QED BY <1>2, <1>3, <1>4

(* The two liveness flags never disagree, at any level.                    *)
THEOREM FlagsAlwaysAgree == Spec => []FlagsAgree
<1>1. Init => Coherent(hier)
  BY InitCoherent
<1>2. Coherent(hier) /\ [Next]_hier => Coherent(hier)'
  BY NextCoherent
<1>3. Coherent(hier) => FlagsAgree
  BY CoherentImplies
<1> QED BY <1>1, <1>2, <1>3, PTL DEF Spec

(* No cache ever holds two live copies of a line.                          *)
THEOREM OneCopy == Spec => []OneLiveCopyPerCache
<1>1. Init => Coherent(hier)
  BY InitCoherent
<1>2. Coherent(hier) /\ [Next]_hier => Coherent(hier)'
  BY NextCoherent
<1>3. Coherent(hier) => OneLiveCopyPerCache
  BY CoherentImplies
<1> QED BY <1>1, <1>2, <1>3, PTL DEF Spec

(* A line modified in one private cache is never valid in another, for any *)
(* number of CPUs.                                                         *)
THEOREM OneWriter == Spec => []SingleWriter
<1>1. Init => Coherent(hier)
  BY InitCoherent
<1>2. Coherent(hier) /\ [Next]_hier => Coherent(hier)'
  BY NextCoherent
<1>3. Coherent(hier) => SingleWriter
  BY CoherentImplies
<1> QED BY <1>1, <1>2, <1>3, PTL DEF Spec
=============================================================================
