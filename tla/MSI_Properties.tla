--------------------------- MODULE MSI_Properties ---------------------------
(***************************************************************************)
(* What makes the hierarchy of MSI_SMPCache correct: its invariants, what  *)
(* an access may never do, its accounting, and the memory it implements.   *)
(***************************************************************************)
EXTENDS MSI_SMPCache, Functions

-----------------------------------------------------------------------------
(* Invariants.                                                             *)

(* Type invariant: every row of every cache has the ways of its level and  *)
(* every counter is a natural number.                                      *)
AnyRow == UNION {Row(Assoc(k)) : k \in Caches}
HierType(h) ==
  /\ h \in [cache : [Caches -> [Sets -> AnyRow]], stats : [Caches -> [Counters -> Nat]]]
  /\ \A k \in Caches, s \in Sets : h.cache[k][s] \in Row(Assoc(k))
TypeOK == HierType(hier)

(* The two liveness flags of a line agree in every cache.  findLine and    *)
(* fillLine test islineInvalid, the protocol tests state, and different    *)
(* statements write them (setData, changeStateTo, invalidate).             *)
FlagsAgree ==
  \A k \in Caches, s \in Sets : \A p \in 1 .. Assoc(k) :
    LET line == hier.cache[k][s][p] IN line.islineInvalid <=> line.state = "I"

(* No cache holds two live copies of a line, whatever its lookups and      *)
(* fills did to the order of the row: a second one would be stale.         *)
OneLiveCopyPerCache ==
  \A k \in Caches, s \in Sets : \A p, q \in 1 .. Assoc(k) :
    LET row == hier.cache[k][s]
    IN  (p # q /\ row[p].tag = row[q].tag) => ~(IsValid(row[p]) /\ IsValid(row[q]))

(* A line modified in one private cache is valid in no other: the snoops   *)
(* of readRemoteAction and writeRemoteAction reach every copy they must.   *)
SingleWriter ==
  \A c, d \in Cpus, s \in Sets : \A p, q \in 1 .. PrivateAssoc :
    LET mine == hier.cache[c][s][p]
        other == hier.cache[d][s][q]
    IN  (c # d /\ mine.state = "M" /\ mine.tag = other.tag) => ~IsValid(other)

(* All valid private copies of a line hold the same data, so it does not   *)
(* matter that a reader takes the first and a writer the last of them.     *)
CopiesAgree ==
  \A c, d \in Cpus, s \in Sets : \A p, q \in 1 .. PrivateAssoc :
    LET mine == hier.cache[c][s][p]
        other == hier.cache[d][s][q]
    IN  (IsValid(mine) /\ IsValid(other) /\ mine.tag = other.tag) => mine.data = other.data

(* The content of a line: what a private copy says, or else the LLC, or    *)
(* else main memory; nothing if no level has it.                           *)
CopiesIn(h, k, t) == {line \in Range(RowOf(h, k, t)) : line.tag = t /\ IsValid(line)}
MemoryOf(h, t) ==
  LET DataOf(copies) == (CHOOSE line \in copies : TRUE).data
      private == UNION {CopiesIn(h, c, t) : c \in Cpus}
  IN  IF private # {} THEN DataOf(private)
      ELSE IF CopiesIn(h, LLC, t) # {} THEN DataOf(CopiesIn(h, LLC, t))
      ELSE IF CopiesIn(h, Main, t) # {} THEN DataOf(CopiesIn(h, Main, t))
      ELSE NaNLine
MemoryData(t) == MemoryOf(hier, t)

(* Whatever CPU reads whatever word next, readWord returns the content of  *)
(* memory: neither a stale copy nor, after a miss on a matching invalid    *)
(* line, a word seen through the pointer taken before the fill.            *)
ReadsReturnMemory ==
  \A c \in Cpus, l \in Lines, w \in Words :
    ReadValue(hier, c, CalcTag(l), w) = MemoryData(CalcTag(l))[w]

-----------------------------------------------------------------------------
(* Action properties.                                                      *)

(* A CPU loses a valid line only to another CPU that now holds it modified,*)
(* or because it was the oldest of a row in which every line was live.     *)
CacheHas(c, s, t) == \E p \in 1 .. PrivateAssoc :
  hier.cache[c][s][p].tag = t /\ IsValid(hier.cache[c][s][p])
WrittenElsewhere(c, s, t) == \E d \in Siblings(c) : \E p \in 1 .. PrivateAssoc :
  hier.cache[d][s][p].tag = t /\ hier.cache[d][s][p].state = "M"
OldestOfFullRow(c, s, t) ==
  /\ \A p \in 1 .. PrivateAssoc : IsValid(hier.cache[c][s][p])
  /\ hier.cache[c][s][PrivateAssoc].tag = t
LosesOnlyOldestOrInvalidated ==
  [][\A c \in Cpus, s \in Sets, t \in Tags :
       (CacheHas(c, s, t) /\ ~CacheHas(c, s, t)')
         => WrittenElsewhere(c, s, t)' \/ OldestOfFullRow(c, s, t)]_hier

(* The program's data disappears from the hierarchy only by falling out of *)
(* main memory, whose set is then full of other live lines; no level drops *)
(* a line on the way or falls back on an older copy below.                 *)
ForgetsOnlyWhenMainFull ==
  [][\A t \in Tags :
       (MemoryData(t) # NaNLine /\ MemoryData(t)' = NaNLine)
         => /\ CopiesIn(hier, Main, t)' = {}
            /\ \A p \in 1 .. MainAssoc : IsValid(hier.cache[Main][SetOf(t)][p])']_hier

-----------------------------------------------------------------------------
(* Accounting.                                                             *)

Total(n) == MapThenSumSet(LAMBDA c : hier.stats[c][n], Cpus)

(* Every write-back a level sends arrives at the next one, through both    *)
(* paths that cause one (a fill after a read, a fill after a write-back).  *)
WritebacksArrive ==
  /\ Total("numReplacements") = hier.stats[LLC]["numWritebacksReceived"]
  /\ hier.stats[LLC]["numReplacements"] = hier.stats[Main]["numWritebacksReceived"]
  /\ hier.stats[Main]["numReplacements"] = 0

(* A line read reaches the next level exactly for the misses that nobody   *)
(* nearer served: all of the LLC's read misses, and no more of the CPUs'   *)
(* than their misses outside the upgrades and the snooped reads.           *)
ReadsAt(k) == hier.stats[k]["numReadHits"] + hier.stats[k]["numReadMisses"]
MissesGoBelow ==
  /\ ReadsAt(Main) = hier.stats[LLC]["numReadMisses"]
  /\ ReadsAt(LLC) >= Total("numReadMisses") - Total("numReadMissesServicedByOthers")
  /\ ReadsAt(LLC) <= Total("numReadMisses") - Total("numReadMissesServicedByOthers")
                       + Total("numWriteMisses") - Total("numWriteOnSharedMisses")

(* A miss is charged to an invalidated copy, as a sharing miss, only if a  *)
(* write of another CPU invalidated one: each invalidation leaves at most  *)
(* one such copy in each sibling, and the miss refills it.                 *)
MissesOnInvalidAreCaused ==
  Total("numReadOnInvalidMisses") + Total("numWriteOnInvalidMisses")
    <= (NumCaches - 1) * Total("numInvalidatesSent")

-----------------------------------------------------------------------------
(* The hierarchy implements one coherent memory.                           *)

(* The lines that main memory has no copy of and no place for: their rows  *)
(* there are full of other live lines.                                     *)
Overflowed(h) ==
  {l \in Lines : /\ CopiesIn(h, Main, CalcTag(l)) = {}
                 /\ \A p \in 1 .. MainAssoc : IsValid(RowOf(h, Main, CalcTag(l))[p])}

Memories(h) == [l \in Lines |-> MemoryOf(h, CalcTag(l))]
Memory == INSTANCE CoherentMemory WITH mem <- Memories(hier)

(* What an access does to the hierarchy, by the branch it takes.           *)
ReadOf(h, c, t, w) == IF HitsIn(h, c, t) THEN ReadHitOf(h, c, t) ELSE ReadMissOf(h, c, t, w)
WriteOf(h, c, t, w, v) ==
  CASE ~HitsIn(h, c, t) -> WriteMissOf(h, c, t, w, v)
    [] HitsIn(h, c, t) /\ StateOf(h, c, t) = "S" -> WriteUpgradeOf(h, c, t, w, v)
    [] HitsIn(h, c, t) /\ StateOf(h, c, t) # "S" -> WriteHitOf(h, c, t, w, v)

(* Right after an access, whatever it was and did to the rows, a probe by  *)
(* getStateAsInt of the same CPU and line, which takes no lock and follows *)
(* the pointer it gets untested, finds a valid line and moves none, so that*)
(* it neither fails nor changes what the row evicts next.                  *)
Harmless(after, c, t) ==
  HitsIn(after, c, t) /\ RowOf(getStateAsInt(after, c, t), c, t) = RowOf(after, c, t)
ProbeAfterAccess ==
  \A c \in Cpus, l \in Lines, w \in Words :
    LET t == CalcTag(l)
    IN  /\ Harmless(ReadOf(hier, c, t, w), c, t)
        /\ \A v \in Values : Harmless(WriteOf(hier, c, t, w, v), c, t)

(* The three levels are one memory, whatever access comes next: readWord   *)
(* of any CPU returns the word that memory has where it reads and changes  *)
(* the content of no line, writeWord puts its value into its word, also if *)
(* it hits, and changes no other; and only a line that main memory has no  *)
(* place for is forgotten meanwhile.                                       *)
ReadsAsMemory(c, l, w) ==
  LET after == ReadOf(hier, c, CalcTag(l), w)
  IN  Memory!ReadStep(Memories(hier), Memories(after), l, w,
                      ReadValue(hier, c, CalcTag(l), w), Overflowed(after))
WritesAsMemory(c, l, w, v) ==
  LET after == WriteOf(hier, c, CalcTag(l), w, v)
  IN  Memory!WriteStep(Memories(hier), Memories(after), l, w, v, Overflowed(after))
ImplementsMemory ==
  \A c \in Cpus, l \in Lines, w \in Words :
    ReadsAsMemory(c, l, w) /\ \A v \in Values : WritesAsMemory(c, l, w, v)
=============================================================================
