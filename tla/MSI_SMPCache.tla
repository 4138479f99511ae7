---------------------------- MODULE MSI_SMPCache ----------------------------
(***************************************************************************)
(* The MSI protocol of MSI_SMPCache.cpp over the hierarchy that            *)
(* MultiCacheSim builds: NumCaches private caches that snoop one another,  *)
(* below them the last-level cache, below that the cache that stands for   *)
(* main memory.                                                            *)
(*                                                                         *)
(* MultiCacheSim holds its lock around each access, so an access is one    *)
(* step, with every snoop, fill and write-back it causes.                  *)
(*                                                                         *)
(* The code is written once for the three levels; so are the operators     *)
(* here, which take the parent's methods as parameters.                    *)
(***************************************************************************)
EXTENDS CacheCore

CONSTANTS
  NumCaches,                              \* private caches
  PrivateAssoc, LLCAssoc, MainAssoc,      \* ways of each level
  Lines,                                  \* line numbers the program uses
  Counting,                               \* keep the statistics?
  MaxAccesses                             \* accesses explored when it does

ASSUME HierarchyAssumption ==
  /\ NumCaches \in 2 .. 16
  /\ PrivateAssoc \in Nat \ {0} /\ LLCAssoc \in Nat \ {0} /\ MainAssoc \in Nat \ {0}
  /\ Lines \subseteq Nat
  /\ Counting \in BOOLEAN
  /\ MaxAccesses \in Nat

VARIABLE hier  \* .cache: the rows of every cache; .stats: its counters

Cpus == 0 .. NumCaches - 1
LLC == 16
Main == 17
Caches == Cpus \cup {LLC, Main}

Assoc(k) == CASE k \in Cpus -> PrivateAssoc [] k = LLC -> LLCAssoc [] k = Main -> MainAssoc

Counters ==
  {"numReadHits", "numReadMisses", "numReadOnInvalidMisses", "numReadRequestsSent",
   "numReadMissesServicedByOthers", "numReadMissesServicedByShared",
   "numReadMissesServicedByModified", "numWriteHits", "numWriteMisses",
   "numWriteOnSharedMisses", "numWriteOnInvalidMisses", "numInvalidatesSent",
   "numFalseSharing", "numTrueSharing", "numCorrectSpeculations",
   "numIncorrectSpeculations", "numSilentStores", "numReplacements",
   "numWritebacksReceived"}

-----------------------------------------------------------------------------
(* The row of cache k that tag t belongs to, updates of it, and counters.  *)

RowOf(h, k, t) == h.cache[k][SetOf(t)]
WithRow(h, k, t, row) == [h EXCEPT !.cache[k][SetOf(t)] = row]
Look(h, k, t) == WithRow(h, k, t, FindLine(RowOf(h, k, t), t))
HitsIn(h, k, t) == Hits(RowOf(h, k, t), t)

(* The state probe of the container, which takes no lock: its lookup.      *)
getStateAsInt(h, k, t) == Look(h, k, t)

(* The line in front of the row: after Look, the one that was found.       *)
FrontData(h, k, t) == RowOf(h, k, t)[1].data

Count(h, k, names) ==
  IF Counting
  THEN [h EXCEPT !.stats[k] = [n \in Counters |-> IF n \in names THEN @[n] + 1 ELSE @[n]]]
  ELSE h

-----------------------------------------------------------------------------
(* fillLine, readLine and writeLine of any cache.  ParentRead(h, t) and    *)
(* ParentWrite(h, t, data) are the parent's readLine and writeLine;        *)
(* readLine yields the hierarchy and the line's data.                      *)

(* Variants of Evicts: only a modified victim goes to the parent; the LLC  *)
(* drops its victims.                                                      *)
EvictsDirtyOnly(h, k, t) == Victim(RowOf(h, k, t), t).state = "M" /\ k # Main
EvictsUnlessLLC(h, k, t) == ~Victim(RowOf(h, k, t), t).islineInvalid /\ k \notin {LLC, Main}

(* A live victim goes to the parent, modified or not.                      *)
Evicts(h, k, t) == ~Victim(RowOf(h, k, t), t).islineInvalid /\ k # Main

FillLine(h, k, t, s, data, ParentWrite(_, _, _)) ==
  LET victim == Victim(RowOf(h, k, t), t)
      pushed == IF Evicts(h, k, t)
                THEN Count(ParentWrite(h, victim.tag, victim.data), k, {"numReplacements"})
                ELSE h
  IN  WithRow(pushed, k, t, Install(RowOf(h, k, t), t, s, data))

(* Variant of Received: the write-backs that miss are not counted.         *)
ReceivedIfHit(h, k, t) ==
  IF HitsIn(h, k, t) THEN Count(Look(h, k, t), k, {"numWritebacksReceived"}) ELSE Look(h, k, t)

(* A write-back reaches cache k: it is counted and looked up.              *)
Received(h, k, t) == Count(Look(h, k, t), k, {"numWritebacksReceived"})

WriteLine(h, k, t, data, ParentWrite(_, _, _)) ==
  LET looked == Received(h, k, t)
  IN  IF HitsIn(h, k, t)
      THEN Count(WithRow(looked, k, t, SetData(RowOf(looked, k, t), data)),
                 k, {"numWriteHits"})
      ELSE FillLine(looked, k, t, "M", data, ParentWrite)

(* Only the private caches have siblings, and their readLine is never      *)
(* called: the snoop of a lower level finds nobody.                        *)
ReadLine(h, k, t, ParentRead(_, _), ParentWrite(_, _, _)) ==
  LET looked == Look(h, k, t)
      below == ParentRead(Count(looked, k, {"numReadMisses", "numReadRequestsSent"}), t)
  IN  IF HitsIn(h, k, t)
      THEN [hier |-> Count(looked, k, {"numReadHits"}), data |-> FrontData(looked, k, t)]
      ELSE [hier |-> FillLine(below.hier, k, t, "S", below.data, ParentWrite),
            data |-> below.data]

(* Below main memory there is nothing: its evictions are lost and its      *)
(* misses yield the data of a fresh linedata_t.                            *)
NoWrite(h, t, data) == h

(* Variant of NoRead: a fresh line is zeroed.                              *)
NoReadZero(h, t) == [hier |-> h, data |-> [w \in Words |-> 0]]

NoRead(h, t) == [hier |-> h, data |-> NaNLine]

MainWrite(h, t, data) == WriteLine(h, Main, t, data, NoWrite)
MainRead(h, t) == ReadLine(h, Main, t, NoRead, NoWrite)
LLCWrite(h, t, data) == WriteLine(h, LLC, t, data, MainWrite)
LLCRead(h, t) == ReadLine(h, LLC, t, MainRead, MainWrite)

-----------------------------------------------------------------------------
(* Snooping.                                                               *)

Siblings(c) == Cpus \ {c}
ValidCopies(h, c, t) == {o \in Siblings(c) : HitsIn(h, o, t)}

(* A read asks the siblings in order and stops at the first that has a     *)
(* valid copy; that one provides the data and, if modified, becomes shared.*)
Provider(h, c, t) == Min(ValidCopies(h, c, t))
AskedOnRead(h, c, t) ==
  LET copies == ValidCopies(h, c, t)
  IN  IF copies = {} THEN Siblings(c) ELSE {o \in Siblings(c) : o <= Min(copies)}

ReadRemoteAction(h, c, t) ==
  LET asked == AskedOnRead(h, c, t)
      answer(row) == IF Hits(row, t) THEN SetState(FindLine(row, t), "S") ELSE FindLine(row, t)
  IN  [h EXCEPT !.cache =
         [k \in Caches |-> IF k \in asked
                           THEN [h.cache[k] EXCEPT ![SetOf(t)] = answer(RowOf(h, k, t))]
                           ELSE h.cache[k]]]

ProvidedShared(h, c, t) ==
  LET row == RowOf(h, Provider(h, c, t), t) IN row[FindPos(row, t)].state = "S"

(* Variant of WriteRemoteAction: it stops, like a read, at the first valid *)
(* copy.                                                                   *)
WriteRemoteFirst(h, c, t) ==
  LET asked == AskedOnRead(h, c, t)
      answer(row) == IF Hits(row, t) THEN Invalidate(FindLine(row, t)) ELSE FindLine(row, t)
  IN  [h EXCEPT !.cache =
         [k \in Caches |-> IF k \in asked
                           THEN [h.cache[k] EXCEPT ![SetOf(t)] = answer(RowOf(h, k, t))]
                           ELSE h.cache[k]]]

(* A write asks all of them and invalidates every valid copy; the reply    *)
(* carries the data of the last.                                           *)
WriteRemoteAction(h, c, t) ==
  LET answer(row) == IF Hits(row, t) THEN Invalidate(FindLine(row, t)) ELSE FindLine(row, t)
  IN  [h EXCEPT !.cache =
         [k \in Caches |-> IF k \in Siblings(c)
                           THEN [h.cache[k] EXCEPT ![SetOf(t)] = answer(RowOf(h, k, t))]
                           ELSE h.cache[k]]]

InvalidateReply(h, c, t) ==
  LET last == RowOf(h, Max(ValidCopies(h, c, t)), t) IN last[FindPos(last, t)].data

-----------------------------------------------------------------------------
(* readWord of private cache c.                                            *)

ReadHitOf(h, c, t) == Count(Look(h, c, t), c, {"numReadHits"})

(* Variants of Fetch: the siblings' answer is ignored; the LLC is asked    *)
(* although a sibling answered.                                            *)
FetchFromLLC(h, c, t) == LLCRead(ReadRemoteAction(h, c, t), t)
FetchBoth(h, c, t) ==
  LET asked == ReadRemoteAction(h, c, t)
      below == LLCRead(asked, t)
  IN  IF ValidCopies(h, c, t) = {} THEN below
      ELSE [hier |-> Count(below.hier, c, {"numReadMissesServicedByOthers"}),
            data |-> FrontData(asked, Provider(h, c, t), t)]

(* What a read miss fetches: from a sibling, or else from the LLC.         *)
Fetch(h, c, t) ==
  IF ValidCopies(h, c, t) # {}
  THEN LET p == Provider(h, c, t)
           asked == ReadRemoteAction(h, c, t)
           kind == IF ProvidedShared(h, c, t) THEN "numReadMissesServicedByShared"
                                              ELSE "numReadMissesServicedByModified"
       IN  [hier |-> Count(asked, c, {"numReadMissesServicedByOthers", kind}),
            data |-> FrontData(asked, p, t)]
  ELSE LLCRead(ReadRemoteAction(h, c, t), t)

(* Variant of OnInvalid: every miss counts.                                *)
OnAnyMiss(row, t, name) == {name}

(* A miss on a line whose tag matched but was invalid has a counter.       *)
OnInvalid(row, t, name) == IF Found(row, t) THEN {name} ELSE {}

(* A line whose tag matched but was invalid still holds its old data; the  *)
(* sharing counters compare the word asked for with the fetched one.       *)
SharingCounters(old, new) ==
  IF old = new THEN {"numFalseSharing", "numCorrectSpeculations"}
               ELSE {"numTrueSharing", "numIncorrectSpeculations"}

(* readWord up to its snoop, and what it counts once it has the line.      *)
ReadMissed(h, c, t) ==
  Count(Look(h, c, t), c,
        {"numReadMisses", "numReadRequestsSent"}
          \cup OnInvalid(RowOf(h, c, t), t, "numReadOnInvalidMisses"))

Judge(found, stale, fetched, c, w) ==
  IF found THEN Count(fetched.hier, c, SharingCounters(stale[w], fetched.data[w]))
           ELSE fetched.hier

ReadMissOf(h, c, t, w) ==
  LET missed == ReadMissed(h, c, t)
      fetched == Fetch(missed, c, t)
      judged == Judge(Found(RowOf(h, c, t), t), FrontData(missed, c, t), fetched, c, w)
  IN  FillLine(judged, c, t, "S", fetched.data, LLCWrite)

(* The pointer st that readWord took at its first lookup, as the place of  *)
(* the line in its row: the place in front, or NULL.  The fill moves a     *)
(* line that it does not choose as its victim to the second place.         *)
NULLst == 0
Pointer(row, t) == IF Found(row, t) THEN 1 ELSE NULLst
PointerAfterFill(st, row, t) == IF st # NULLst /\ ReplacePos(row, t) # 1 THEN 2 ELSE st

(* The word readWord returns, through st if it is set, although the line   *)
(* was invalid then; otherwise through a second lookup.                    *)
WordAt(st, row, t, w) == IF st = NULLst THEN FindLine(row, t)[1].data[w] ELSE row[st].data[w]

ReadValue(h, c, t, w) ==
  LET looked == RowOf(Look(h, c, t), c, t)
      st == Pointer(RowOf(h, c, t), t)
  IN  IF HitsIn(h, c, t)
      THEN WordAt(st, looked, t, w)
      ELSE WordAt(PointerAfterFill(st, looked, t), RowOf(ReadMissOf(h, c, t, w), c, t), t, w)

-----------------------------------------------------------------------------
(* writeWord of private cache c.                                           *)

WriteMissed(h, c, t) ==
  Count(Look(h, c, t), c,
        {"numWriteMisses", "numInvalidatesSent"}
          \cup OnInvalid(RowOf(h, c, t), t, "numWriteOnInvalidMisses"))

WriteMissOf(h, c, t, w, v) ==
  LET missed == WriteMissed(h, c, t)
      alone == WriteRemoteAction(missed, c, t)
      got == IF ValidCopies(missed, c, t) = {}
             THEN LLCRead(alone, t)
             ELSE [hier |-> alone, data |-> InvalidateReply(missed, c, t)]
  IN  FillLine(got.hier, c, t, "M", [got.data EXCEPT ![w] = v], LLCWrite)

Silent(h, c, t, w, v) == IF FrontData(h, c, t)[w] = v THEN {"numSilentStores"} ELSE {}

PutWord(h, c, t, w, v) ==
  LET row == RowOf(h, c, t)
  IN  WithRow(h, c, t, SetData(row, [row[1].data EXCEPT ![w] = v]))

(* The snoop of an upgrade, and the store that follows it.                 *)
UpgradeSnooped(h, c, t, w, v) ==
  Count(WriteRemoteAction(h, c, t), c,
        {"numWriteMisses", "numWriteOnSharedMisses", "numInvalidatesSent"}
          \cup Silent(h, c, t, w, v))

PutOwned(h, c, t, w, v) ==
  PutWord(WithRow(h, c, t, SetState(RowOf(h, c, t), "M")), c, t, w, v)

(* Variant of WriteUpgradeOf: the other sharers are not told.              *)
WriteUpgradeQuiet(h, c, t, w, v) == PutOwned(Look(h, c, t), c, t, w, v)

WriteUpgradeOf(h, c, t, w, v) ==
  PutOwned(UpgradeSnooped(Look(h, c, t), c, t, w, v), c, t, w, v)

(* Variant of WriteHitOf: the hit is counted and nothing stored.           *)
WriteHitUnstored(h, c, t, w, v) == Count(Look(h, c, t), c, {"numWriteHits"})

WriteHitOf(h, c, t, w, v) ==
  LET looked == Look(h, c, t)
  IN  PutWord(Count(looked, c, {"numWriteHits"} \cup Silent(looked, c, t, w, v)), c, t, w, v)

StateOf(h, c, t) == LET row == RowOf(h, c, t) IN row[FindPos(row, t)].state

-----------------------------------------------------------------------------
(* The state machine.                                                      *)

Init ==
  hier = [cache |-> [k \in Caches |-> [s \in Sets |-> [p \in 1 .. Assoc(k) |-> ColdLine]]],
          stats |-> [k \in Caches |-> [n \in Counters |-> 0]]]

Accesses(h, c) ==
  h.stats[c]["numReadHits"] + h.stats[c]["numReadMisses"]
    + h.stats[c]["numWriteHits"] + h.stats[c]["numWriteMisses"]

InBounds == Counting => MapThenSumSet(LAMBDA c : Accesses(hier, c), Cpus) < MaxAccesses

ReadHit(c, l) ==
  /\ InBounds
  /\ HitsIn(hier, c, CalcTag(l))
  /\ hier' = ReadHitOf(hier, c, CalcTag(l))

ReadMiss(c, l, w) ==
  /\ InBounds
  /\ ~HitsIn(hier, c, CalcTag(l))
  /\ hier' = ReadMissOf(hier, c, CalcTag(l), w)

WriteMiss(c, l, w, v) ==
  /\ InBounds
  /\ ~HitsIn(hier, c, CalcTag(l))
  /\ hier' = WriteMissOf(hier, c, CalcTag(l), w, v)

WriteUpgrade(c, l, w, v) ==
  /\ InBounds
  /\ HitsIn(hier, c, CalcTag(l)) /\ StateOf(hier, c, CalcTag(l)) = "S"
  /\ hier' = WriteUpgradeOf(hier, c, CalcTag(l), w, v)

WriteHit(c, l, w, v) ==
  /\ InBounds
  /\ HitsIn(hier, c, CalcTag(l)) /\ StateOf(hier, c, CalcTag(l)) # "S"
  /\ hier' = WriteHitOf(hier, c, CalcTag(l), w, v)

Next ==
  \E c \in Cpus, l \in Lines :
    \/ ReadHit(c, l)
    \/ \E w \in Words : ReadMiss(c, l, w)
    \/ \E w \in Words, v \in Values :
         WriteMiss(c, l, w, v) \/ WriteUpgrade(c, l, w, v) \/ WriteHit(c, l, w, v)

Spec == Init /\ [][Next]_hier
=============================================================================
