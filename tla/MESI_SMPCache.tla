---------------------------- MODULE MESI_SMPCache ----------------------------
(***************************************************************************)
(* The MESI protocol of MESI_SMPCache.cpp, the reference that the tool     *)
(* names for its state comparison: private caches that snoop one another,  *)
(* with no data, no write-backs and nothing below them.                    *)
(*                                                                         *)
(* It uses the tag store of MSI_SMPCache, but never stores data in a line, *)
(* so that islineInvalid, which only setData clears, is set for ever: no   *)
(* lookup finds a live line, and none is ever preferred to a dead one.     *)
(* The counters are left out.                                              *)
(***************************************************************************)
EXTENDS CacheCore

CONSTANTS
  NumCaches,     \* private caches
  PrivateAssoc,  \* their ways
  Lines          \* line numbers the program uses

ASSUME MESIAssumption ==
  /\ NumCaches \in Nat \ {0} /\ PrivateAssoc \in Nat \ {0}
  /\ Lines \subseteq Nat
  /\ Words = {}

VARIABLE caches  \* the rows of each cache

Cpus == 0 .. NumCaches - 1
Siblings(c) == Cpus \ {c}

MESIStates == {"M", "E", "S", "I"}
MESIRow == [1 .. PrivateAssoc ->
              [tag : Tags, state : MESIStates, islineInvalid : {TRUE}, data : LineData]]

RowOf(h, c, t) == h[c][SetOf(t)]
WithRow(h, c, t, row) == [h EXCEPT ![c][SetOf(t)] = row]
Look(h, c, t) == WithRow(h, c, t, FindLine(RowOf(h, c, t), t))
HitsIn(h, c, t) == Hits(RowOf(h, c, t), t)
StateIn(h, c, t) == RowOf(h, c, t)[FindPos(RowOf(h, c, t), t)].state

(* Variant of FillLine: it stores data as the MSI caches do, which makes   *)
(* the line live.                                                          *)
FillLineLive(h, c, t, s) == WithRow(h, c, t, Install(RowOf(h, c, t), t, s, NaNLine))

(* fillLine: setTag and changeStateTo on the line to replace.              *)
FillLine(h, c, t, s) ==
  LET row == RowOf(h, c, t)
  IN  WithRow(h, c, t,
        [FindLine2Replace(row, t) EXCEPT ![SlotPos(row, t)] = [@ EXCEPT !.tag = t, !.state = s]])

(* The siblings' rows after a snoop by c for t that changes the hits of    *)
(* those asked; a lookup reorders the rows of all of them.                 *)
Snooped(h, c, t, asked, Answer(_)) ==
  [k \in Cpus |-> IF k \in asked
                  THEN LET row == RowOf(h, k, t)
                       IN  WithRow(h, k, t, IF Hits(row, t) THEN Answer(FindLine(row, t))
                                                             ELSE FindLine(row, t))[k]
                  ELSE h[k]]

-----------------------------------------------------------------------------
(* readLine.                                                               *)

ValidCopies(h, c, t) == {o \in Siblings(c) : HitsIn(h, o, t)}
Asked(h, c, t) ==
  LET copies == ValidCopies(h, c, t)
  IN  IF copies = {} THEN Siblings(c) ELSE {o \in Siblings(c) : o <= Min(copies)}

(* Variant of ReadRemoteAction: only a modified copy is made shared.       *)
ReadRemoteKeepsE(h, c, t) ==
  LET Answer(row) == IF row[1].state = "M" THEN SetState(row, "S") ELSE row
  IN  Snooped(h, c, t, Asked(h, c, t), Answer)

(* The first sibling with a modified, exclusive or shared copy provides it *)
(* and has it shared from now on; the search ends there.                   *)
ReadRemoteAction(h, c, t) ==
  LET Answer(row) == SetState(row, "S") IN Snooped(h, c, t, Asked(h, c, t), Answer)

ProvidedData(h, c, t) == ValidCopies(h, c, t) # {}

(* Variant of FillState: every newcomer owns the line.                     *)
FillStateAlways(provided) == "E"

FillState(provided) == IF provided THEN "S" ELSE "E"

ReadMissOf(h, c, t) ==
  LET looked == Look(h, c, t)
  IN  FillLine(ReadRemoteAction(looked, c, t), c, t, FillState(ProvidedData(looked, c, t)))

-----------------------------------------------------------------------------
(* writeLine.                                                              *)

(* Every valid copy of the siblings is invalidated.                        *)
WriteRemoteAction(h, c, t) == Snooped(h, c, t, Siblings(c), Invalidate)

WriteMissOf(h, c, t) == FillLine(WriteRemoteAction(Look(h, c, t), c, t), c, t, "M")

Owned(h, c, t) == WithRow(h, c, t, SetState(RowOf(h, c, t), "M"))

(* Variant of WriteCoherenceMissOf: a shared copy is written without a     *)
(* word to the others, as an exclusive one could be.                       *)
WriteQuietly(h, c, t) == Owned(Look(h, c, t), c, t)

(* A shared copy, and here an exclusive one too, is upgraded through a     *)
(* snoop.                                                                  *)
WriteCoherenceMissOf(h, c, t) == Owned(WriteRemoteAction(Look(h, c, t), c, t), c, t)

-----------------------------------------------------------------------------
(* The state machine: an access is one step, as in MSI_SMPCache.           *)

Init == caches = [c \in Cpus |-> [s \in Sets |-> [p \in 1 .. PrivateAssoc |-> ColdLine]]]

(* A hit leaves the line in front.                                         *)
ReadHit(c, l) ==
  /\ HitsIn(caches, c, CalcTag(l))
  /\ caches' = Look(caches, c, CalcTag(l))

ReadMiss(c, l) ==
  /\ ~HitsIn(caches, c, CalcTag(l))
  /\ caches' = ReadMissOf(caches, c, CalcTag(l))

WriteMiss(c, l) ==
  /\ ~HitsIn(caches, c, CalcTag(l))
  /\ caches' = WriteMissOf(caches, c, CalcTag(l))

WriteCoherenceMiss(c, l) ==
  /\ HitsIn(caches, c, CalcTag(l))
  /\ StateIn(caches, c, CalcTag(l)) \in {"S", "E"}
  /\ caches' = WriteCoherenceMissOf(caches, c, CalcTag(l))

WriteHit(c, l) ==
  /\ HitsIn(caches, c, CalcTag(l))
  /\ StateIn(caches, c, CalcTag(l)) \notin {"S", "E"}
  /\ caches' = Look(caches, c, CalcTag(l))

Next ==
  \E c \in Cpus, l \in Lines :
    \/ ReadHit(c, l) \/ ReadMiss(c, l)
    \/ WriteMiss(c, l) \/ WriteCoherenceMiss(c, l) \/ WriteHit(c, l)

Spec == Init /\ [][Next]_caches
=============================================================================
