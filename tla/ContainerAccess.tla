--------------------------- MODULE ContainerAccess ---------------------------
(***************************************************************************)
(* The accesses of MultiCacheSim.cpp, statement group by statement group:  *)
(* threads call readLine and writeLine, which take privateCachesLock, map  *)
(* the thread to a CPU, and run readWord or writeWord of its cache.        *)
(*                                                                         *)
(* MSI_SMPCache takes an access to be one step.  Here it is a lookup, a    *)
(* snoop, a request to the level below and a fill, which other threads     *)
(* could interleave but for the lock.                                      *)
(***************************************************************************)
EXTENDS MSI_SMPCache

CONSTANTS
  Tids,     \* threads of the program that call the container, unsigned long
  IntLimit  \* 2^31: an int holds the numbers from -IntLimit to IntLimit - 1

ASSUME TidsAssumption == Tids \subseteq Nat /\ IntLimit \in Nat \ {0}

VARIABLES
  pc,                 \* where each thread is
  privateCachesLock,  \* its holder
  frame,              \* arguments and local variables of each call
  before              \* the hierarchy when the lock was last released

vars == <<hier, pc, privateCachesLock, frame, before>>

FREE == -1

Requests ==
  [op : {"read"}, line : Lines, word : Words]
    \cup [op : {"write"}, line : Lines, word : Words, val : Values]

(* cpu is the result of tidToCPUId; st and ld are those of readWord, and   *)
(* ld also the inv_ack.linedata of writeWord.                              *)
Frames == [request : Requests, cpu : Cpus, st : 0 .. 2, ld : LineData]
NoFrame == <<>>

Labels ==
  {"idle", "lookup", "readSnoop", "writeSnoop", "upgradeSnoop", "below",
   "readFill", "writeFill", "put", "return"}

Request(t) == frame[t].request
Cpu(t) == frame[t].cpu
Tag(t) == CalcTag(Request(t).line)
Reads(t) == Request(t).op = "read"

InCall(t) == pc[t] # "idle"
Goto(t, label) == pc' = [pc EXCEPT ![t] = label]

-----------------------------------------------------------------------------
(* readLine and writeLine of the container.                                *)

(* An unsigned long passed as an int keeps its low bits, the highest of    *)
(* which is now a sign; the remainder of a negative int is not positive.   *)
AsInt(n) ==
  LET low == n % (2 * IntLimit) IN IF low < IntLimit THEN low ELSE low - 2 * IntLimit
Remainder(i, n) == IF i < 0 THEN -((-i) % n) ELSE i % n

(* Variant of tidToCPUId: CPUs counted from one, as CacheTestDriver's      *)
(* comments do.                                                            *)
tidToCPUIdFromOne(t) == 1 + Remainder(AsInt(t), NumCaches)

tidToCPUId(t) == Remainder(AsInt(t), NumCaches)

findCacheByCPUId(c) == c \in Cpus

(* Variant of LockFree: nobody waits for the lock.                         *)
LockIgnored == TRUE

LockFree == privateCachesLock = FREE

(* A call waits for the lock before it does anything, so that it begins    *)
(* here, with the caller's arguments.  A CPU id that no cache has, as that *)
(* of a negative thread id, makes it return with the lock held.            *)
GetLock(t) ==
  /\ pc[t] = "idle" /\ LockFree /\ InBounds
  /\ privateCachesLock' = t
  /\ IF findCacheByCPUId(tidToCPUId(t))
     THEN /\ \E r \in Requests :
               frame' = [frame EXCEPT ![t] = [request |-> r, cpu |-> tidToCPUId(t),
                                              st |-> NULLst, ld |-> NaNLine]]
          /\ Goto(t, "lookup")
     ELSE UNCHANGED <<pc, frame>>
  /\ UNCHANGED <<hier, before>>

-----------------------------------------------------------------------------
(* readWord.  A step inside an access is a branch of the code, a condition *)
(* and the place that the thread goes to, with what is done there.         *)

Step(t, h) == hier' = h /\ UNCHANGED <<privateCachesLock, before>>

ReadHits(t) ==
  /\ pc[t] = "lookup" /\ Reads(t) /\ HitsIn(hier, Cpu(t), Tag(t))
  /\ Goto(t, "return")

LookupReadHit(t) ==
  /\ ReadHits(t)
  /\ frame' = [frame EXCEPT ![t].st = 1]
  /\ Step(t, ReadHitOf(hier, Cpu(t), Tag(t)))

ReadMisses(t) ==
  /\ pc[t] = "lookup" /\ Reads(t) /\ ~HitsIn(hier, Cpu(t), Tag(t))
  /\ Goto(t, "readSnoop")

LookupReadMiss(t) ==
  /\ ReadMisses(t)
  /\ frame' = [frame EXCEPT ![t].st = Pointer(RowOf(hier, Cpu(t), Tag(t)), Tag(t))]
  /\ Step(t, ReadMissed(hier, Cpu(t), Tag(t)))

(* A sibling serves the miss, or none does.                                *)
SiblingReads(t) ==
  /\ pc[t] = "readSnoop" /\ ValidCopies(hier, Cpu(t), Tag(t)) # {}
  /\ Goto(t, "readFill")

ReadServed(t) ==
  LET fetched == Fetch(hier, Cpu(t), Tag(t))
  IN  /\ SiblingReads(t)
      /\ frame' = [frame EXCEPT ![t].ld = fetched.data]
      /\ Step(t, fetched.hier)

NobodyReads(t) ==
  /\ pc[t] = "readSnoop" /\ ValidCopies(hier, Cpu(t), Tag(t)) = {}
  /\ Goto(t, "below")

ReadUnserved(t) ==
  /\ NobodyReads(t)
  /\ Step(t, ReadRemoteAction(hier, Cpu(t), Tag(t)))
  /\ UNCHANGED frame

(* readLine of the LLC, for a read or a write.                             *)
ParentAnswers(t) ==
  /\ pc[t] = "below"
  /\ Goto(t, IF Reads(t) THEN "readFill" ELSE "writeFill")

AskParent(t) ==
  LET got == LLCRead(hier, Tag(t))
  IN  /\ ParentAnswers(t)
      /\ frame' = [frame EXCEPT ![t].ld = got.data]
      /\ Step(t, got.hier)

(* The stale word is read through st after the fetch, and compared.        *)
ReadFills(t) == pc[t] = "readFill" /\ Goto(t, "return")

ReadFill(t) ==
  LET row == RowOf(hier, Cpu(t), Tag(t))
      fetched == [hier |-> hier, data |-> frame[t].ld]
      judged == Judge(frame[t].st # NULLst, row[1].data, fetched, Cpu(t), Request(t).word)
  IN  /\ ReadFills(t)
      /\ frame' = [frame EXCEPT ![t].st = PointerAfterFill(@, row, Tag(t))]
      /\ Step(t, FillLine(judged, Cpu(t), Tag(t), "S", frame[t].ld, LLCWrite))

(* What readWord is about to return.                                       *)
ReturnedWord(t) ==
  WordAt(frame[t].st, RowOf(hier, Cpu(t), Tag(t)), Tag(t), Request(t).word)

-----------------------------------------------------------------------------
(* writeWord.                                                              *)

WriteMisses(t) ==
  /\ pc[t] = "lookup" /\ ~Reads(t) /\ ~HitsIn(hier, Cpu(t), Tag(t))
  /\ Goto(t, "writeSnoop")

LookupWriteMiss(t) ==
  /\ WriteMisses(t)
  /\ Step(t, WriteMissed(hier, Cpu(t), Tag(t)))
  /\ UNCHANGED frame

SiblingYields(t) ==
  /\ pc[t] = "writeSnoop" /\ ValidCopies(hier, Cpu(t), Tag(t)) # {}
  /\ Goto(t, "writeFill")

WriteServed(t) ==
  /\ SiblingYields(t)
  /\ frame' = [frame EXCEPT ![t].ld = InvalidateReply(hier, Cpu(t), Tag(t))]
  /\ Step(t, WriteRemoteAction(hier, Cpu(t), Tag(t)))

NobodyYields(t) ==
  /\ pc[t] = "writeSnoop" /\ ValidCopies(hier, Cpu(t), Tag(t)) = {}
  /\ Goto(t, "below")

WriteUnserved(t) ==
  /\ NobodyYields(t)
  /\ Step(t, WriteRemoteAction(hier, Cpu(t), Tag(t)))
  /\ UNCHANGED frame

WriteFills(t) == pc[t] = "writeFill" /\ Goto(t, "return")

WriteFill(t) ==
  /\ WriteFills(t)
  /\ Step(t, FillLine(hier, Cpu(t), Tag(t), "M",
                      [frame[t].ld EXCEPT ![Request(t).word] = Request(t).val], LLCWrite))
  /\ UNCHANGED frame

Upgrades(t) ==
  /\ pc[t] = "lookup" /\ ~Reads(t)
  /\ HitsIn(hier, Cpu(t), Tag(t)) /\ StateOf(hier, Cpu(t), Tag(t)) = "S"
  /\ Goto(t, "upgradeSnoop")

LookupUpgrade(t) ==
  /\ Upgrades(t)
  /\ Step(t, Look(hier, Cpu(t), Tag(t)))
  /\ UNCHANGED frame

(* Variant of UpgradeFirst: the line is written before the others are told.*)
UpgradeLast(h, c, t, w, v) == PutOwned(h, c, t, w, v)

UpgradeFirst(h, c, t, w, v) == UpgradeSnooped(h, c, t, w, v)

UpgradeTold(t) == pc[t] = "upgradeSnoop" /\ Goto(t, "put")

UpgradeSnoop(t) ==
  /\ UpgradeTold(t)
  /\ Step(t, UpgradeFirst(hier, Cpu(t), Tag(t), Request(t).word, Request(t).val))
  /\ UNCHANGED frame

Puts(t) == pc[t] = "put" /\ Goto(t, "return")

Put(t) ==
  /\ Puts(t)
  /\ Step(t, PutOwned(hier, Cpu(t), Tag(t), Request(t).word, Request(t).val))
  /\ UNCHANGED frame

WriteHits(t) ==
  /\ pc[t] = "lookup" /\ ~Reads(t)
  /\ HitsIn(hier, Cpu(t), Tag(t)) /\ StateOf(hier, Cpu(t), Tag(t)) # "S"
  /\ Goto(t, "return")

LookupWriteHit(t) ==
  /\ WriteHits(t)
  /\ Step(t, WriteHitOf(hier, Cpu(t), Tag(t), Request(t).word, Request(t).val))
  /\ UNCHANGED frame

-----------------------------------------------------------------------------
(* The end of an access.                                                   *)

(* readWord looks the line up again if its first lookup found no tag.      *)
LastLookup(t) ==
  IF Reads(t) /\ frame[t].st = NULLst THEN Look(hier, Cpu(t), Tag(t)) ELSE hier

Leaves(t) == pc[t] = "return" /\ Goto(t, "idle")

Return(t) ==
  /\ Leaves(t)
  /\ hier' = LastLookup(t)
  /\ before' = LastLookup(t)
  /\ privateCachesLock' = FREE
  /\ frame' = [frame EXCEPT ![t] = NoFrame]

ContainerInit ==
  /\ Init
  /\ before = hier
  /\ pc = [t \in Tids |-> "idle"]
  /\ privateCachesLock = FREE
  /\ frame = [t \in Tids |-> NoFrame]

ReadWord(t) ==
  \/ LookupReadHit(t) \/ LookupReadMiss(t)
  \/ ReadServed(t) \/ ReadUnserved(t) \/ AskParent(t) \/ ReadFill(t)

WriteWord(t) ==
  \/ LookupWriteMiss(t) \/ WriteServed(t) \/ WriteUnserved(t) \/ WriteFill(t)
  \/ LookupUpgrade(t) \/ UpgradeSnoop(t) \/ Put(t)
  \/ LookupWriteHit(t)

ContainerNext == \E t \in Tids : GetLock(t) \/ ReadWord(t) \/ WriteWord(t) \/ Return(t)

ContainerSpec == ContainerInit /\ [][ContainerNext]_vars

(* The branches alone: where a thread inside an access goes next.  What a *)
(* branch does is always possible, so that a thread can take a step of its *)
(* access exactly if it can take one of these.                             *)
Moves(t) ==
  \/ ReadHits(t) \/ ReadMisses(t) \/ SiblingReads(t) \/ NobodyReads(t)
  \/ ParentAnswers(t) \/ ReadFills(t)
  \/ WriteMisses(t) \/ SiblingYields(t) \/ NobodyYields(t) \/ WriteFills(t)
  \/ Upgrades(t) \/ UpgradeTold(t) \/ Puts(t) \/ WriteHits(t)
  \/ Leaves(t)

(* The operating system runs every thread: one that can take a step of its *)
(* access does so some day.  It need not make another access.              *)
ContainerFairSpec == ContainerSpec /\ \A t \in Tids : WF_pc(Moves(t))
=============================================================================
