--------------------- MODULE ContainerAccess_Properties ---------------------
(***************************************************************************)
(* What the container's lock must guarantee to the threads that share the  *)
(* hierarchy, and what holds at every point inside an access.              *)
(***************************************************************************)
EXTENDS ContainerAccess, MSI_Properties

(* Type invariant: a thread has arguments and local variables exactly      *)
(* while it is inside an access, and the hierarchies are well formed.      *)
ContainerTypeOK ==
  /\ pc \in [Tids -> Labels]
  /\ privateCachesLock \in Tids \cup {FREE}
  /\ frame \in [Tids -> Frames \cup {NoFrame}]
  /\ \A t \in Tids : frame[t] # NoFrame <=> InCall(t)
  /\ HierType(hier) /\ HierType(before)

(* Thread ids that are not negative as ints.                               *)
IntTids == {t \in Tids : AsInt(t) >= 0}

(* Mutual exclusion: a thread inside an access is the one that holds       *)
(* privateCachesLock.  Who holds it is inside one, so that no call came    *)
(* back without releasing it, unless its id is negative as an int.         *)
OneAtATime ==
  \A t \in Tids : /\ InCall(t) => privateCachesLock = t
                  /\ (privateCachesLock = t /\ t \in IntTids) => InCall(t)

(* The word a read returns is the content of memory at that moment, read   *)
(* through a line pointer that is as old as the access.                    *)
ReadsReturn ==
  \A t \in Tids : (pc[t] = "return" /\ Reads(t))
    => ReturnedWord(t) = MemoryData(Tag(t))[Request(t).word]

(* The end of an access: readLine or writeLine has given the lock back.    *)
Returns(t) == pc[t] = "return" /\ pc'[t] = "idle"

(* privateCachesLock does not stay with a thread whose id is not negative  *)
(* as an int: every access that got it comes to its end and gives it back. *)
LockReturned == \A t \in IntTids : privateCachesLock = t ~> privateCachesLock = FREE

(* What the access that was asked for does to the hierarchy.              *)
AccessOf(h, c, r) ==
  IF r.op = "read" THEN ReadOf(h, c, CalcTag(r.line), r.word)
                   ELSE WriteOf(h, c, CalcTag(r.line), r.word, r.val)

(* Seen from one release of the lock to the next, the hierarchy changes by *)
(* one whole access of MSI_SMPCache, the one that the releasing thread was *)
(* called for, whatever other threads did between its lookup and its fill. *)
WholeAccess(t) == pc[t] = "return" /\ before' = AccessOf(before, tidToCPUId(t), Request(t))
AccessesAreAtomic == [][\E t \in Tids : WholeAccess(t)]_before

(* The threads share one memory, whatever CPUs and levels their accesses   *)
(* go through: a read returns the word of memory that it was called for    *)
(* and changes no line, a write puts its value into its word and changes   *)
(* nothing else, and a line is forgotten only if main memory had no place  *)
(* for it.                                                                 *)
SharedMemory == INSTANCE CoherentMemory WITH mem <- Memories(before)
Performed(r, word, lost) ==
  IF r.op = "read" THEN SharedMemory!Read(r.line, r.word, word, lost)
                   ELSE SharedMemory!Write(r.line, r.word, r.val, lost)
ThreadsShareMemory ==
  /\ SharedMemory!Init
  /\ [][\A t \in Tids : Returns(t) =>
          Performed(Request(t), ReturnedWord(t), Overflowed(before'))]_vars
=============================================================================
