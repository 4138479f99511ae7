------------------------ MODULE PinDriver_Properties ------------------------
(***************************************************************************)
(* What the Pin tool's callbacks guarantee, for any threads and for one.   *)
(***************************************************************************)
EXTENDS PinDriver

-----------------------------------------------------------------------------
(* For any number of threads.                                              *)

Labels == {"fetch", "writeData", "wdReset", "wdLock", "wdCopy", "wdLoad", "wdStore",
           "wdLoop", "read", "rdLoop", "write", "wrLoad", "wrStore", "execute"}

(* Type invariant: in particular a loop never passes the last container.   *)
DriverTypeOK ==
  /\ mem \in [Addrs -> Data]
  /\ pc \in [Threads -> Labels]
  /\ ins \in [Threads -> [kind : {"read", "write", "update", "other"}, addr : Addrs \cup {NULL}]]
  /\ instrumentationStatus \in [Threads -> BOOLEAN]
  /\ globalLock \in Threads \cup {NULL}
  /\ writeaddr \in Addrs \cup {NULL} /\ writetid \in Threads \cup {NULL}
  /\ writecount \in Int
  /\ data \in [Threads -> Data \cup {NaN}]
  /\ tmp \in [Threads -> Int]
  /\ at \in [Threads -> Protos]
  /\ sim \in [Protos -> [Addrs -> Data \cup {NaN}]]
  /\ reported \in BOOLEAN

(* A container holds at an address only what the program stored there:     *)
(* address, thread and value of a write stay together from WriteData's     *)
(* SafeCopy to its last writeLine, whatever the other threads announce.    *)
NoCrossTalk == \A i \in Protos, a \in Addrs : sim[i][a] \in ValuesOf(a) \cup {NaN}

(* Whenever nobody holds the lock, the protocols simulated side by side    *)
(* have seen the same writes in the same order.                            *)
ContainersInStep == globalLock = NULL => \A i, j \in Protos : sim[i] = sim[j]

(* The reset without the lock can come between WriteData's test of the     *)
(* count and its decrement and so take it below zero, where the next write *)
(* that is announced is swallowed.  This does happen; what never does is   *)
(* that the resets add up and the count owes more than one write.          *)
OwesAtMostOne == writecount >= -1

(* The lock never stays taken.                                             *)
LockReleased == globalLock # NULL ~> globalLock = NULL

-----------------------------------------------------------------------------
(* For a single thread that is always instrumented.                        *)

(* A write is pending at most until the next instruction's WriteData.      *)
AtMostOnePending == writecount \in {0, 1}

(* Accesses to the stack are ignored: none reaches a container.            *)
StackIgnored == \A i \in Protos, a \in Stack : sim[i][a] = NaN

(* A read whose value is not the program's, INT_NAN excepted, is reported: *)
(* a single thread's memory is at the second container what it was when    *)
(* the required value was copied.                                          *)
MismatchReported ==
  \A t \in Threads :
    (pc[t] = "rdLoop" /\ at[t] > 1 /\ data[t] \notin {mem[ins[t].addr], NaN}) => reported
=============================================================================
