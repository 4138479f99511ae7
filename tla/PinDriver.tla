----------------------------- MODULE PinDriver -----------------------------
(***************************************************************************)
(* The Pin tool of MultiCacheSim_PinDriver.cpp: the callbacks that Pin     *)
(* inserts before every instruction, running on the program's threads, and *)
(* the accesses they make to the simulated hierarchies.                    *)
(*                                                                         *)
(* Before an instruction Pin calls WriteData and then, by what the         *)
(* instruction does, Read or Write.  Write only announces a store, in one  *)
(* slot for all threads: the value is not known before the instruction has *)
(* run, so the next WriteData, whichever thread calls it, fetches it and   *)
(* carries the write out.                                                  *)
(*                                                                         *)
(* A container is the memory it implements (CoherentMemory, with room for  *)
(* all the program's lines).  There is no reference container: its         *)
(* protocol is out of the build.                                           *)
(***************************************************************************)
EXTENDS Integers, FiniteSets

CONSTANTS
  Threads,        \* threads of the program, all started
  Heap, Stack,    \* addresses outside and inside the range of isStack
  Vals,           \* what can be stored at one address
  NaN,            \* INT_NAN, what a container holds where nobody has written
  NULL,           \* no thread, no address: the slot before the first write
  Containers,     \* number of protocols simulated side by side
  Kinds,          \* kinds of instructions in the program
  InstrumentAll,  \* the knob instrAll
  MaxPending      \* bound on the writes pending when another one starts

Addrs == Heap \cup Stack

(* A value is marked with the address it was stored at, so that a value    *)
(* that strays to another address shows.                                   *)
ValuesOf(a) == {a} \X Vals
Data == Addrs \X Vals

ASSUME DriverAssumption ==
  /\ Heap \cap Stack = {}
  /\ NULL \notin Addrs \cup Threads
  /\ NaN \notin Data
  /\ Containers \in Nat \ {0}
  /\ Kinds \subseteq {"read", "write", "update", "other"}
  /\ InstrumentAll \in BOOLEAN
  /\ MaxPending \in Nat

Protos == 1 .. Containers
IsStack(a) == a \in Stack
Instructions ==
  [kind : Kinds \ {"other"}, addr : Addrs] \cup [kind : Kinds \cap {"other"}, addr : {NULL}]

VARIABLES
  mem,                    \* the program's memory
  pc, ins,                \* each thread's place, and its instruction
  instrumentationStatus,
  globalLock,             \* the thread that holds it
  writeaddr, writetid, writecount,  \* the slot
  data,                   \* each thread's thread-local word
  tmp,                    \* writecount as a thread read it in ++ or --, else 0
  at,                     \* the container that a thread's loop has reached, else 1
  sim,                    \* the memory of each container
  reported                \* has a mismatch been reported?

vars == <<mem, pc, ins, instrumentationStatus, globalLock, writeaddr, writetid,
          writecount, data, tmp, at, sim, reported>>

program == <<mem, ins, instrumentationStatus>>
slot == <<writeaddr, writetid, writecount>>
locals == <<data, tmp, at>>
results == <<sim, reported>>

Init ==
  /\ mem \in [Addrs -> Data] /\ \A a \in Addrs : mem[a] \in ValuesOf(a)
  /\ pc = [t \in Threads |-> "fetch"]
  /\ ins = [t \in Threads |-> [kind |-> "other", addr |-> NULL]]
  /\ instrumentationStatus = [t \in Threads |-> InstrumentAll]
  /\ globalLock = NULL
  /\ writeaddr = NULL /\ writetid = NULL /\ writecount = 0
  /\ data = [t \in Threads |-> NaN]
  /\ tmp = [t \in Threads |-> 0]
  /\ at = [t \in Threads |-> 1]
  /\ sim = [i \in Protos |-> [a \in Addrs |-> NaN]]
  /\ reported = FALSE

(* PIN_GetLock and PIN_ReleaseLock.                                        *)
GetLock(t) == globalLock = NULL /\ globalLock' = t
ReleaseLock(t) == globalLock' = NULL

GoTo(t, label) == pc' = [pc EXCEPT ![t] = label]

-----------------------------------------------------------------------------
(* The program.                                                            *)

(* Nothing in the code bounds writecount; MaxPending does, for TLC.        *)
InBounds == writecount < MaxPending /\ \A t \in Threads : tmp[t] < MaxPending

(* Variant of FirstCallback: reads are not preceded by WriteData.          *)
FirstCallbackLate(i) == IF i.kind = "read" THEN "read" ELSE "writeData"

(* Pin calls WriteData before every instruction.                           *)
FirstCallback(i) == "writeData"

(* Thread t comes to its next instruction.                                 *)
Fetch(t) ==
  /\ pc[t] = "fetch"
  /\ \E i \in Instructions :
       /\ i.kind = "write" => InBounds
       /\ ins' = [ins EXCEPT ![t] = i]
       /\ GoTo(t, FirstCallback(i))
  /\ UNCHANGED <<mem, instrumentationStatus, globalLock, slot, locals, results>>

(* After the callbacks, the instruction itself.                            *)
Execute(t) ==
  /\ pc[t] = "execute"
  /\ IF ins[t].kind \in {"write", "update"}
     THEN \E v \in ValuesOf(ins[t].addr) : mem' = [mem EXCEPT ![ins[t].addr] = v]
     ELSE UNCHANGED mem
  /\ GoTo(t, "fetch")
  /\ UNCHANGED <<ins, instrumentationStatus, globalLock, slot, locals, results>>

(* Without instrAll, the program's calls of INSTRUMENT_ON and _OFF.        *)
TurnInstrumentation(t, on) ==
  /\ pc[t] = "fetch" /\ ~InstrumentAll
  /\ instrumentationStatus' = [instrumentationStatus EXCEPT ![t] = on]
  /\ UNCHANGED <<mem, pc, ins, globalLock, slot, locals, results>>
TurnInstrumentationOn(t) == TurnInstrumentation(t, TRUE)
TurnInstrumentationOff(t) == TurnInstrumentation(t, FALSE)

-----------------------------------------------------------------------------
(* WriteData.                                                              *)

(* The callback that follows.  An instruction that both reads and writes   *)
(* memory takes the first branch of instrumentTrace.                       *)
AfterWriteData(t) ==
  CASE ins[t].kind \in {"read", "update"} -> "read"
    [] ins[t].kind = "write" -> "write"
    [] ins[t].kind = "other" -> "execute"

WriteDataOff(t) ==
  /\ pc[t] = "writeData" /\ ~instrumentationStatus[t]
  /\ GoTo(t, AfterWriteData(t))
  /\ UNCHANGED <<globalLock, program, slot, locals, results>>

(* Variant of PendingOnStack: the stack is not told from the heap.         *)
PendingNever(t) == FALSE

(* The address in the slot is tested before the lock is taken.             *)
PendingOnStack(t) == IsStack(writeaddr)

WriteDataTest(t) ==
  /\ pc[t] = "writeData" /\ instrumentationStatus[t]
  /\ GoTo(t, IF PendingOnStack(t) THEN "wdReset" ELSE "wdLock")
  /\ UNCHANGED <<globalLock, program, slot, locals, results>>

(* writecount = 0 and return, without the lock.                            *)
WriteDataReset(t) ==
  /\ pc[t] = "wdReset"
  /\ writecount' = 0
  /\ GoTo(t, AfterWriteData(t))
  /\ UNCHANGED <<globalLock, writeaddr, writetid, program, locals, results>>

(* Variant of Pending: any count but zero.                                 *)
PendingNonzero == writecount # 0
Pending == writecount > 0

(* The lock is taken and released: no write is pending.                    *)
WriteDataNothing(t) ==
  /\ pc[t] = "wdLock" /\ globalLock = NULL /\ ~Pending
  /\ GoTo(t, AfterWriteData(t))
  /\ UNCHANGED <<globalLock, program, slot, locals, results>>

WriteDataBegin(t) ==
  /\ pc[t] = "wdLock" /\ GetLock(t) /\ Pending
  /\ GoTo(t, "wdCopy")
  /\ UNCHANGED <<program, slot, locals, results>>

(* The value is the program's memory of this moment, which the thread that *)
(* announced the write may not have reached or may have left behind.       *)
WriteDataCopy(t) ==
  /\ pc[t] = "wdCopy"
  /\ data' = [data EXCEPT ![writetid] = mem[writeaddr]]
  /\ GoTo(t, "wdLoad")
  /\ UNCHANGED <<globalLock, tmp, at, program, slot, results>>

(* writecount--, a load and a store: WriteDataReset may come in between.   *)
WriteDataLoad(t) ==
  /\ pc[t] = "wdLoad"
  /\ tmp' = [tmp EXCEPT ![t] = writecount]
  /\ GoTo(t, "wdStore")
  /\ UNCHANGED <<globalLock, data, at, program, slot, results>>

(* Variant of Decremented: the write stays pending.                        *)
NotDecremented(n) == n
Decremented(n) == n - 1

WriteDataStore(t) ==
  /\ pc[t] = "wdStore"
  /\ writecount' = Decremented(tmp[t])
  /\ tmp' = [tmp EXCEPT ![t] = 0]
  /\ GoTo(t, "wdLoop")
  /\ UNCHANGED <<globalLock, writeaddr, writetid, data, at, program, results>>

(* Variants of More: one round too many; one too few.                      *)
MoreThanAll(t) == at[t] <= Containers
MoreButLast(t) == at[t] < Containers - 1

(* The loops over the containers.                                          *)
More(t) == at[t] < Containers

(* Variant of Advance: the iterator stays where it is.                     *)
Stay(t) == at' = at
Advance(t) == at' = [at EXCEPT ![t] = @ + 1]

(* writeLine of the next container; after the last one the lock goes back. *)
WriteDataLoop(t) ==
  /\ pc[t] = "wdLoop"
  /\ sim' = [sim EXCEPT ![at[t]][writeaddr] = data[writetid]]
  /\ IF More(t)
     THEN Advance(t) /\ UNCHANGED <<pc, globalLock>>
     ELSE ReleaseLock(t) /\ GoTo(t, AfterWriteData(t)) /\ at' = [at EXCEPT ![t] = 1]
  /\ UNCHANGED <<data, tmp, reported, program, slot>>

-----------------------------------------------------------------------------
(* Read.                                                                   *)

ReadSkip(t) ==
  /\ pc[t] = "read" /\ (~instrumentationStatus[t] \/ IsStack(ins[t].addr))
  /\ GoTo(t, "execute")
  /\ UNCHANGED <<globalLock, program, slot, locals, results>>

(* The lock is taken and the word that the program will read is copied.    *)
ReadBegin(t) ==
  /\ pc[t] = "read" /\ instrumentationStatus[t] /\ ~IsStack(ins[t].addr)
  /\ GetLock(t)
  /\ data' = [data EXCEPT ![t] = mem[ins[t].addr]]
  /\ GoTo(t, "rdLoop")
  /\ UNCHANGED <<tmp, at, program, slot, results>>

(* readLine of the next container.  tdata1, with the program's word, and   *)
(* tdata2, with the container's, are both get_tls(tid): one word.          *)
ReadLoop(t) ==
  LET tdata1 == t
      tdata2 == t
  IN  /\ pc[t] = "rdLoop"
      /\ data' = [data EXCEPT ![tdata2] = sim[at[t]][ins[t].addr]]
      /\ reported' = (reported \/ data'[tdata1] # data'[tdata2])
      /\ IF More(t)
         THEN Advance(t) /\ UNCHANGED <<pc, globalLock>>
         ELSE ReleaseLock(t) /\ GoTo(t, "execute") /\ at' = [at EXCEPT ![t] = 1]
      /\ UNCHANGED <<tmp, sim, program, slot>>

-----------------------------------------------------------------------------
(* Write.                                                                  *)

WriteSkip(t) ==
  /\ pc[t] = "write" /\ ~instrumentationStatus[t]
  /\ GoTo(t, "execute")
  /\ UNCHANGED <<globalLock, program, slot, locals, results>>

(* Variant of WriteBegin: the slot is filled without the lock.             *)
WriteBeginUnlocked(t) ==
  /\ pc[t] = "write" /\ instrumentationStatus[t]
  /\ writeaddr' = ins[t].addr
  /\ writetid' = t
  /\ GoTo(t, "wrLoad")
  /\ UNCHANGED <<globalLock, writecount, program, locals, results>>

(* There is no test of the address here: stack writes are announced too.   *)
WriteBegin(t) ==
  /\ pc[t] = "write" /\ instrumentationStatus[t]
  /\ GetLock(t)
  /\ writeaddr' = ins[t].addr
  /\ writetid' = t
  /\ GoTo(t, "wrLoad")
  /\ UNCHANGED <<writecount, program, locals, results>>

(* writecount++, with the same gap as above, and the lock goes back.       *)
WriteLoad(t) ==
  /\ pc[t] = "wrLoad"
  /\ tmp' = [tmp EXCEPT ![t] = writecount]
  /\ GoTo(t, "wrStore")
  /\ UNCHANGED <<globalLock, data, at, program, slot, results>>

WriteStore(t) ==
  /\ pc[t] = "wrStore"
  /\ writecount' = tmp[t] + 1
  /\ tmp' = [tmp EXCEPT ![t] = 0]
  /\ ReleaseLock(t)
  /\ GoTo(t, "execute")
  /\ UNCHANGED <<writeaddr, writetid, data, at, program, results>>

-----------------------------------------------------------------------------
WriteData(t) ==
  \/ WriteDataOff(t) \/ WriteDataTest(t) \/ WriteDataReset(t) \/ WriteDataNothing(t)
  \/ WriteDataBegin(t) \/ WriteDataCopy(t) \/ WriteDataLoad(t) \/ WriteDataStore(t)
  \/ WriteDataLoop(t)
Read(t) == ReadSkip(t) \/ ReadBegin(t) \/ ReadLoop(t)
Write(t) == WriteSkip(t) \/ WriteBegin(t) \/ WriteLoad(t) \/ WriteStore(t)

Callback(t) == WriteData(t) \/ Read(t) \/ Write(t)

Next == \E t \in Threads :
  \/ Fetch(t) \/ Execute(t) \/ TurnInstrumentationOn(t) \/ TurnInstrumentationOff(t)
  \/ Callback(t)

Spec == Init /\ [][Next]_vars

(* The operating system runs every thread; what the program does next and  *)
(* who of several waiting threads gets the lock is left open.              *)
FairSpec == Spec /\ \A t \in Threads : WF_vars(Callback(t))
=============================================================================
