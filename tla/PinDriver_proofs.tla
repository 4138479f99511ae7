-------------------------- MODULE PinDriver_proofs --------------------------
(***************************************************************************)
(* The properties of PinDriver_Properties that hold for any number of      *)
(* threads, addresses and protocols.                                       *)
(***************************************************************************)
EXTENDS PinDriverHistory, TLAPS

(* Where a thread holds the lock.                                          *)
Locked == {"wdCopy", "wdLoad", "wdStore", "wdLoop", "rdLoop", "wrLoad", "wrStore"}

(* The lock is what the labels say it is.                                  *)
LockInv == \A t \in Threads : pc[t] \in Locked <=> globalLock = t

(* An instruction has the address that its callback uses, a loop starts at *)
(* the first container, and the slot is filled when it is used.            *)
SlotFilled == writeaddr \in Addrs /\ writetid \in Threads
PlaceInv ==
  /\ \A t \in Threads :
       /\ ins[t].kind # "other" => ins[t].addr \in Addrs
       /\ pc[t] \in {"read", "rdLoop"} => ins[t].kind \in {"read", "update"}
       /\ pc[t] \in {"write", "wrLoad", "wrStore"} => ins[t].kind = "write"
       /\ pc[t] \notin {"wdLoop", "rdLoop"} => at[t] = 1
       /\ pc[t] \in Locked \ {"rdLoop"} => SlotFilled
  /\ writecount > 0 => SlotFilled

(* The count in the slot and in the thread that is changing it.            *)
CountInv ==
  /\ writecount >= -1
  /\ \A t \in Threads :
       /\ pc[t] \in {"wdCopy", "wdLoad"} => writecount >= 0
       /\ pc[t] = "wdStore" => tmp[t] >= 0
       /\ pc[t] = "wrStore" => tmp[t] >= -1

(* Every value is at the address where the program stored it, also the one *)
(* that a WriteData is carrying.                                           *)
ValueInv ==
  /\ \A a \in Addrs : mem[a] \in ValuesOf(a)
  /\ \A t \in Threads : pc[t] \in {"wdLoad", "wdStore", "wdLoop"}
                           => data[writetid] \in ValuesOf(writeaddr)
  /\ NoCrossTalk

(* The containers are equal, but for the one address that a WriteData has  *)
(* already written in those before the one it has reached.                 *)
SameButLoop(t) ==
  \A i, j \in Protos, a \in Addrs :
    (a = writeaddr => (i < at[t] <=> j < at[t])) => sim[i][a] = sim[j][a]
StepInv ==
  /\ (\A t \in Threads : pc[t] # "wdLoop") => \A i, j \in Protos : sim[i] = sim[j]
  /\ \A t \in Threads : pc[t] = "wdLoop" =>
       /\ SameButLoop(t)
       /\ \A i \in Protos : i < at[t] => sim[i][writeaddr] = data[writetid]

DriverInv == DriverTypeOK /\ LockInv /\ PlaceInv /\ CountInv /\ ValueInv /\ StepInv

-----------------------------------------------------------------------------
(* The inductive invariant holds in the initial state.                     *)
LEMMA DriverInit == Init => DriverInv
<1> SUFFICES ASSUME Init PROVE DriverInv
  OBVIOUS
<1> USE DriverAssumption DEF Init
<1>1. DriverTypeOK
  <2>1. 1 \in Protos
    BY DEF Protos
  <2>2. at \in [Threads -> Protos]
    BY <2>1
  <2>3. instrumentationStatus \in [Threads -> BOOLEAN]
    BY Zenon
  <2>4. /\ pc \in [Threads -> Labels]
        /\ ins \in [Threads -> [kind : {"read", "write", "update", "other"},
                               addr : Addrs \cup {NULL}]]
        /\ sim \in [Protos -> [Addrs -> Data \cup {NaN}]]
    BY DEF Labels
  <2>5. reported \in BOOLEAN /\ data \in [Threads -> Data \cup {NaN}]
    OBVIOUS
  <2>6. tmp \in [Threads -> Int]
    OBVIOUS
  <2> QED BY <2>2, <2>3, <2>4, <2>5, <2>6 DEF DriverTypeOK
<1>2. LockInv
  BY DEF LockInv, Locked
<1>3. PlaceInv
  BY DEF PlaceInv, Locked
<1>4. CountInv
  BY DEF CountInv
<1>5. ValueInv
  BY DEF ValueInv, NoCrossTalk
<1>6. StepInv
  BY DEF StepInv
<1> QED BY <1>1, <1>2, <1>3, <1>4, <1>5, <1>6 DEF DriverInv

(* Every step is one of these; each lemma below splits along them.         *)
LEMMA Steps ==
  ASSUME NEW t \in Threads,
         Fetch(t) \/ Execute(t) \/ TurnInstrumentationOn(t) \/ TurnInstrumentationOff(t)
           \/ Callback(t)
  PROVE  \/ Fetch(t) \/ Execute(t) \/ TurnInstrumentationOn(t) \/ TurnInstrumentationOff(t)
         \/ WriteDataOff(t) \/ WriteDataTest(t) \/ WriteDataReset(t) \/ WriteDataNothing(t)
         \/ WriteDataBegin(t) \/ WriteDataCopy(t) \/ WriteDataLoad(t) \/ WriteDataStore(t)
         \/ WriteDataLoop(t)
         \/ ReadSkip(t) \/ ReadBegin(t) \/ ReadLoop(t)
         \/ WriteSkip(t) \/ WriteBegin(t) \/ WriteLoad(t) \/ WriteStore(t)
BY DEF Callback, WriteData, Read, Write

(* What a step leaves alone, spelled out for the provers.                  *)
LEMMA TypeStep ==
  ASSUME DriverInv, NEW t \in Threads,
         Fetch(t) \/ Execute(t) \/ TurnInstrumentationOn(t) \/ TurnInstrumentationOff(t)
           \/ Callback(t)
  PROVE  DriverTypeOK'
<1> USE DriverAssumption DEF DriverInv, DriverTypeOK, GoTo, GetLock, ReleaseLock,
                             program, slot, locals, results, Labels
<1>0. ASSUME NEW l \in Labels PROVE [pc EXCEPT ![t] = l] \in [Threads -> Labels]
  OBVIOUS
<1>a. AfterWriteData(t) \in Labels
  BY DEF AfterWriteData
<1>1. CASE Fetch(t)
  <2>1. PICK i \in Instructions : ins' = [ins EXCEPT ![t] = i] /\ GoTo(t, FirstCallback(i))
    BY <1>1 DEF Fetch
  <2>2. i \in [kind : {"read", "write", "update", "other"}, addr : Addrs \cup {NULL}]
    BY DEF Instructions
  <2>3. ins' \in [Threads -> [kind : {"read", "write", "update", "other"},
                             addr : Addrs \cup {NULL}]]
    BY <2>1, <2>2
  <2>4. pc' \in [Threads -> Labels]
    BY <2>1 DEF FirstCallback
  <2> QED BY <1>1, <2>3, <2>4 DEF Fetch
<1>2. CASE Execute(t)
  <2>1. mem' \in [Addrs -> Data]
    <3>1. CASE ins[t].kind \in {"write", "update"}
      <4>1. PICK v \in ValuesOf(ins[t].addr) : mem' = [mem EXCEPT ![ins[t].addr] = v]
        BY <1>2, <3>1 DEF Execute
      <4>2. ins[t].addr \in Addrs
        BY <3>1 DEF PlaceInv
      <4>3. v \in Data
        BY <4>2 DEF ValuesOf, Data
      <4> QED BY <4>1, <4>2, <4>3
    <3>2. CASE ins[t].kind \notin {"write", "update"}
      BY <1>2, <3>2 DEF Execute
    <3> QED BY <3>1, <3>2
  <2> QED BY <1>2, <2>1 DEF Execute
<1>3. CASE TurnInstrumentationOn(t) \/ TurnInstrumentationOff(t)
  <2>1. instrumentationStatus' \in [Threads -> BOOLEAN]
    BY <1>3 DEF TurnInstrumentationOn, TurnInstrumentationOff, TurnInstrumentation
  <2> QED BY <1>3, <2>1 DEF TurnInstrumentationOn, TurnInstrumentationOff, TurnInstrumentation
<1>4. CASE WriteDataOff(t) \/ WriteDataTest(t) \/ WriteDataReset(t) \/ WriteDataNothing(t)
  <2>1. CASE WriteDataOff(t)
    BY <2>1, <1>a, <1>0 DEF WriteDataOff
  <2>2. CASE WriteDataTest(t)
    BY <2>2 DEF WriteDataTest
  <2>3. CASE WriteDataReset(t)
    BY <2>3, <1>a, <1>0 DEF WriteDataReset
  <2>4. CASE WriteDataNothing(t)
    BY <2>4, <1>a, <1>0 DEF WriteDataNothing
  <2> QED BY <1>4, <2>1, <2>2, <2>3, <2>4
<1>5. CASE WriteDataBegin(t) \/ WriteDataLoad(t) \/ WriteDataStore(t)
  BY <1>5 DEF WriteDataBegin, WriteDataLoad, WriteDataStore, Decremented
<1>6. CASE WriteDataCopy(t)
  BY <1>6 DEF WriteDataCopy, PlaceInv, Locked, SlotFilled
<1>7. CASE WriteDataLoop(t)
  <2>1. writeaddr \in Addrs /\ writetid \in Threads
    BY <1>7 DEF WriteDataLoop, PlaceInv, Locked, SlotFilled
  <2>2. sim' \in [Protos -> [Addrs -> Data \cup {NaN}]]
    BY <1>7, <2>1 DEF WriteDataLoop
  <2>3. at' \in [Threads -> Protos]
    <3>1. CASE More(t)
      <4>1. at[t] + 1 \in Protos
        BY <3>1 DEF More, Protos
      <4> QED BY <1>7, <3>1, <4>1 DEF WriteDataLoop, Advance
    <3>2. CASE ~More(t)
      <4>1. 1 \in Protos
        BY DEF Protos
      <4> QED BY <1>7, <3>2, <4>1 DEF WriteDataLoop
    <3> QED BY <3>1, <3>2
  <2>4. pc' \in [Threads -> Labels] /\ globalLock' \in Threads \cup {NULL}
    <3>1. CASE More(t)
      BY <1>7, <3>1 DEF WriteDataLoop
    <3>2. CASE ~More(t)
      <4>1. pc' = [pc EXCEPT ![t] = AfterWriteData(t)] /\ globalLock' = NULL
        BY <1>7, <3>2 DEF WriteDataLoop
      <4> QED BY <4>1, <1>a, <1>0
    <3> QED BY <3>1, <3>2
  <2> QED BY <1>7, <2>2, <2>3, <2>4 DEF WriteDataLoop
<1>8. CASE ReadBegin(t)
  BY <1>8 DEF ReadBegin, PlaceInv
<1>9. CASE ReadLoop(t)
  <2>1. ins[t].addr \in Addrs
    BY <1>9 DEF ReadLoop, PlaceInv
  <2>2. data' \in [Threads -> Data \cup {NaN}]
    BY <1>9, <2>1 DEF ReadLoop
  <2>3. at' \in [Threads -> Protos]
    <3>1. CASE More(t)
      <4>1. at[t] + 1 \in Protos
        BY <3>1 DEF More, Protos
      <4> QED BY <1>9, <3>1, <4>1 DEF ReadLoop, Advance
    <3>2. CASE ~More(t)
      <4>1. 1 \in Protos
        BY DEF Protos
      <4> QED BY <1>9, <3>2, <4>1 DEF ReadLoop
    <3> QED BY <3>1, <3>2
  <2>4. pc' \in [Threads -> Labels] /\ globalLock' \in Threads \cup {NULL}
    BY <1>9 DEF ReadLoop
  <2>5. reported' \in BOOLEAN
    BY <1>9, Zenon DEF ReadLoop
  <2> QED BY <1>9, <2>2, <2>3, <2>4, <2>5 DEF ReadLoop
<1>10. CASE ReadSkip(t) \/ WriteSkip(t) \/ WriteLoad(t) \/ WriteStore(t)
  <2>1. CASE ReadSkip(t)
    BY <2>1 DEF ReadSkip
  <2>2. CASE WriteSkip(t)
    BY <2>2 DEF WriteSkip
  <2>3. CASE WriteLoad(t)
    BY <2>3 DEF WriteLoad
  <2>4. CASE WriteStore(t)
    BY <2>4 DEF WriteStore
  <2> QED BY <1>10, <2>1, <2>2, <2>3, <2>4
<1>11. CASE WriteBegin(t)
  BY <1>11 DEF WriteBegin, PlaceInv
<1> QED BY <1>1, <1>2, <1>3, <1>4, <1>5, <1>6, <1>7, <1>8, <1>9, <1>10, <1>11, Steps

(* A thread enters a place where the lock is held only by taking the lock, *)
(* and gives it back when it leaves.                                       *)
LEMMA LockStep ==
  ASSUME DriverInv, NEW t \in Threads,
         Fetch(t) \/ Execute(t) \/ TurnInstrumentationOn(t) \/ TurnInstrumentationOff(t)
           \/ Callback(t)
  PROVE  LockInv'
<1> USE DriverAssumption DEF DriverInv, GoTo, GetLock, ReleaseLock, LockInv, Locked
<1>0. pc \in [Threads -> Labels]
  BY DEF DriverTypeOK
<1>a. AfterWriteData(t) \in {"read", "write", "execute"}
  BY DEF AfterWriteData, DriverTypeOK
<1>1. CASE \/ Fetch(t) \/ Execute(t) \/ TurnInstrumentationOn(t) \/ TurnInstrumentationOff(t)
           \/ ReadSkip(t) \/ WriteSkip(t)
  BY <1>0, <1>1 DEF Fetch, FirstCallback, Execute, TurnInstrumentationOn,
     TurnInstrumentationOff, TurnInstrumentation, ReadSkip, WriteSkip
<1>2. CASE WriteDataOff(t) \/ WriteDataReset(t) \/ WriteDataNothing(t)
  BY <1>0, <1>a, <1>2 DEF WriteDataOff, WriteDataReset, WriteDataNothing
<1>3. CASE WriteDataTest(t)
  BY <1>0, <1>3 DEF WriteDataTest
<1>4. CASE WriteDataBegin(t) \/ ReadBegin(t) \/ WriteBegin(t)
  BY <1>0, <1>4 DEF WriteDataBegin, ReadBegin, WriteBegin
<1>5. CASE WriteDataCopy(t) \/ WriteDataLoad(t) \/ WriteDataStore(t) \/ WriteLoad(t)
  BY <1>0, <1>5 DEF WriteDataCopy, WriteDataLoad, WriteDataStore, WriteLoad
<1>6. CASE WriteStore(t)
  BY <1>0, <1>6 DEF WriteStore
<1>7. CASE WriteDataLoop(t)
  BY <1>0, <1>a, <1>7 DEF WriteDataLoop
<1>8. CASE ReadLoop(t)
  BY <1>0, <1>8 DEF ReadLoop
<1> QED BY <1>1, <1>2, <1>3, <1>4, <1>5, <1>6, <1>7, <1>8, Steps

(* Only the holder of the lock is at one of its places.                    *)
LEMMA Alone ==
  ASSUME LockInv, NEW t \in Threads, pc[t] \in Locked \/ globalLock = NULL,
         NEW u \in Threads, u # t
  PROVE  pc[u] \notin Locked
BY DriverAssumption DEF LockInv

(* Instructions, loops and the slot.                                       *)
LEMMA PlaceStep ==
  ASSUME DriverInv, NEW t \in Threads,
         Fetch(t) \/ Execute(t) \/ TurnInstrumentationOn(t) \/ TurnInstrumentationOff(t)
           \/ Callback(t)
  PROVE  PlaceInv'
<1> USE DriverAssumption DEF DriverInv, GoTo, GetLock, ReleaseLock, Locked, SlotFilled,
                             program, slot, locals, results
<1>0. /\ pc \in [Threads -> Labels] /\ at \in [Threads -> Protos] /\ LockInv /\ PlaceInv
      /\ ins \in [Threads -> [kind : {"read", "write", "update", "other"},
                              addr : Addrs \cup {NULL}]]
      /\ tmp \in [Threads -> Int] /\ writecount \in Int
  BY DEF DriverTypeOK
<1>1. CASE Fetch(t)
  <2>1. PICK i \in Instructions :
          ins' = [ins EXCEPT ![t] = i] /\ pc' = [pc EXCEPT ![t] = "writeData"]
    BY <1>1 DEF Fetch, FirstCallback
  <2>2. i.kind # "other" => i.addr \in Addrs
    BY DEF Instructions
  <2> QED BY <1>0, <1>1, <2>1, <2>2 DEF Fetch, PlaceInv
<1>2. CASE Execute(t) \/ ReadSkip(t) \/ WriteSkip(t)
  BY <1>0, <1>2 DEF Execute, ReadSkip, WriteSkip, PlaceInv
<1>3. CASE TurnInstrumentationOn(t) \/ TurnInstrumentationOff(t)
  BY <1>0, <1>3 DEF TurnInstrumentationOn, TurnInstrumentationOff, TurnInstrumentation, PlaceInv
<1>a. AfterWriteData(t) =
        IF ins[t].kind = "other" THEN "execute" ELSE IF ins[t].kind = "write" THEN "write" ELSE "read"
  BY <1>0 DEF AfterWriteData
<1>4. CASE WriteDataOff(t) \/ WriteDataNothing(t)
  BY <1>0, <1>4, <1>a DEF WriteDataOff, WriteDataNothing, PlaceInv
<1>5. CASE WriteDataReset(t)
  BY <1>0, <1>5, <1>a DEF WriteDataReset, PlaceInv
<1>6. CASE WriteDataTest(t)
  BY <1>0, <1>6 DEF WriteDataTest, PlaceInv
<1>7. CASE WriteDataBegin(t) \/ WriteDataCopy(t) \/ WriteDataLoad(t) \/ WriteLoad(t)
  BY <1>0, <1>7 DEF WriteDataBegin, Pending, WriteDataCopy, WriteDataLoad, WriteLoad, PlaceInv
<1>8. CASE WriteDataStore(t) \/ WriteStore(t)
  BY <1>0, <1>8 DEF WriteDataStore, WriteStore, PlaceInv
<1>9. CASE ReadBegin(t)
  BY <1>0, <1>9 DEF ReadBegin, PlaceInv
<1>10. CASE WriteBegin(t)
  BY <1>0, <1>10 DEF WriteBegin, PlaceInv
<1>11. CASE WriteDataLoop(t)
  <2>1. CASE More(t)
    BY <1>0, <1>11, <2>1 DEF WriteDataLoop, Advance, PlaceInv
  <2>2. CASE ~More(t)
    BY <1>0, <1>11, <2>2, <1>a DEF WriteDataLoop, PlaceInv
  <2> QED BY <2>1, <2>2
<1>12. CASE ReadLoop(t)
  <2>1. CASE More(t)
    BY <1>0, <1>12, <2>1 DEF ReadLoop, Advance, PlaceInv
  <2>2. CASE ~More(t)
    BY <1>0, <1>12, <2>2 DEF ReadLoop, PlaceInv
  <2> QED BY <2>1, <2>2
<1> QED BY <1>1, <1>2, <1>3, <1>4, <1>5, <1>6, <1>7, <1>8, <1>9, <1>10, <1>11, <1>12, Steps
(* The reset without the lock only lowers a positive count to zero or      *)
(* raises a negative one: it costs the thread that holds the lock at most  *)
(* the unit that it is about to subtract.                                  *)
LEMMA CountStep ==
  ASSUME DriverInv, NEW t \in Threads,
         Fetch(t) \/ Execute(t) \/ TurnInstrumentationOn(t) \/ TurnInstrumentationOff(t)
           \/ Callback(t)
  PROVE  CountInv'
<1> USE DriverAssumption DEF GoTo, GetLock, ReleaseLock, program, slot, locals, results
<1>0. /\ pc \in [Threads -> Labels] /\ tmp \in [Threads -> Int] /\ writecount \in Int
      /\ LockInv /\ CountInv
  BY DEF DriverInv, DriverTypeOK
<1>a. AfterWriteData(t) \in {"read", "write", "execute"}
  BY DEF AfterWriteData, DriverInv, DriverTypeOK
<1>b. \A u \in Threads : u # t /\ (pc[t] \in Locked \/ globalLock = NULL) => pc[u] \notin Locked
  BY <1>0, Alone
<1>1. CASE Fetch(t)
  BY <1>0, <1>1 DEF Fetch, FirstCallback, CountInv
<1>2. CASE Execute(t) \/ ReadSkip(t) \/ WriteSkip(t) \/ ReadBegin(t) \/ WriteBegin(t)
  BY <1>0, <1>2 DEF Execute, ReadSkip, WriteSkip, ReadBegin, WriteBegin, CountInv
<1>3. CASE TurnInstrumentationOn(t) \/ TurnInstrumentationOff(t)
  BY <1>0, <1>3 DEF TurnInstrumentationOn, TurnInstrumentationOff, TurnInstrumentation, CountInv
<1>4. CASE WriteDataOff(t) \/ WriteDataNothing(t)
  BY <1>0, <1>4, <1>a DEF WriteDataOff, WriteDataNothing, CountInv
<1>5. CASE WriteDataReset(t)
  BY <1>0, <1>5, <1>a DEF WriteDataReset, CountInv
<1>6. CASE WriteDataTest(t)
  BY <1>0, <1>6 DEF WriteDataTest, CountInv
<1>7. CASE WriteDataBegin(t) \/ WriteDataCopy(t)
  BY <1>0, <1>7 DEF WriteDataBegin, Pending, WriteDataCopy, CountInv
<1>8. CASE WriteDataLoad(t) \/ WriteLoad(t)
  BY <1>0, <1>8 DEF WriteDataLoad, WriteLoad, CountInv
<1>9. CASE WriteDataStore(t)
  BY <1>0, <1>9, <1>b DEF WriteDataStore, Decremented, CountInv, Locked
<1>10. CASE WriteStore(t)
  BY <1>0, <1>10, <1>b DEF WriteStore, CountInv, Locked
<1>11. CASE WriteDataLoop(t)
  BY <1>0, <1>11, <1>a DEF WriteDataLoop, CountInv
<1>12. CASE ReadLoop(t)
  BY <1>0, <1>12 DEF ReadLoop, CountInv
<1> QED BY <1>1, <1>2, <1>3, <1>4, <1>5, <1>6, <1>7, <1>8, <1>9, <1>10, <1>11, <1>12, Steps

(* The value that a WriteData carries is not touched by another thread:    *)
(* the slot and the thread-local words change only under the lock.         *)
LEMMA ValueStep ==
  ASSUME DriverInv, NEW t \in Threads,
         Fetch(t) \/ Execute(t) \/ TurnInstrumentationOn(t) \/ TurnInstrumentationOff(t)
           \/ Callback(t)
  PROVE  ValueInv'
<1> USE DriverAssumption DEF GoTo, GetLock, ReleaseLock, program, slot, locals, results
<1>0. /\ pc \in [Threads -> Labels] /\ mem \in [Addrs -> Data]
      /\ data \in [Threads -> Data \cup {NaN}] /\ sim \in [Protos -> [Addrs -> Data \cup {NaN}]]
      /\ at \in [Threads -> Protos] /\ LockInv /\ PlaceInv /\ ValueInv
  BY DEF DriverInv, DriverTypeOK
<1>a. AfterWriteData(t) \in {"read", "write", "execute"}
  BY DEF AfterWriteData, DriverInv, DriverTypeOK
<1>b. \A u \in Threads : u # t /\ (pc[t] \in Locked \/ globalLock = NULL) => pc[u] \notin Locked
  BY <1>0, Alone
<1>1. CASE Fetch(t)
  BY <1>0, <1>1 DEF Fetch, FirstCallback, ValueInv, NoCrossTalk
<1>2. CASE Execute(t)
  <2>1. \A a \in Addrs : mem'[a] \in ValuesOf(a)
    BY <1>0, <1>2 DEF Execute, ValueInv, PlaceInv
  <2> QED BY <1>0, <1>2, <2>1 DEF Execute, ValueInv, NoCrossTalk
<1>3. CASE \/ ReadSkip(t) \/ WriteSkip(t) \/ TurnInstrumentationOn(t) \/ TurnInstrumentationOff(t)
  BY <1>0, <1>3 DEF ReadSkip, WriteSkip, TurnInstrumentationOn, TurnInstrumentationOff,
     TurnInstrumentation, ValueInv, NoCrossTalk
<1>4. CASE WriteDataOff(t) \/ WriteDataNothing(t) \/ WriteDataReset(t)
  BY <1>0, <1>4, <1>a DEF WriteDataOff, WriteDataNothing, WriteDataReset, ValueInv, NoCrossTalk
<1>5. CASE WriteDataTest(t)
  BY <1>0, <1>5 DEF WriteDataTest, ValueInv, NoCrossTalk
<1>6. CASE WriteDataBegin(t) \/ WriteDataLoad(t) \/ WriteDataStore(t)
  BY <1>0, <1>6 DEF WriteDataBegin, WriteDataLoad, WriteDataStore, ValueInv, NoCrossTalk
<1>7. CASE WriteDataCopy(t)
  <2>1. writeaddr \in Addrs /\ writetid \in Threads
    BY <1>0, <1>7 DEF WriteDataCopy, PlaceInv, SlotFilled, Locked
  <2>2. data'[writetid] \in ValuesOf(writeaddr)
    BY <1>0, <1>7, <2>1 DEF WriteDataCopy, ValueInv
  <2> QED BY <1>0, <1>7, <1>b, <2>2 DEF WriteDataCopy, ValueInv, NoCrossTalk
<1>8. CASE WriteDataLoop(t)
  <2>1. writeaddr \in Addrs /\ data[writetid] \in ValuesOf(writeaddr)
    BY <1>0, <1>8 DEF WriteDataLoop, PlaceInv, SlotFilled, Locked, ValueInv
  <2>2. NoCrossTalk'
    BY <1>0, <1>8, <2>1 DEF WriteDataLoop, ValueInv, NoCrossTalk
  <2> QED BY <1>0, <1>8, <1>a, <2>1, <2>2 DEF WriteDataLoop, ValueInv
<1>9. CASE ReadBegin(t) \/ WriteBegin(t)
  BY <1>0, <1>9, <1>b DEF ReadBegin, WriteBegin, ValueInv, NoCrossTalk, Locked
<1>10. CASE ReadLoop(t)
  BY <1>0, <1>10, <1>b DEF ReadLoop, ValueInv, NoCrossTalk, Locked
<1>11. CASE WriteLoad(t) \/ WriteStore(t)
  BY <1>0, <1>11 DEF WriteLoad, WriteStore, ValueInv, NoCrossTalk
<1> QED BY <1>1, <1>2, <1>3, <1>4, <1>5, <1>6, <1>7, <1>8, <1>9, <1>10, <1>11, Steps

(* A WriteData brings the containers out of step and, with its last        *)
(* writeLine, back into step.                                              *)
LEMMA StepStep ==
  ASSUME DriverInv, NEW t \in Threads,
         Fetch(t) \/ Execute(t) \/ TurnInstrumentationOn(t) \/ TurnInstrumentationOff(t)
           \/ Callback(t)
  PROVE  StepInv'
<1> USE DriverAssumption DEF GoTo, program, slot, locals, results
<1>0. /\ pc \in [Threads -> Labels] /\ at \in [Threads -> Protos] /\ LockInv /\ PlaceInv
      /\ StepInv /\ sim \in [Protos -> [Addrs -> Data \cup {NaN}]]
  BY DEF DriverInv, DriverTypeOK
<1>a. AfterWriteData(t) # "wdLoop"
  BY DEF AfterWriteData, DriverInv, DriverTypeOK
<1>b. ASSUME pc[t] \in Locked \/ globalLock = NULL, NEW u \in Threads, u # t
      PROVE  pc[u] # "wdLoop"
  BY <1>0, <1>b, Alone DEF Locked
<1>c. ASSUME \A u \in Threads : pc'[u] = "wdLoop" <=> pc[u] = "wdLoop",
             UNCHANGED <<sim, at, writeaddr, writetid, data>>
      PROVE  StepInv'
  BY <1>0, <1>c DEF StepInv, SameButLoop
<1>d. ASSUME \A u \in Threads : pc[u] # "wdLoop" /\ pc'[u] # "wdLoop", UNCHANGED sim
      PROVE  StepInv'
  BY <1>0, <1>d DEF StepInv
<1>1. CASE Fetch(t)
  BY <1>0, <1>1, <1>c DEF Fetch, FirstCallback
<1>2. CASE Execute(t) \/ ReadSkip(t) \/ WriteSkip(t)
  BY <1>0, <1>2, <1>c DEF Execute, ReadSkip, WriteSkip
<1>3. CASE TurnInstrumentationOn(t) \/ TurnInstrumentationOff(t)
  BY <1>0, <1>3, <1>c DEF TurnInstrumentationOn, TurnInstrumentationOff, TurnInstrumentation
<1>4. CASE WriteDataOff(t) \/ WriteDataNothing(t) \/ WriteDataReset(t)
  BY <1>0, <1>4, <1>a, <1>c DEF WriteDataOff, WriteDataNothing, WriteDataReset
<1>5. CASE WriteDataTest(t) \/ WriteDataBegin(t)
  BY <1>0, <1>5, <1>c DEF WriteDataTest, WriteDataBegin
<1>6. CASE WriteDataLoad(t) \/ WriteLoad(t) \/ WriteStore(t)
  BY <1>0, <1>6, <1>c DEF WriteDataLoad, WriteLoad, WriteStore
<1>7. CASE WriteDataCopy(t) \/ ReadBegin(t) \/ WriteBegin(t)
  BY <1>0, <1>7, <1>b, <1>d DEF WriteDataCopy, ReadBegin, WriteBegin, GetLock, Locked
<1>8. CASE ReadLoop(t)
  BY <1>0, <1>8, <1>b, <1>d DEF ReadLoop, Locked
<1>9. CASE WriteDataStore(t)
  <2>1. at[t] = 1 /\ \A u \in Threads : pc[u] # "wdLoop"
    BY <1>0, <1>9, <1>b DEF WriteDataStore, PlaceInv, Locked
  <2>2. \A i, j \in Protos : sim'[i] = sim[i] /\ sim[i] = sim[j]
    BY <1>0, <1>9, <2>1 DEF WriteDataStore, StepInv
  <2>3. at' = at /\ pc'[t] = "wdLoop" /\ \A u \in Threads : pc'[u] = "wdLoop" => u = t
    BY <1>0, <1>9, <2>1 DEF WriteDataStore
  <2>4. \A i \in Protos : ~(i < at'[t])
    BY <2>1, <2>3 DEF Protos
  <2> QED BY <2>2, <2>3, <2>4 DEF StepInv, SameButLoop
<1>10. CASE WriteDataLoop(t)
  <2> DEFINE n == at[t]
  <2>1. /\ n \in Protos /\ writeaddr \in Addrs /\ pc[t] = "wdLoop"
        /\ UNCHANGED <<writeaddr, writetid, data>>
    BY <1>0, <1>10 DEF WriteDataLoop, PlaceInv, SlotFilled, Locked
  <2>2. \A u \in Threads : u # t => pc[u] # "wdLoop" /\ pc'[u] # "wdLoop"
    BY <1>0, <1>10, <1>b, <2>1 DEF WriteDataLoop, Locked
  <2>3. sim' = [sim EXCEPT ![n][writeaddr] = data[writetid]]
    BY <1>10 DEF WriteDataLoop
  <2>4. ASSUME NEW i \in Protos, NEW a \in Addrs
        PROVE  sim'[i][a] = IF i = n /\ a = writeaddr THEN data[writetid] ELSE sim[i][a]
    BY <1>0, <2>1, <2>3
  <2>5. SameButLoop(t) /\ \A i \in Protos : i < n => sim[i][writeaddr] = data[writetid]
    BY <1>0, <2>1 DEF StepInv
  <2>6. ASSUME NEW i \in Protos, i <= n  PROVE sim'[i][writeaddr] = data[writetid]
    BY <2>1, <2>4, <2>5, <2>6 DEF Protos
  <2>7. ASSUME NEW i \in Protos, NEW j \in Protos, NEW a \in Addrs,
               a = writeaddr => (i <= n <=> j <= n)
        PROVE  sim'[i][a] = sim'[j][a]
    <3>1. CASE a # writeaddr
      BY <2>4, <2>5, <3>1 DEF SameButLoop
    <3>2. CASE a = writeaddr /\ i <= n
      BY <2>6, <2>7, <3>2
    <3>3. CASE a = writeaddr /\ ~(i <= n)
      BY <2>1, <2>4, <2>5, <2>7, <3>3 DEF SameButLoop, Protos
    <3> QED BY <3>1, <3>2, <3>3
  <2>8. CASE More(t)
    <3>1. at'[t] = n + 1 /\ pc' = pc
      BY <1>0, <1>10, <2>8 DEF WriteDataLoop, Advance
    <3>2. \A i \in Protos : i < at'[t] <=> i <= n
      BY <2>1, <3>1 DEF Protos
    <3>3. SameButLoop(t)'
      BY <2>1, <2>7, <3>2 DEF SameButLoop
    <3>4. \A i \in Protos : i < at'[t] => sim'[i][writeaddr'] = data'[writetid']
      BY <2>1, <2>6, <3>2
    <3> QED BY <2>1, <2>2, <3>1, <3>3, <3>4 DEF StepInv
  <2>9. CASE ~More(t)
    <3>1. \A i \in Protos : i <= n
      BY <2>1, <2>9 DEF More, Protos
    <3>2. \A i, j \in Protos, a \in Addrs : sim'[i][a] = sim'[j][a]
      BY <2>7, <3>1
    <3>3. sim' \in [Protos -> [Addrs -> Data \cup {NaN}]]
      BY TypeStep DEF DriverTypeOK
    <3>4. \A i, j \in Protos : sim'[i] = sim'[j]
      BY <3>2, <3>3
    <3>5. pc'[t] # "wdLoop"
      BY <1>0, <1>10, <1>a, <2>9 DEF WriteDataLoop
    <3> QED BY <2>2, <3>4, <3>5 DEF StepInv
  <2> QED BY <2>8, <2>9
<1> QED BY <1>1, <1>2, <1>3, <1>4, <1>5, <1>6, <1>7, <1>8, <1>9, <1>10, Steps

(* DriverInv is inductive.                                                 *)
LEMMA DriverNext == DriverInv /\ [Next]_vars => DriverInv'
<1>1. ASSUME DriverInv, NEW t \in Threads,
             Fetch(t) \/ Execute(t) \/ TurnInstrumentationOn(t) \/ TurnInstrumentationOff(t)
               \/ Callback(t)
      PROVE  DriverInv'
  <2>1. DriverTypeOK' /\ LockInv' /\ PlaceInv'
    BY <1>1, TypeStep, LockStep, PlaceStep
  <2>2. CountInv' /\ ValueInv' /\ StepInv'
    BY <1>1, CountStep, ValueStep, StepStep
  <2> QED BY <2>1, <2>2 DEF DriverInv
<1>2. ASSUME DriverInv, UNCHANGED vars
      PROVE  DriverInv'
  BY <1>2 DEF DriverInv, DriverTypeOK, LockInv, PlaceInv, SlotFilled, CountInv, ValueInv,
     NoCrossTalk, StepInv, SameButLoop, More, vars
<1> QED BY <1>1, <1>2 DEF Next

(* So it always holds.                                                     *)
LEMMA DriverInvariant == Spec => []DriverInv
BY DriverInit, DriverNext, PTL DEF Spec

-----------------------------------------------------------------------------
(* Every variable keeps its type, and a loop over the containers never     *)
(* passes the last one, for any number of threads and containers.          *)
THEOREM DriverTypeCorrect == Spec => []DriverTypeOK
<1>1. DriverInv => DriverTypeOK
  BY DEF DriverInv
<1> QED BY <1>1, DriverInvariant, PTL

(* The lock around Write and WriteData keeps address, thread and value of  *)
(* a write together: no container ever holds at an address a value that    *)
(* the program stored at another one.                                      *)
THEOREM NoCrossTalkEver == Spec => []NoCrossTalk
<1>1. DriverInv => NoCrossTalk
  BY DEF DriverInv, ValueInv
<1> QED BY <1>1, DriverInvariant, PTL

(* Between critical sections the containers agree: every protocol is       *)
(* simulated on the same run.                                              *)
THEOREM InStep == Spec => []ContainersInStep
<1>1. ASSUME DriverInv PROVE ContainersInStep
  <2>1. SUFFICES ASSUME globalLock = NULL PROVE \A i, j \in Protos : sim[i] = sim[j]
    BY DEF ContainersInStep
  <2>2. \A t \in Threads : pc[t] # "wdLoop"
    BY <1>1, <2>1, DriverAssumption DEF DriverInv, LockInv, Locked
  <2> QED BY <1>1, <2>2 DEF DriverInv, StepInv
<1>2. DriverInv => ContainersInStep
  BY <1>1
<1> QED BY <1>2, DriverInvariant, PTL

(* However the resets without the lock fall, the count of pending writes   *)
(* never owes more than one.                                               *)
THEOREM OwesOne == Spec => []OwesAtMostOne
<1>1. DriverInv => OwesAtMostOne
  BY DEF DriverInv, CountInv, OwesAtMostOne
<1> QED BY <1>1, DriverInvariant, PTL

-----------------------------------------------------------------------------
(* A single thread.                                                        *)

(* The slot holds one write at most, from the announcement to the next     *)
(* WriteData; what this one carries out is not on the stack.               *)
SoloInv(t) ==
  /\ writecount \in {0, 1}
  /\ pc[t] \in {"read", "write"} /\ instrumentationStatus[t] => writecount = 0
  /\ pc[t] \in {"wdLoop", "rdLoop", "wrLoad", "wrStore"} => writecount = 0
  /\ pc[t] \in {"wdCopy", "wdLoad", "wdStore"} => writecount = 1
  /\ pc[t] = "wdStore" => tmp[t] = 1
  /\ pc[t] = "wrStore" => tmp[t] = 0
  /\ pc[t] \in {"wdLock", "wdCopy", "wdLoad", "wdStore", "wdLoop"} => ~IsStack(writeaddr)
  /\ StackIgnored

(* It holds at the start.                                                  *)
LEMMA SoloInit == ASSUME NEW t, Threads = {t}, Init PROVE SoloInv(t)
BY DriverAssumption DEF Init, SoloInv, StackIgnored, Addrs

(* Every step of the thread keeps it.                                      *)
LEMMA SoloStep ==
  ASSUME NEW t, Threads = {t}, DriverInv, SoloInv(t),
         Fetch(t) \/ Execute(t) \/ TurnInstrumentationOn(t) \/ TurnInstrumentationOff(t)
           \/ Callback(t)
  PROVE  SoloInv(t)'
<1> USE DriverAssumption DEF GoTo, GetLock, ReleaseLock, program, slot, locals, results
<1>0. /\ pc \in [Threads -> Labels] /\ tmp \in [Threads -> Int] /\ t \in Threads
      /\ instrumentationStatus \in [Threads -> BOOLEAN] /\ SoloInv(t)
  BY DEF DriverInv, DriverTypeOK
<1>a. AfterWriteData(t) \in {"read", "write", "execute"}
  BY <1>0 DEF AfterWriteData, DriverInv, DriverTypeOK
<1>1. CASE Fetch(t)
  BY <1>0, <1>1 DEF Fetch, FirstCallback, SoloInv, StackIgnored
<1>2. CASE Execute(t) \/ ReadSkip(t) \/ WriteSkip(t) \/ ReadBegin(t)
  BY <1>0, <1>2 DEF Execute, ReadSkip, WriteSkip, ReadBegin, SoloInv, StackIgnored
<1>3. CASE TurnInstrumentationOn(t) \/ TurnInstrumentationOff(t)
  BY <1>0, <1>3 DEF TurnInstrumentationOn, TurnInstrumentationOff, TurnInstrumentation,
                    SoloInv, StackIgnored
<1>4. CASE WriteDataOff(t) \/ WriteDataNothing(t)
  BY <1>0, <1>4, <1>a DEF WriteDataOff, WriteDataNothing, Pending, SoloInv, StackIgnored
<1>5. CASE WriteDataReset(t)
  BY <1>0, <1>5, <1>a DEF WriteDataReset, SoloInv, StackIgnored
<1>6. CASE WriteDataTest(t)
  BY <1>0, <1>6 DEF WriteDataTest, PendingOnStack, SoloInv, StackIgnored
<1>7. CASE WriteDataBegin(t) \/ WriteDataCopy(t)
  BY <1>0, <1>7 DEF WriteDataBegin, Pending, WriteDataCopy, SoloInv, StackIgnored
<1>8. CASE WriteDataLoad(t) \/ WriteLoad(t)
  BY <1>0, <1>8 DEF WriteDataLoad, WriteLoad, SoloInv, StackIgnored
<1>9. CASE WriteDataStore(t)
  BY <1>0, <1>9 DEF WriteDataStore, Decremented, SoloInv, StackIgnored
<1>10. CASE WriteBegin(t)
  BY <1>0, <1>10 DEF WriteBegin, SoloInv, StackIgnored
<1>11. CASE WriteStore(t)
  BY <1>0, <1>11 DEF WriteStore, SoloInv, StackIgnored
<1>12. CASE WriteDataLoop(t)
  <2>1. \A i \in Protos, a \in Stack : sim'[i][a] = NaN
    <3>1. /\ sim \in [Protos -> [Addrs -> Data \cup {NaN}]] /\ at[t] \in Protos
          /\ sim' = [sim EXCEPT ![at[t]][writeaddr] = data[writetid]]
      BY <1>0, <1>12 DEF WriteDataLoop, DriverInv, DriverTypeOK
    <3>2. writeaddr \notin Stack /\ \A i \in Protos, a \in Stack : sim[i][a] = NaN
      BY <1>0, <1>12 DEF WriteDataLoop, SoloInv, StackIgnored, IsStack
    <3>3. \A i \in Protos, a \in Stack : sim'[i][a] = sim[i][a]
      BY <3>1, <3>2 DEF Addrs
    <3> QED BY <3>2, <3>3
  <2> QED BY <1>0, <1>12, <1>a, <2>1 DEF WriteDataLoop, SoloInv, StackIgnored
<1>13. CASE ReadLoop(t)
  BY <1>0, <1>13 DEF ReadLoop, SoloInv, StackIgnored
<1> QED BY <1>0, <1>1, <1>2, <1>3, <1>4, <1>5, <1>6, <1>7, <1>8, <1>9, <1>10, <1>11, <1>12, <1>13,
           Steps

(* So it always holds.                                                     *)
LEMMA SoloInvariant == ASSUME NEW t, Threads = {t} PROVE Spec => [](DriverInv /\ SoloInv(t))
<1>1. Init => SoloInv(t)
  BY SoloInit
<1>2. DriverInv /\ SoloInv(t) /\ [Next]_vars => SoloInv(t)'
  <2>1. ASSUME DriverInv, SoloInv(t), Next PROVE SoloInv(t)'
    BY <2>1, SoloStep DEF Next
  <2>2. ASSUME SoloInv(t), UNCHANGED vars PROVE SoloInv(t)'
    BY <2>2 DEF vars, SoloInv, StackIgnored
  <2> QED BY <2>1, <2>2
<1> QED BY <1>1, <1>2, DriverInvariant, PTL DEF Spec

(* With a single thread a write is carried out or dropped before another   *)
(* one is announced: WriteData comes before every instruction.             *)
THEOREM OnePendingWrite == ASSUME NEW t, Threads = {t} PROVE Spec => []AtMostOnePending
<1>1. SoloInv(t) => AtMostOnePending
  BY DEF SoloInv, AtMostOnePending
<1> QED BY <1>1, SoloInvariant, PTL

(* With a single thread the test of the pending address, which is made     *)
(* before the lock is taken, keeps the stack out of the containers.        *)
THEOREM StackStaysOut == ASSUME NEW t, Threads = {t} PROVE Spec => []StackIgnored
<1>1. SoloInv(t) => StackIgnored
  BY DEF SoloInv
<1> QED BY <1>1, SoloInvariant, PTL

(* Outside the stack a container holds what the program's memory holds     *)
(* where the program has stored something, and nothing elsewhere, but for  *)
(* a write that is pending or that a WriteData is carrying out.            *)
InMemory(a) == IF a \in written THEN mem[a] ELSE NaN
Fresh(t) ==
  \A i \in Protos, a \in Heap :
    \/ sim[i][a] = InMemory(a)
    \/ a = writeaddr /\ (writecount = 1 \/ (pc[t] = "wdLoop" /\ at[t] <= i))
FreshInv(t) ==
  /\ instrumentationStatus[t] /\ ins[t].kind # "update"
  /\ pc[t] \in {"wrLoad", "wrStore"} => writeaddr = ins[t].addr
  /\ pc[t] = "execute" /\ ins[t].kind = "write" => writecount = 1 /\ writeaddr = ins[t].addr
  /\ pc[t] = "execute" /\ ins[t].kind # "write" => writecount = 0
  /\ pc[t] # "execute" /\ (writecount = 1 \/ pc[t] = "wdLoop") => writeaddr \in written
  /\ pc[t] = "rdLoop" => ins[t].addr \in Heap
  /\ pc[t] = "wdReset" => IsStack(writeaddr)
  /\ pc[t] \in {"wdLoad", "wdStore", "wdLoop"} => data[writetid] = mem[writeaddr]
  /\ Fresh(t)

(* Every step of the thread keeps it.                                      *)
LEMMA FreshStep ==
  ASSUME NEW t, Threads = {t}, InstrumentAll, "update" \notin Kinds,
         DriverInv, SoloInv(t), FreshInv(t),
         Fetch(t) \/ Execute(t) \/ TurnInstrumentationOn(t) \/ TurnInstrumentationOff(t)
           \/ Callback(t),
         written' = written \cup {ins[u].addr : u \in Storing}
  PROVE  FreshInv(t)'
<1> USE DriverAssumption DEF GoTo, GetLock, ReleaseLock, program, slot, locals, results
<1>0. /\ pc \in [Threads -> Labels] /\ tmp \in [Threads -> Int] /\ t \in Threads
      /\ at \in [Threads -> Protos] /\ mem \in [Addrs -> Data]
      /\ data \in [Threads -> Data \cup {NaN}]
      /\ ins \in [Threads -> [kind : {"read", "write", "update", "other"}, addr : Addrs \cup {NULL}]]
      /\ sim \in [Protos -> [Addrs -> Data \cup {NaN}]]
      /\ SoloInv(t) /\ FreshInv(t) /\ PlaceInv /\ Heap \subseteq Addrs
  BY DEF DriverInv, DriverTypeOK, Addrs
<1>a. /\ AfterWriteData(t) \in {"read", "write", "execute"}
      /\ AfterWriteData(t) = "execute" => ins[t].kind # "write"
  BY <1>0 DEF AfterWriteData
<1>b. pc[t] # "execute" => written' = written
  <2>1. pc[t] # "execute" => Storing = {}
    BY DEF Storing
  <2> QED BY <2>1
<1>1. CASE Fetch(t)
  <2>1. PICK i \in Instructions : ins' = [ins EXCEPT ![t] = i]
    BY <1>1 DEF Fetch
  <2>2. ins'[t].kind # "update"
    BY <1>0, <2>1 DEF Instructions
  <2>3. pc[t] = "fetch" /\ pc'[t] = "writeData" /\ written' = written
    BY <1>0, <1>1, <1>b DEF Fetch, FirstCallback
  <2> QED BY <1>0, <1>1, <2>2, <2>3 DEF Fetch, FreshInv, Fresh, InMemory
<1>2. CASE Execute(t)
  <2>1. pc[t] = "execute" /\ pc'[t] = "fetch"
    BY <1>0, <1>2 DEF Execute
  <2>2. /\ sim' = sim /\ writeaddr' = writeaddr /\ writecount' = writecount /\ ins' = ins
        /\ instrumentationStatus' = instrumentationStatus
    BY <1>2 DEF Execute
  <2>3. CASE ins[t].kind = "write"
    <3>1. writecount = 1 /\ writeaddr = ins[t].addr
      BY <1>0, <2>1, <2>3 DEF FreshInv
    <3>2. PICK v : mem' = [mem EXCEPT ![ins[t].addr] = v]
      BY <1>2, <2>3 DEF Execute
    <3>3. written' = written \cup {writeaddr}
      <4>1. Storing = {t}
        BY <1>0, <2>1, <2>3 DEF Storing
      <4> QED BY <3>1, <4>1
    <3>4. \A a \in Heap : a # writeaddr => InMemory(a)' = InMemory(a)
      BY <1>0, <3>1, <3>2, <3>3 DEF InMemory
    <3>5. Fresh(t)'
      BY <1>0, <2>2, <3>1, <3>4 DEF FreshInv, Fresh
    <3> QED BY <1>0, <2>1, <2>2, <3>3, <3>5 DEF FreshInv
  <2>4. CASE ins[t].kind # "write"
    <3>1. mem' = mem /\ writecount = 0
      BY <1>0, <1>2, <2>1, <2>4 DEF Execute, FreshInv
    <3>2. written' = written
      <4>1. Storing = {}
        BY <1>0, <2>4 DEF Storing, FreshInv
      <4> QED BY <4>1
    <3>3. Fresh(t)'
      BY <1>0, <2>1, <2>2, <3>1, <3>2 DEF FreshInv, Fresh, InMemory
    <3> QED BY <1>0, <2>1, <2>2, <3>1, <3>3 DEF FreshInv
  <2> QED BY <2>3, <2>4
<1>3. CASE TurnInstrumentationOn(t) \/ TurnInstrumentationOff(t)
  BY <1>3 DEF TurnInstrumentationOn, TurnInstrumentationOff, TurnInstrumentation
<1>4. CASE ReadSkip(t) \/ WriteSkip(t)
  BY <1>0, <1>4, <1>b DEF ReadSkip, WriteSkip, FreshInv, Fresh, InMemory, PlaceInv, SoloInv
<1>5. CASE ReadBegin(t)
  <2>1. pc[t] = "read" /\ ins[t].addr \in Heap
    BY <1>0, <1>5 DEF ReadBegin, PlaceInv, IsStack, Addrs
  <2> QED BY <1>0, <1>5, <1>b, <2>1 DEF ReadBegin, FreshInv, Fresh, InMemory, SoloInv
<1>6. CASE WriteDataOff(t) \/ WriteDataNothing(t)
  BY <1>0, <1>6, <1>a, <1>b
     DEF WriteDataOff, WriteDataNothing, Pending, FreshInv, Fresh, InMemory, SoloInv
<1>7. CASE WriteDataReset(t)
  <2>1. writeaddr \notin Heap
    BY <1>0, <1>7 DEF WriteDataReset, FreshInv, IsStack
  <2> QED BY <1>0, <1>7, <1>a, <1>b, <2>1 DEF WriteDataReset, FreshInv, Fresh, InMemory
<1>8. CASE WriteDataTest(t)
  BY <1>0, <1>8, <1>b DEF WriteDataTest, PendingOnStack, FreshInv, Fresh, InMemory
<1>9. CASE WriteDataBegin(t) \/ WriteDataLoad(t)
  BY <1>0, <1>9, <1>b DEF WriteDataBegin, WriteDataLoad, FreshInv, Fresh, InMemory
<1>10. CASE WriteDataCopy(t)
  <2>1. writetid \in Threads
    BY <1>0, <1>10 DEF WriteDataCopy, PlaceInv, SlotFilled, Locked
  <2> QED BY <1>0, <1>10, <1>b, <2>1 DEF WriteDataCopy, FreshInv, Fresh, InMemory
<1>11. CASE WriteDataStore(t)
  <2>1. at[t] = 1 /\ \A i \in Protos : at[t] <= i
    BY <1>0, <1>11 DEF WriteDataStore, PlaceInv, Protos
  <2> QED BY <1>0, <1>11, <1>b, <2>1 DEF WriteDataStore, FreshInv, Fresh, InMemory, SoloInv
<1>12. CASE WriteDataLoop(t)
  <2>1. /\ pc[t] = "wdLoop" /\ writecount = 0 /\ writeaddr \in Addrs /\ writeaddr \in written
        /\ written' = written /\ mem' = mem
        /\ sim' = [sim EXCEPT ![at[t]][writeaddr] = mem[writeaddr]]
    BY <1>0, <1>12, <1>b DEF WriteDataLoop, FreshInv, SoloInv, PlaceInv, SlotFilled, Locked
  <2>2. \A i \in Protos, a \in Heap :
          sim'[i][a] = IF i = at[t] /\ a = writeaddr THEN mem[writeaddr] ELSE sim[i][a]
    BY <1>0, <2>1
  <2>3. \A i \in Protos, a \in Heap :
          sim'[i][a] = InMemory(a)' \/ (a = writeaddr /\ at[t] + 1 <= i)
    <3> SUFFICES ASSUME NEW i \in Protos, NEW a \in Heap
                 PROVE  sim'[i][a] = InMemory(a) \/ (a = writeaddr /\ at[t] + 1 <= i)
      BY <2>1 DEF InMemory
    <3>1. sim[i][a] = InMemory(a) \/ (a = writeaddr /\ at[t] <= i)
      BY <1>0, <2>1 DEF FreshInv, Fresh
    <3>2. i \in Int /\ at[t] \in Int
      BY <1>0 DEF Protos
    <3>3. CASE i = at[t] /\ a = writeaddr
      BY <2>1, <2>2, <3>3 DEF InMemory
    <3>4. CASE ~(i = at[t] /\ a = writeaddr)
      <4>1. sim'[i][a] = sim[i][a]
        BY <2>2, <3>4
      <4>2. at[t] <= i /\ i # at[t] => at[t] + 1 <= i
        BY <3>2
      <4> QED BY <3>1, <3>4, <4>1, <4>2
    <3> QED BY <3>3, <3>4
  <2>4. CASE More(t)
    BY <1>0, <1>12, <2>1, <2>3, <2>4 DEF WriteDataLoop, Advance, FreshInv, Fresh
  <2>5. CASE ~More(t)
    <3>1. \A i \in Protos : ~(at[t] + 1 <= i)
      BY <1>0, <2>5 DEF More, Protos
    <3> QED BY <1>0, <1>12, <1>a, <2>1, <2>3, <2>5, <3>1 DEF WriteDataLoop, FreshInv, Fresh
  <2> QED BY <2>4, <2>5
<1>13. CASE ReadLoop(t)
  <2>1. /\ pc[t] = "rdLoop" /\ pc'[t] \in {"rdLoop", "execute"} /\ ins[t].kind # "write"
        /\ writecount = 0
        /\ UNCHANGED <<sim, mem, ins, instrumentationStatus, writeaddr, writecount, written>>
    BY <1>0, <1>13, <1>b DEF ReadLoop, PlaceInv, SoloInv
  <2> QED BY <1>0, <2>1 DEF FreshInv, Fresh, InMemory
<1>14. CASE WriteBegin(t)
  BY <1>0, <1>14, <1>b DEF WriteBegin, FreshInv, Fresh, InMemory, SoloInv
<1>15. CASE WriteLoad(t)
  BY <1>0, <1>15, <1>b DEF WriteLoad, FreshInv, Fresh, InMemory, SoloInv
<1>16. CASE WriteStore(t)
  BY <1>0, <1>16, <1>b DEF WriteStore, FreshInv, Fresh, InMemory, SoloInv, PlaceInv
<1> QED BY <1>0, <1>1, <1>2, <1>3, <1>4, <1>5, <1>6, <1>7, <1>8, <1>9, <1>10, <1>11, <1>12, <1>13,
           <1>14, <1>15, <1>16, Steps

(* What a container returns to a read of a single thread is what this      *)
(* thread is about to read where it has stored something, and INT_NAN      *)
(* where it has not.  The program is instrumented throughout and has no    *)
(* instruction that both reads and writes memory: such a store is never    *)
(* announced.                                                              *)
THEOREM ReadsAreTheProgram ==
  ASSUME NEW t, Threads = {t}, InstrumentAll, "update" \notin Kinds
  PROVE  HistorySpec => []ReadsSeeTheProgram
<1>1. HistoryInit => Init /\ FreshInv(t)
  BY DriverAssumption DEF HistoryInit, Init, FreshInv, Fresh, InMemory, Addrs
<1>2. [HistoryNext]_historyVars => [Next]_vars
  BY DEF HistoryNext, historyVars
<1>3. DriverInv /\ SoloInv(t) /\ FreshInv(t) /\ [HistoryNext]_historyVars => FreshInv(t)'
  <2>1. ASSUME DriverInv, SoloInv(t), FreshInv(t), HistoryNext PROVE FreshInv(t)'
    BY <2>1, FreshStep DEF HistoryNext, Next
  <2>2. ASSUME FreshInv(t), UNCHANGED historyVars PROVE FreshInv(t)'
    BY <2>2 DEF historyVars, vars, FreshInv, Fresh, InMemory
  <2> QED BY <2>1, <2>2
<1>4. DriverInv /\ SoloInv(t) /\ FreshInv(t) => ReadsSeeTheProgram
  <2> SUFFICES ASSUME DriverInv, SoloInv(t), FreshInv(t), pc[t] = "rdLoop", NEW i \in Protos
               PROVE  sim[i][ins[t].addr] = InMemory(ins[t].addr)
    BY DEF ReadsSeeTheProgram, InMemory
  <2> QED BY DEF SoloInv, FreshInv, Fresh
<1>5. Spec => [](DriverInv /\ SoloInv(t))
  BY SoloInvariant
<1> QED BY <1>1, <1>2, <1>3, <1>4, <1>5, PTL DEF HistorySpec, Spec
=============================================================================
