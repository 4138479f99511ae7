# Verification of the multi-cache simulator (pin_mcs)

The program is a Pin tool that feeds the memory accesses of a multithreaded
program to a simulated cache hierarchy: private caches that keep each other
coherent with an MSI snooping protocol, one last-level cache (LLC) below them,
and a cache that stands for main memory below that.  Unlike most cache
simulators it carries the *data* through the hierarchy, so that a coherence bug
shows as a wrong value and not only as a wrong statistic.

This directory holds TLA+ models of that code, their TLC configurations, and
proofs checked by TLAPS.  All paths below are relative to the repository.

## 1. Inventory

| Component | State | Operations | Status |
| --- | --- | --- | --- |
| **Tag store**: `CacheCore.h/.cpp`, `MSI_SMPCacheState.h` | per set, an array of line pointers in LRU order; per line tag, protocol state, `islineInvalid`, data words | `findLine` (moves the line to the front), `findLine2Replace`, `setTag`, `setData`, `changeStateTo`, `invalidate` | modelled |
| **MSI protocol**: `MSI_SMPCache.h/.cpp` | a tag store per cache, pointers to siblings and parent, counters | `readWord`, `writeWord` (CPU side), `readLine`, `writeLine` (from the level above), `fillLine`, `readRemoteAction`, `writeRemoteAction` | modelled |
| **Base class**: `SMPCache.h/.cpp` | 19 counters | counters, `getStateAsInt`, printing | modelled (printing changes no state) |
| **Container**: `MultiCacheSim.h/.cpp`, `CacheInterface.h` | vectors of caches for three levels, three locks | `createNewCache`, `createLLC`, `createMain`, `readLine`, `writeLine`, `tidToCPUId`, `findCacheByCPUId`, `getStateAsInt` | modelled |
| **Pin tool**: `MultiCacheSim_PinDriver.cpp` | instrumentation flag per thread, thread-local data word, one pending write (address, thread, count), `globalLock`, list of containers, optional reference container | `Read`, `Write`, `WriteData`, `TurnInstrumentationOn/Off`, `threadBegin`, `main`, `Fini` | partly: all but thread start and end, the comparison with the reference and printing |
| **MESI protocol**: `MESI_SMPCache.h/.cpp`, `MESI_SMPCacheState.h` | a tag store per cache | `readLine`, `writeLine`, `fillLine`, the two snoops; no data, no parent | modelled (but for its counters; not in the build, `makefile.rules:126-128`) |
| **Bit arithmetic**: `Snippets.h/.cpp` | none | `log2i`, `roundUpPower2` | modelled |
| `CompressionModule`, `nanassert`, `estl`, `CacheTestDriver`, tests, microbenchmarks, scripts | | | not modelled (section 8) |

How they interact: Pin calls the driver's callbacks on the program's threads.
A callback takes `globalLock` and calls `readLine` or `writeLine` of a
container, which takes its own `privateCachesLock`, maps the thread to a CPU
(`tid % num_caches`) and calls `readWord` or `writeWord` of that CPU's private
cache.  The cache looks the line up, snoops its siblings by direct access to
their tag stores, calls `readLine` of its parent when nobody has the line, and
fills; a fill that evicts calls `writeLine` of the parent, which may fill and
evict in turn.  All of this happens inside one access.

What is hard:

* *Coherence by side effect.* A lookup reorders the row it searches, whoever
  asks and whether or not it hits.  A snoop therefore changes the victim of a
  sibling's next fill.
* *Two notions of a dead line.* Lookups and evictions test `islineInvalid`, the
  protocol tests `state`; three different functions write them.
* *Pointers across changes.* `readWord` reads its result through the line
  pointer it took before the snoop, the fetch and the fill.
* *Data without a dirty bit.* A modified line that another CPU reads becomes
  shared without a write-back.  The data survives only because shared lines are
  written back too.
* *Nested levels.* One miss may cause fills at three levels with three
  write-backs, each of which may fill and evict.
* *One lock for everything.*  An access is a lookup, a snoop of other caches' rows,
  a request to the level below and a fill, with pointers and data carried from one
  to the next.  Nothing but `privateCachesLock` keeps other threads out, and the
  state probe `getStateAsInt` does not take it.
* *Construction.*  Parents are set after their children exist, sizes follow from
  the logarithm of the number of caches, and indices from logarithms that are
  rounded up.
* *MESI without data.*  `islineInvalid` is cleared only when data is stored, which
  the MESI protocol never does: a lookup cannot tell a live line from a dead one.
* *The driver.* A write is announced in one callback and carried out by a later
  one, of any thread, through a single global slot.

`PROJECT.json` lists these and the others under `hazards`, each at its line,
with the properties that watch it, or a note saying why none does.

What makes each component correct:

* tag store: a tag is live at most once in a row; the flags agree; a fill takes
  a free line if there is one and otherwise the least recently used one;
* protocol: single writer or many equal readers; every read returns the last
  value written; the three levels together behave as one memory; data is lost
  only when main memory itself is full;
* statistics: every write-back sent arrives, a miss goes to the next level
  exactly when nobody nearer serves it, and a miss is called a sharing miss only
  if somebody's write caused it;
* container: the lock makes an access atomic and always comes back (but from a thread whose
  id is negative as an int, section 3); the caches are
  coherent at every point of an access; every read returns the memory's word; the
  lock-free probe of the line just used disturbs nothing;
* construction: every row lies inside the array of lines, tags, sets and offsets fit
  together, the levels have equally many sets and the right parents;
* MESI: an exclusive or modified copy is alone; a lookup finds the valid copy;
* driver: address, thread and value of a write stay together; all containers see
  the same writes; the lock comes back; a single thread's writes all arrive before
  its next read, except those to its stack; a wrong value is reported.

## 2. Modules

| Module | What it is |
| --- | --- |
| `CacheCore` | the tag store as operators on one row of lines |
| `MSI_SMPCache` | the protocol over the three levels: the state machine, an access per step |
| `CoherentMemory` | the abstract specification of data: one memory, and what a read and a write do to it |
| `MSI_Properties` | invariants, action properties, accounting, refinement |
| `MCMSI_SMPCache` | constants and symmetry for TLC |
| `ContainerAccess` | the container's threads inside their accesses, on the operators of `MSI_SMPCache` |
| `ContainerAccess_Properties` | its invariants, atomicity, liveness, refinement |
| `MCContainerAccess` | constants for TLC |
| `Snippets` | `log2i` and `roundUpPower2` on machine words |
| `Construction` | `main` building the containers and the reference |
| `Construction_Properties`, `MCConstruction` | what it must deliver; constants for TLC |
| `MESI_SMPCache` | the MESI protocol on the same tag store: the state machine |
| `CoherencePermissions` | the abstract specification of permissions: holders and owner of a line |
| `MESI_Properties`, `MCMESI_SMPCache` | its invariants and refinement; constants for TLC |
| `PinDriver` | the Pin tool's callbacks on the program's threads: the state machine |
| `PinDriver_Properties` | its invariants, for many threads and for one, and its liveness |
| `PinDriverHistory` | the driver with a history variable, the addresses the program has written, and the property of reads that needs it |
| `MCPinDriver` | symmetry for TLC |
| `CacheCore_proofs` | lemmas about the row operators |
| `Coherence_proofs` | type correctness of the hierarchy, the flags, one live copy, single writer |
| `Memory_proofs` | the data: equal copies, reads, evictions, the hierarchy implements `CoherentMemory` |
| `Accounting_proofs` | the statistics: write-backs, misses that go below, misses on invalidated copies |
| `ContainerAccess_proofs` | the container: mutual exclusion, coherence inside an access, atomicity, reads, one memory |
| `MESI_proofs` | MESI: type, lookups, exclusiveness, it implements `CoherencePermissions` |
| `PinDriver_proofs` | the driver: its inductive invariant, and those of a single thread |
| `Construction_proofs` | the bit arithmetic, the geometry of a cache, what `main` builds |

### State and code

`CacheCore` has no variable.  A *row* is one set of a cache, a function from
`1 .. assoc` to lines, position 1 being `*theSet`, the most recently used.
`FindLine(row, t)` is the row after `findLine` (the line it returns is then in
front); `Found` and `Hits` are the tests that every caller makes of the pointer
(`!st`, `st->isValid()`).  `FindLine2Replace` and `SlotPos` are the row after
`findLine2Replace` and the position of the line it returned.  `CacheDM`, which
the code uses when the associativity is one, is a row of length one: its search
and its choice of a victim then coincide with those of `CacheAssoc`.
`SetState`, `SetData`, `Invalidate` and `Install` are the updates through the
returned pointer, each with the flags that the code writes and no others.

`MSI_SMPCache` has one variable, `hier`: `hier.cache[k][s]` is row `s` of cache
`k`, `hier.stats[k]` the counters of cache `k`.  Caches `0 .. NumCaches-1` are
private; 16 is the LLC and 17 main memory, the ids the code gives them.  It is
one record because the code's functions update several caches and counters as
they call one another: the operators take a hierarchy and yield a hierarchy, in
the order of the calls.  `fillLine`, `readLine` and `writeLine` are written once
in the code, for any level; so are `FillLine`, `ReadLine` and `WriteLine`, with
the parent's methods as operator parameters.  Main memory's parent is NULL:
`NoWrite` loses the line and `NoRead` yields a fresh `linedata_t`.

The container holds `privateCachesLock` during an access, so an access is one
action here (`ContainerAccess` takes it apart and proves that it may be one).  There
are five, one per branch of `readWord` and `writeWord`:

| Action | Code |
| --- | --- |
| `ReadHit`, `ReadMiss` | `readWord`, lines 274-280 and 225-272 |
| `WriteMiss`, `WriteUpgrade`, `WriteHit` | `writeWord`, lines 342-359, 361-383, 385-398 |

Which CPU accesses which line next, with which word and value, is free: threads
are scheduled by the program and by Pin, neither of which the code controls.
`ReadValue` is the word that `readWord` returns, including the pointer taken
before the fill: after a miss on a matching dead line the fill leaves that line
in front (if it chose it) or second (if it chose another one).

The word index of `readWord` matters for the sharing counters alone, which is
why `ReadMiss` has it and `ReadHit` does not.  `getStateAsInt` is the lookup of the
container's state probe, which is no access and which the tool calls after one.

### The abstract memory

`CoherentMemory` promises a function from lines to words, and says of each access what it
must do: a read of a word returns the memory's and changes no line, a write puts its
value into its word and changes no other.  The lines that an access is not about
stay as they are, but for those that the hierarchy cannot hold, which may be forgotten,
each as a whole: the steps have them as the parameter `lost`, and the hierarchy gives
`Overflowed`, the lines of which main memory has no copy while their row there is full of
other live ones.  `MemoryData(t)` is the refinement mapping: the content of a line is what a
private copy says, or else the LLC, or else main memory.

The abstract steps are tied to the access that was made, by its line, word and value.
`ImplementsMemory` asks of every state, for every CPU, line, word and value, that the
access that could come next be the abstract one of the same name and arguments; as every
such access is a step of `Next`, this covers every step.  A write that stores nothing,
or elsewhere, and a read that changes a word are violations; the mutant `WriteHitUnstored`
is one.  `ThreadsShareMemory` says the same of each access of a thread at the moment it
gives the lock back, with the word it returns.

### Inside an access

`ContainerAccess` adds to the hierarchy each thread's place (`pc`), the holder of
`privateCachesLock`, the arguments and local variables of each call (`frame`: the
request, `cpu`, `st`, `ld`), and `before`, the hierarchy when the lock was last
released, which the code does not have: it is read by properties only.  The operators
that `MSI_SMPCache` composes into an access are here steps of their own:

| Actions | Code |
| --- | --- |
| `GetLock` | `MultiCacheSim.cpp:174-186`: the lock, `tidToCPUId`, `findCacheByCPUId`; the early return of lines 184-186 with the lock held |
| `tidToCPUId`, `AsInt`, `Remainder` | `233-236`: a thread id is an `unsigned long` for `readLine` and an `int` for `tidToCPUId`; `IntLimit` stands for 2^31, and the remainder of a negative number is negative or zero |
| `LookupReadHit`, `LookupReadMiss` | `MSI_SMPCache.cpp:222-236`, `274-280` |
| `ReadServed`, `ReadUnserved` | `235-248`, the snoop, by whether a sibling has the line |
| `AskParent` | `248-252` and `353`: `readLine` of the LLC, with all that it causes below |
| `ReadFill` | `254-272`: the stale word read through `st`, `fillLine` |
| `LookupWriteMiss`, `WriteServed`, `WriteUnserved`, `WriteFill` | `340-359` |
| `LookupUpgrade`, `UpgradeSnoop`, `Put` | `361-383`: the siblings first, then the own state and data |
| `LookupWriteHit` | `385-398` |
| `Return` | the second lookup of `readWord` (`281-284`), then the unlock |

`st` is a position in the row: 0 is NULL, 1 the front, 2 where the fill leaves the old
line if it chose another one.  A thread that holds the lock is alone, so nothing
is gained by cutting the steps finer; they are what another thread would see
if the lock were taken by level, by cache or around the lookup only.  `GetLock` tests
`LockFree` alone, and the steps after it do not look at the lock: that they do not interleave
follows, and the mutant `LockIgnored` shows that it is needed.  `LLCLock` and
`mainLock` are taken in `createLLC` and `createMain` only.

### Construction

`Construction` is `main` from `MultiCacheSim_PinDriver.cpp:366` to the start of the
program.  A cache is its id, its parent and its geometry, as `CacheGeneric` computes
it (`CacheCore.h:103-116`); a container has its vectors and the two pointers that it
passes on, `UNSET` until their level is created.  The actions are the calls:
`OpenProtocol` (which may exit, or go on with a NULL factory and call it: `calledNull`), `CreateNewCache`, `CreateLLC` (which crashes if the
logarithm is zero), `CreateMain`, and the same for the reference, which gets neither
of the lower levels.  `Snippets` gives the shifts and ors of `log2i` and
`roundUpPower2`, on words of `Width` bits.  `&` and `|` are defined by the bits of a
number, so that something can be proved about them.  In the run a word has 30 bits, not
32, as TLC's integers are 32 bits wide, signed; the theorems hold for 17 to 32.

### MESI

`MESI_SMPCache` is the protocol against which the tool can compare another.  It has
private caches only, stores no data and asks nobody below.  Its lines are those of
`CacheCore` with `islineInvalid` always true, which `MESITypeOK` states and on which
all its lookups depend.  An upgrade (`WriteCoherenceMiss`) is made from the state S and,
needlessly, from E.  `CoherencePermissions` is what such a protocol promises: a
newcomer owns the line if nobody had it, a writer ends alone, and an access gives up
at most one other line, of the same CPU.  Its steps are about permissions only and are
not tied to the kind of access: that a write takes ownership is not said.

### The driver

`PinDriver` has the program and the tool's globals as its state: the memory, each
thread's place and instruction, its instrumentation flag and its thread-local word
(`data`), `globalLock` with its owner, the slot (`writeaddr`, `writetid`,
`writecount`; `writeinst` is only passed on), and for each container the memory it
implements.  Pin calls `WriteData` before every instruction, then `Read` or
`Write` if the instruction reads or, else, writes memory; then the instruction
runs.  The granularity of the actions is what other threads can see:

| Actions | Code |
| --- | --- |
| `Fetch`, `Execute` | the program's next instruction; its effect on memory |
| `TurnInstrumentationOn`, `...Off` | lines 93-127 |
| `WriteDataOff`, `WriteDataTest`, `WriteDataReset` | lines 215-219: no lock is held, and the test and the reset are two steps |
| `WriteDataNothing`, `WriteDataBegin` | lines 221-224, `writecount` read under the lock |
| `WriteDataCopy` | line 229, the value as memory is now |
| `WriteDataLoad`, `WriteDataStore` | line 237; a `--` is a load and a store, as the reset can come between |
| `WriteDataLoop` | lines 244-266, one container per step, the lock goes back after the last |
| `ReadSkip`, `ReadBegin`, `ReadLoop` | lines 134-194 |
| `WriteSkip`, `WriteBegin`, `WriteLoad`, `WriteStore` | lines 196-211, the `++` in two steps as above |

A container is a function from addresses to values: what `CoherentMemory`, and so
the container (run `container`), promises as long as main memory has room.  A
container's own locks are always taken and released under `globalLock`, and an
access is one step.  `NaN` is `INT_NAN`, which a container returns for a word that
nobody has written under the tool.  Values are marked with the address they were
stored at, so that one that strays is seen.  There is no reference container
(`useRef` false, the default), hence no comparison of states.  `stopOnError` only
matters after a report, and none is ever made (see the violations).

## 3. Runs

### The hierarchy

The word size, the number of words in a line,
and the number of ways of the lower levels are scaled down: the code uses
`4 * log2i(n)` times as many ways in the LLC as in a private cache and 64 times
as many in main memory, with the same number of sets everywhere.  Each set of
the hierarchy is independent of the others (every row index is a function of the
tag, and the levels have equally many sets), so one set is enough, and few ways
make every level evict early.

| Run | Instance | Properties | Distinct states |
| --- | --- | --- | --- |
| `coherence` | 2 CPUs, 1 way everywhere, 2 lines of 2 words, 2 values | `TypeOK`, `FlagsAgree`, `ReadsReturnMemory`, `ImplementsMemory` | 21,247 |
| `associative` | 2 CPUs, 2 private ways, 3 lines | `OneLiveCopyPerCache`, `ReadsReturnMemory`, `ProbeAfterAccess`, `LosesOnlyOldestOrInvalidated` | 44,029 |
| `counters` | 2 CPUs, 2 ways in main memory for 3 lines other than the first, at most 5 accesses | `WritebacksArrive`, `MissesGoBelow`, `MissesOnInvalidAreCaused`, `ForgetsOnlyWhenMainFull` | 162,043 |
| `container` | 4 threads on 3 CPUs, one with an id that is negative as an int, 2 lines, main memory has room for both | `ContainerTypeOK`, `OneAtATime`, `SingleWriter`, `CopiesAgree`, `ReadsReturn`, `LockReturned`, `AccessesAreAtomic`, `ThreadsShareMemory` | 127,244 |

Why these bounds are enough for what the runs ask:

* *CPUs.* Two suffice for a stale copy; three are needed for a snoop that stops
  too early, and for a reader that is served by one of two sharers.
* *Lines.* Three lines in a set of two ways, or two in one of one way, make every
  fill evict at some time, with victims that are shared, modified and dead.
* *Ways.* Two are needed for order within a row: which line a lookup prefers,
  which one a fill takes, and where `readWord`'s old pointer leads.
* *Threads.*  Three that take part, one for each CPU, and a fourth with an id that is
  negative as an int and no multiple of the number of caches.  `IntLimit` is 8 in place
  of 2^31: what counts is on which side of it an id is.
* *Words and values.* Two values tell new data from old; two words tell a merge
  from an overwrite.  One value (beside `NaN`, the content of a word that was
  never filled) is enough where the property is about the presence of lines.
* *Accesses.* The counters grow without bound, so the runs about them stop after
  `MaxAccesses` (the guard `InBounds`, with `CHECK_DEADLOCK FALSE` for that reason
  alone).  Five accesses make two levels evict after a sharing miss.  All other
  runs set `Counting = FALSE`, which keeps the counters at zero: nothing in the
  code reads them.

`Values` is symmetric, as the code only ever compares words for equality.  CPUs
are not: snoops go through them in order.

*Fairness.*  The runs with an access per step assume none: nothing obliges the program
to make the next access.  `ContainerFairSpec` assumes that the operating system runs every
thread: one that can take the next step of its access does so some day (`WF_pc(Moves(t))`,
for each thread).  `Moves(t)` is the disjunction of the branches of `readWord`, `writeWord`
and the release as the actions state them, with their guards on the row, the siblings
and the thread's place and with the place they lead to, and without what they do to the
rows, which is defined in every state; so TLC can tell whether a step is possible without
computing it.  That this is fairness of the code's steps and of nothing else is the
theorem `FairnessIsOfSteps`: in a step of the system, a thread moves exactly if the step
is one of its `ReadWord`, `WriteWord` or `Return`.  That a thread inside an access always
can take such a step is not assumed either: fairness asks nothing of a thread whose step is
impossible, and `LockReturned` would fail.  Nothing is assumed of who gets the lock, a Pin lock or a mutex without order, nor that a thread makes
another access.  So what can be promised is `LockReturned`, that the lock always comes
back from a thread whose id is not negative as an int, and not that every waiting thread
gets it.  `container` has `CHECK_DEADLOCK FALSE`, as there a thread may keep the lock (next
paragraph), and all others then wait for ever.

*A lock that does not come back.*  `readLine` and `writeLine` have a thread's id as an
`unsigned long` and hand it to `tidToCPUId` as an `int` (`MultiCacheSim.cpp:174, 183, 207,
233`).  An id such as 2^31 + 1 becomes negative, and so does its remainder unless it is a
multiple of the number of caches; `findCacheByCPUId` finds no cache, and the access
returns at line 185 or 209 without releasing `privateCachesLock`.  `README:157-158` says that
`tidToCPUId` "takes a program thread id and maps the thread to one of the "processors"
(caches)" and names no limit: the code contradicts it.  No run is spent on the violation, which
is one step; `container` has such a thread among its four (9, which is -7 as an int of four
bits), and `OneAtATime` and `LockReturned` say that this is the only way to keep the lock:
they hold of every thread with another id while that one is about.  (The ids that the tool
itself passes are Pin's small numbers.)

*The probe.*  `getStateAsInt` takes no lock, looks a line up, which may reorder its row, and
follows the pointer that it gets untested.  The driver calls it for the line of an access
that is over, with `privateCachesLock` given back and nobody else admitted by its own
`globalLock`.  `ProbeAfterAccess` therefore asks, of every state, what the probe would meet
after each access that could come next.  It takes two ways, in which a lookup that does not
find its line in front reorders the row, and more lines than ways: the run `associative`.
A probe at another time, by a client without such a lock, has no promise.

`TypeOK` is the type invariant: every row has the ways of its level and only
words that the program can have stored.  What the other properties say is stated
at each in `MSI_Properties`.

Two claims of the README about counters do not hold, though no run is spent on
them.  `README:104-106` defines read misses serviced remotely as misses on a line that
another processor has "in any non-shared, non-invalid state"; the code counts those served
by a shared copy too (`MSI_SMPCache.cpp:239`).  And the first access to the line with
tag 0, which every line that was never filled has, "matches": `readWord` takes it for
stale data (`MSI_SMPCache.cpp:254`), compares `INT_NAN` with the fetched word and counts a
sharing miss, though nobody has written.  `counters` therefore leaves the first line of
memory out.

### Construction

| Run | Instance | Properties | Distinct states |
| --- | --- | --- | --- |
| `construction` | 2, 3, 4 and 9 to 16 caches of 1024 bytes, 1 and 2 ways, blocks of 32 and 64 bytes, 2 protocols, with and without a reference | `ConstructionTypeOK`, `RowsInside`, `AddressesSplit`, `BuiltAsModelled`, `SnippetsRoundUp` | 3,368 |
| `single_cache` | 1 cache | `ConstructionCompletes` (violated) | |
| `eight_caches` | 5 to 8 caches | `PowersOfTwo` (violated) | |

`construction` has the numbers of caches whose rounded-up logarithm is 1, 2 or 4, that is
all up to 16 that work.  `BuiltAsModelled` is what makes it legitimate for `MSI_SMPCache`
to have one number of sets, a power of two, and the parents it has.  Small caches are
enough: sizes only scale the number of sets.  `SnippetsRoundUp` says what the constructors
need of the bit arithmetic, for every number up to the ways of main memory: the least
power of two that is *not smaller*, and its exponent.

* **One cache.**  `README:134-136` says that "if you only add 1 cache to your
  multicachesim object, you will have a uniprocessor cache simulator", and 1 is the
  default of the knob.  `createLLC` multiplies by `log2i(1)`, which is 0
  (`MultiCacheSim.cpp:123`), and the constructor divides by the number of ways.
* **Five to eight caches.**  The factor is 12, and the LLC's ways are no power of two
  (`CacheCore.h:115` notes that they must be).  Rows are then placed further apart
  than the array has room for.

These two are the only exceptions of their kind: for any other number of caches the
theorems of section 4 say so for every command line of powers of two.  Two more disagreements
between the code and its words need no run to be seen:

* **Rounding up.**  The comment of `roundUpPower2` says "the smallest power of 2 greater than
  the parameter" (`Snippets.cpp:48-49`).  The code returns a power of two as it is, which
  is what `log2i` relies on (the mutant `RoundUpStrictly` does what the comment says, and
  addresses no longer split): it is the comment that is wrong.
* **A module without `Create`.**  After `dlsym`, `main` tests the handle of `dlopen` a second
  time (`MultiCacheSim_PinDriver.cpp:388`, and 422 for the reference) where it means
  the factory: "Couldn't get the Create function" is never printed, and `createNewCache`
  calls NULL (`MultiCacheSim.cpp:103`).  This is the outcome `calledNull` of the model.

### MESI

| Run | Instance | Properties | Distinct states |
| --- | --- | --- | --- |
| `mesi` | 3 CPUs, 2 ways, 3 lines, the first line of memory among them | `MESITypeOK`, `ExclusiveAlone`, `ValidCopyFound`, `ImplementsPermissions` | 54,739 |

Three lines for two ways evict, and two ways are the fewest in which a dead copy can
stand in front of a valid one; three CPUs for a snoop that stops at the first copy.
The line with tag 0 matters, as cold lines match it.

### The driver

| Run | Instance | Properties | Distinct states |
| --- | --- | --- | --- |
| `driver_threads` | 2 threads that switch instrumentation, a shared address and one on the stack, reads, writes and others, 2 containers | `DriverTypeOK`, `NoCrossTalk`, `ContainersInStep`, `OwesAtMostOne`, `LockReleased` | 426,537 |
| `driver_one_thread` | 1 thread, 2 heap addresses and one on the stack, 2 values, 2 containers | `ReadsSeeTheProgram`, `StackIgnored`, `AtMostOnePending` | 20,408 |
| `driver_stack_race` | 2 threads, a heap and a stack address | `StackIgnored` (violated) | |
| `driver_mismatch` | 1 thread, an instruction that reads and writes, 2 containers | `MismatchReported` (violated) | |

*Bounds.* `MaxPending` stops `Fetch` from starting a write when a thread has, or
the slot holds, that many: nothing in the code bounds `writecount`.  One is enough
for two threads to have announced two writes (the second may start before the
first has counted) and for the reset to fall into every gap; a single thread stays
below the bound of three by itself.  Two containers are the fewest that can
disagree, and the address on the stack with one on the heap are the fewest that
can be mixed; as values are marked with their address, one value is enough there.

*Fairness.* `FairSpec` gives each thread weak fairness of its callbacks: the
operating system runs every thread, and inside a callback nothing but the lock can
stop it.  Nothing is assumed of the program (it may stop) nor of who gets the lock
(`PIN_GetLock` promises no order), so `LockReleased`, that the lock always comes
back, is what can be promised; that every waiting thread gets it cannot.

*One thread and many.*  With a single thread the slot works as intended: the next
`WriteData` comes right after the store.  `ReadsSeeTheProgram` says so exactly: `PinDriverHistory`
adds the set `written` of addresses at which the program has stored something, and what a
container returns to a read is the program's word there, and `INT_NAN` elsewhere only.  With
several, a write may be lost,
performed twice, or performed with a value stored earlier or later, which is
how the tool is designed and which nothing in the repository excludes.  What
does hold then is stated by `NoCrossTalk`, `ContainersInStep` and `OwesAtMostOne`; the
last of them allows the count of -1 that swallows a write, which does occur.

### Violations in the driver

* **A stack access in a container.** `WriteData` tests `writeaddr` before it takes
  the lock (line 219, which says "access to the stack , hence ignoring").  Another
  thread's `Write`, which does not test its address, can put one of the stack into
  the slot in between.
* **Updates are lost.** `instrumentTrace` gives an instruction that reads and
  writes memory the callback `Read` alone (`else if`, line 286).  The container
  keeps the old value, which the next read returns, where line 169 requires the
  program's (`INT_NAN` excepted, which line 168 lets pass and line 173 does not).  `driver_mismatch` gets its wrong value in this way.
* **Mismatches are never reported.** `tdata1` and `tdata2` in `Read` are the same
  thread-local record (lines 155, 166), so the comparison of line 168 is of a word
  with itself.  This is why the one above goes unnoticed.

## 4. Proofs

TLC checks the instances above; the theorems about the hierarchy hold for every
number of CPUs (2 to 16), ways of each level, sets, lines, words and values (and, in the
container, threads), those about MESI for any CPUs, ways, sets and lines,
those about the driver for any threads, addresses, values and containers, and those about
construction for words of 17 to 32 bits, any knobs and any number of protocols.  Every
property of section 3 that holds is a theorem, but for the two of liveness.

| Theorem | States |
| --- | --- |
| `Coherence_proofs!TypeCorrect` | `Spec => []TypeOK` |
| `Coherence_proofs!FlagsAlwaysAgree` | `Spec => []FlagsAgree` |
| `Coherence_proofs!OneCopy` | `Spec => []OneLiveCopyPerCache` |
| `Coherence_proofs!OneWriter` | `Spec => []SingleWriter` |
| `Memory_proofs!CopiesAlwaysAgree` | `Spec => []CopiesAgree` |
| `Memory_proofs!ReadsAlwaysReturnMemory` | `Spec => []ReadsReturnMemory` |
| `Memory_proofs!ForgottenByMainOnly` | `Spec => ForgetsOnlyWhenMainFull` |
| `Memory_proofs!LinesAreLostForAReason` | `Spec => LosesOnlyOldestOrInvalidated` |
| `Memory_proofs!HierarchyIsMemory` | `Spec => []ImplementsMemory`, if `NoAliases` |
| `Memory_proofs!NothingIsLost` | `Spec => [](Overflowed(hier) = {})`, if `FitsInMain` |
| `Accounting_proofs!AllWritebacksArrive` | `Spec => []WritebacksArrive` |
| `Accounting_proofs!MissesAlwaysGoBelow` | `Spec => []MissesGoBelow` |
| `Accounting_proofs!MissesOnInvalidAreAlwaysCaused` | `Spec => []MissesOnInvalidAreCaused`, if `FirstLineUnused` |
| `ContainerAccess_proofs!ContainerTypeCorrect` | `ContainerSpec => []ContainerTypeOK` |
| `ContainerAccess_proofs!MutualExclusion` | `ContainerSpec => []OneAtATime` |
| `ContainerAccess_proofs!OneWriterInside` | `ContainerSpec => []SingleWriter` |
| `ContainerAccess_proofs!ProbesAreHarmless` | `Spec => []ProbeAfterAccess` |
| `ContainerAccess_proofs!FairnessIsOfSteps` | `ContainerSpec =>` in every step, `Moves(t)` exactly if `ReadWord(t)`, `WriteWord(t)` or `Return(t)` |
| `ContainerAccess_proofs!Atomicity` | `ContainerSpec => AccessesAreAtomic` |
| `ContainerAccess_proofs!CopiesAgreeInside` | `ContainerSpec => []CopiesAgree` |
| `ContainerAccess_proofs!ReadsReturnContent` | `ContainerSpec => []ReadsReturn` |
| `ContainerAccess_proofs!ThreadsHaveOneMemory` | `ContainerSpec => ThreadsShareMemory`, if `NoAliases` |
| `MESI_proofs!MESITypeCorrect` | `Spec => []MESITypeOK` |
| `MESI_proofs!LookupsFindTheCopy` | `Spec => []ValidCopyFound` |
| `MESI_proofs!ExclusiveIsAlone` | `Spec => []ExclusiveAlone` |
| `MESI_proofs!ProtocolIsPermissions` | `Spec => ImplementsPermissions`, if `NoAliases` |
| `PinDriver_proofs!DriverTypeCorrect` | `Spec => []DriverTypeOK` |
| `PinDriver_proofs!NoCrossTalkEver` | `Spec => []NoCrossTalk` |
| `PinDriver_proofs!InStep` | `Spec => []ContainersInStep` |
| `PinDriver_proofs!OwesOne` | `Spec => []OwesAtMostOne` |
| `PinDriver_proofs!OnePendingWrite` | `Spec => []AtMostOnePending`, for a single thread |
| `PinDriver_proofs!StackStaysOut` | `Spec => []StackIgnored`, for a single thread |
| `PinDriver_proofs!ReadsAreTheProgram` | `HistorySpec => []ReadsSeeTheProgram`, for a single thread, `InstrumentAll`, no `"update"` |
| `Construction_proofs!ConstructionTypeCorrect` | `Spec => []ConstructionTypeOK`, if `KnobsFit` |
| `Construction_proofs!SnippetsAlwaysRoundUp` | `Spec => []SnippetsRoundUp`, if `KnobsFit` |
| `Construction_proofs!AddressesAlwaysSplit` | `Spec => []AddressesSplit`, if `KnobsFit`, `BlocksArePowers` |
| `Construction_proofs!RowsStayInside` | `Spec => []RowsInside`, if `KnobsFit`, `WaysArePowers`, not 5 to 8 caches |
| `Construction_proofs!AlwaysBuiltAsModelled` | `Spec => []BuiltAsModelled`, if `KnobsFit` and all knobs are powers of two |
| `Construction_proofs!WaysAndSetsArePowers` | `Spec => []PowersOfTwo`, with the assumptions of the two above |
| `Construction_proofs!OnlyOneCacheCrashes` | `Spec => []ConstructionCompletes`, if there is more than one cache |

*Assumptions.* `GeometryAssumption` (there are tags, and the number of sets is a
power of two, as masking with `sets - 1` requires), `NaNAssumption`, and
`HierarchyAssumption` (2 to 16 private caches and at least one way at each level:
with one cache the code divides by zero, and 17 would give a private cache the id
of the LLC); for the driver `DriverAssumption` (the stack and the heap are apart,
`NULL` and `NaN` are no address, thread or value, there is a container); for construction
`KnobsAssumption` (1 to 16 caches, the knobs are positive) and `WidthAssumption`.  Some
theorems need more, stated in them:

* `NoAliases`: the program's lines differ in the 32 bits that `calcTag` keeps of an
  address, that is, they lie within 4 GiB.  Otherwise two lines of the program are one
  line of the caches, and the refinements, which speak of lines, do not hold;
* `FitsInMain`, for `NothingIsLost` alone: the lines in use of a set are no more than the ways
  of main memory;
* `FirstLineUnused`: no line has tag 0.  Cold lines have, so the first miss on the first
  line of memory is charged to an invalidated copy that nobody ever wrote;
* a single thread (`Threads = {t}`) for the properties that several threads violate
  (section 3, violations), `InstrumentAll` because the code that is not
  instrumented writes behind the containers, and no `"update"` instruction, whose
  store is never announced;
* `KnobsFit`: 64 times the size of a private cache and three times a block are machine
  words, and 64 times the ways can be rounded up within one.  Larger knobs overflow in
  the constructors' products;
* `BlocksArePowers`, `WaysArePowers`, `SizesArePowers`: the knobs are powers of two, as the
  constructor's comment asks (`CacheCore.h:115`), and a cache holds at least one row; that
  there are not 5 to 8 caches, because of the factor 12 of the LLC (section 3).

`NoAliases` holds in every run; `FitsInMain` in `container` (two lines, two ways), so
that nothing may be forgotten there; the run of the counters
leaves out the first line, that of one thread has no `"update"`, and the command lines of
`construction` meet all the assumptions on knobs.

*Type correctness.* `TypeOK` is inductive.  The work is in `CacheCore_proofs`:
`Min` and `Max` are choices, so that lookups and victims lie within the row needs
the well-foundedness of the naturals (`LeastExists`, `MinIn`, `MaxIn`), and that
`MoveToFront` is a permutation is proved by naming where each place comes from
(`Src`).  `Coherence_proofs` then goes bottom-up: main memory, the LLC, a private fill
with everything it pushes below, the snoops, the five actions.

*Coherence.* `SingleWriter` is not inductive: a snoop asks whether a *lookup* hits,
and a lookup believes `islineInvalid`, so a row in which the two flags disagree,
or in which a tag is live twice, hides a modified copy from it.  The inductive
invariant `Coherent` therefore joins the type, well-formed rows at every level
(`RowOK`: the flags agree and no tag is live twice) and `Exclusive`, which speaks
of rows by what they *have* and *own* instead of by positions.  With `RowOK` a
lookup hits exactly if the row has the tag (`HitsIffHas`).  The key steps are:

1. `InstallOK`: a fill keeps `RowOK` whatever the row was, because
   `findLine2Replace` reuses the live line of the tag if there is one;
2. `...Under`: what a lower level does for the one above touches no private cache;
3. `ReadRemoteGood`: after a read's snoop, which stops at the first valid copy,
   no sibling owns the line.  If one did, exclusiveness made it the only one with
   a valid copy, so it was the one that the snoop reached and made shared;
4. `WriteRemoteGood`: after a write's snoop no sibling has the line;
5. `PrivateFillCoherent`, `OwnCoherent`: with 3 or 4, filling the line as shared
   or modified, or upgrading it, keeps `Exclusive`.

TLC checks the parts of `Coherent` under the names of the properties
(`TypeOK`, `FlagsAgree`, `OneLiveCopyPerCache`, `SingleWriter`).

*Data.*  `Sound` joins `Coherent` with `Homed` (a valid line is in the row that a lookup
of its tag searches, so a victim is written back to its own row below) and `Agreed` (the
private copies of a line are equal).  Proofs then no longer speak of positions: `DataIn`
and `Holds` say which data a row has for a tag, and `Content` what the hierarchy has: a
private copy if there is one, or else the LLC's, or else main memory's.  An access that does not
write keeps the content of every line or loses it (`Kept`, `Gone`); it goes through the levels
from below: what a fill throws out of a level is written into the next, what a snoop hands
over is what the owner had.  `FitsInMain` excludes the loss by counting: the row
that forgets a line is full, and would need one line more than the set has
(`NothingGone`).  Each access of `ImplementsMemory` is then the abstract one: `ReadIsStep` and
`WriteIsStep` give the content of its line exactly, the word written included, and
`OthersAreKept` that of all other lines, whose loss `Overflowed` explains.
`ForgetsOnlyWhenMainFull` and `LosesOnlyOldestOrInvalidated` follow from
the same lemmas about one fill.

*Accounting.*  A total is a fold over the CPUs, which adds in an order that `CHOOSE` picks, and
induction over the set is not available.  `SmallestSet` takes its place: of the subsets
of `Cpus` that would refute a statement there is one of least cardinality, and taking
one CPU out of it gives the contradiction.  So sums exist (`SumsExist`), and move by what
one cache changes (`SumsMove`).  Every action is then one `Event` of one cache: a set of
counters that go up by one, and whether the LLC was asked.  `Books`, inductive, joins the type,
the `Balance` of the LLC with main memory, and the equations between totals.
`MissesOnInvalidAreCaused` is not inductive, as invalidated copies are misses to come:
`Covered` adds them (`Dead`) to those already charged.  A write leaves at most
one behind in each sibling, for one invalidation sent; a miss on one consumes it; a fill
consumes or keeps it, which needs the tags in a row to be distinct (`AllDistinct`).

*The container.*  Atomicity says what the hierarchy has become when an access ends,
which needs to be known at every point before.  The inductive invariant `ContainerInv`
joins `PlaceInv` (a thread has a frame exactly inside an access, which is when it holds
the lock) and `AccessInv`: `before` is coherent, and equals the hierarchy when the lock
is free; when a thread holds it, `Stage` gives the hierarchy, `st` and `ld` at each label
as functions of `before` and the request.  Each action then takes one stage to the next
by the definition of the operators of `MSI_SMPCache` (`Advance`, and a lemma per action),
and `ReturnStep` meets the whole access.  `SingleWriter` inside an access is
`StageCoherent`, that all stages are coherent, by the lemmas of `Coherence_proofs`, which
are stated per part of an access.  `ProbeAfterAccess`, and that the second lookup
of `readWord` changes nothing, need that an access leaves its line valid in front
(`AccessFront`): a fill puts it there because a miss has found no live line of the tag in
the row, and the second lookup stays there because the flags agree.

`MemoryInv` adds `Sound(before)` and where the pointer `st` of a read is when it returns
(`PointerInv`).  That all stages are sound gives `CopiesAgreeInside`; that `st` points to the
line whose content the access began with, or fetched, gives `ReadsReturnContent`.  A release
of the lock ends the whole access of its thread's request (`ReturnStep`), whose effect on
every line's content the lemmas of `HierarchyIsMemory` give exactly (`AccessSound`), and the
word returned is that content (`ReturnedIs`): `ReturnPerforms`, and so `ThreadsHaveOneMemory`.

*MESI.*  Here a lookup finds the first line with the tag, dead or alive.  `MESIInv`
joins the type and that no dead line precedes the valid one of its tag (`Good`) with
`Exclusive`.  A fill may leave a dead line of the tag, but only behind the new
one, which is in front; a snoop therefore meets the valid copy, if there is one.  The
refinement maps a line to the CPUs with a valid copy and to the one with an exclusive
or modified one, and an access to the abstract ones that `Access` lists.

*The driver.* None of its invariants is inductive.  `DriverInv` joins the type and

* `LockInv`: a thread is at a label of a critical section exactly if it owns the
  lock (mutual exclusion follows, lemma `Alone`);
* `PlaceInv`: an instruction has the address its callback uses, a loop starts at the
  first container, and the slot is filled whenever it is used: `writecount > 0`
  alone says so, also after a reset that came at any time;
* `CountInv`: a thread that is about to subtract read a count that was positive
  under the lock, and which since then at most the reset has changed, to zero;
* `ValueInv`: what a `WriteData` carries from `WriteDataCopy` to its last
  `WriteDataLoop` belongs to the address in the slot;
* `StepInv`: in the loop, the containers before the one reached have the new value
  at the slot's address, and are otherwise equal to those after it.

With a single thread `SoloInv` says where the count of pending writes is 0 and
where 1: from the announcement to the next `WriteData`, which the thread itself runs before
its next instruction that touches memory, and that what it carries out is not on the stack.  `FreshInv`
builds on it: outside the stack, every container has the program's word where the program
has stored something, and `INT_NAN` elsewhere, but at the address that is pending, or that
the loop has not yet reached; and what is carried out has been stored.

*Construction.*  The arithmetic first.  The provers know `2 ^ n` for a given `n` only, so
the powers up to the widest word are doubled one by one (`PowersDouble`) and then used as the
values of a function (`Pow`).  Induction takes an operator as a parameter, which no
prover here can instantiate; `CountingUp` states it of a set instead, by a least
counterexample.  With it, powers multiply, equal bits make equal words (`WordBits`), and the
recursive function in `WordOf` exists (`SumsExist`) and has the bits it was given
(`WordOfBits`).  So masking with a power of two less one takes the remainder
(`Masked`), and a line of `roundUpPower2` doubles the run of ones below the highest bit
(`SmearFills`): after 1, 2, 4, 8 and 16 it is as long as any word (`SmearedIs`, `RoundsUp`).

Then the states.  `ConstructionInv` says that every container is, at every moment, one of a
few that are given in full: some private caches without a parent (`Growing`), all of
them with the LLC (`Shared`), or all three levels (`Whole`); and which one the latest is
while `main` is between two create calls.  A create call takes one exactly to the
next (`AddsOne`, `AddsLLC`, `AddsMain`).  Every geometry is therefore that of a private
cache with size and ways multiplied by 1, by the factor of the LLC or by 64
(`GeometriesAre`), and the theorems are facts about one such geometry.  The number of
sets does not depend on the factor (`SetsArePower`), which is why the levels have equally many
even for five to eight caches; the rows do (`WaysOfLevels`).  As a crash is in the
invariant only with a factor of zero, it needs one cache (`FactorIs`).

*Only model-checked*, because out of the prover's reach: liveness (`LockReleased`,
`LockReturned`), as it rests on `ENABLED`.

## 5. Assumptions of the model

* The build without `DEBUG`: the `I(...)` and `GI(...)` assertions of `nanassert.h`
  are compiled out.  (With `DEBUG`, `findLine` would stop at the first dead line it
  matches, and `setTag` at tag 0.)
* LRU replacement without skew, the only kind that the container asks for.
* The number of sets and the ways are powers of two, as the run `construction` shows
  of the hierarchies that `main` builds, except those of the two violations; block sizes
  are at most 256 bytes, as the code needs and does not check (see the hazards).
* In `MSI_SMPCache` and `ContainerAccess` each access arrives with its address and value; the races of the
  driver are in `PinDriver`.  There, an unlocked read or write of one word is one
  step, as on the machines Pin runs on, and threads are all started.
* `PIN_SafeCopy` succeeds, and copies a word in one step.

## 6. Running

`tlc -config Coherence.cfg MCMSI_SMPCache.tla` and likewise for `Associative` and
`Counters`; `Container.cfg` with `MCContainerAccess.tla`; `Construction.cfg`,
`SingleCache.cfg` and `EightCaches.cfg` with `MCConstruction.tla`; `MESI.cfg` with
`MCMESI_SMPCache.tla`; `DriverOneThread.cfg` with `PinDriverHistory.tla`, the other
drivers with `MCPinDriver.tla`.  Each takes about a minute, `MESI.cfg` two to three.  `tlapm` on each
`..._proofs.tla`, in the order of section 2; each takes a few minutes from
nothing.

A mutant of `PROJECT.json` is a plausible bug for each property: definitions
marked "Variant of ..." in the modules are those bugs and are used nowhere else.

## 7. What is left

In the order of what it would add:

1. `PinDriver`: thread start and end with `MAX_NTHREADS` and `numThreads`; a
   composition with `ContainerAccess` in place of the abstract containers.
2. The counters of `MESI_SMPCache`.

## 8. Not modelled

* `CompressionModule`: a stub that nothing calls.
* `nanassert`, `estl`: assertion macros, compiled out, and unused hash adaptors.
* Printing of statistics and knobs: input and output without state of their own.
  Of `dlopen` and `dlsym` there is only that they may fail.
* The comparison of MSI with MESI, the reference of the tool, in lock step: the two cannot
  be linked at this commit.  MESI is out of the build (`makefile.rules:102-128`); its
  `Create` takes 8 parameters where `CacheFactory` passes 10; its accesses are called
  `readLine` and `writeLine`, which the interface now uses for something else; and the two
  protocols number their states differently, so that `getStateAsInt` would be compared
  across encodings.
* The destructor of `MultiCacheSim`, which nothing calls, and `debugAccess`, whose flag
  nothing reads.
* `CacheDMSkew`, `findInvalidLine2Replace`, the RANDOM policy, the energy
  interface, `xorTag`: never reached from the containers.
* `CacheTestDriver`: written against an earlier interface and no longer compiling; its
  threads, which call a container in a loop, are the callers of `ContainerAccess`.
* `Tests`, `microbenchmarks`, `scripts`: clients of the simulator, not parts of it.
