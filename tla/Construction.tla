---------------------------- MODULE Construction ----------------------------
(***************************************************************************)
(* How main of MultiCacheSim_PinDriver.cpp builds the hierarchies that     *)
(* MSI_SMPCache takes for granted: for each protocol a container, its      *)
(* private caches, its last-level cache and its main memory, then, if      *)
(* asked, a reference container of private caches only.                    *)
(*                                                                         *)
(* A cache is its identifier, its parent and the geometry that the         *)
(* constructors of CacheCore compute.                                      *)
(***************************************************************************)
EXTENDS Snippets, Sequences, SequencesExt

CONSTANTS
  CacheCounts, CacheSizes, Assocs, BlockSizes,  \* values of the knobs
  Protocols                                     \* protocols on the command line

ASSUME KnobsAssumption ==
  /\ CacheCounts \subseteq 1 .. 16
  /\ CacheSizes \subseteq Nat \ {0} /\ Assocs \subseteq Nat \ {0}
  /\ BlockSizes \subseteq Nat \ {0}
  /\ Protocols \in Nat \ {0}

VARIABLES
  pc,      \* where main is
  knobs,   \* the command line
  Caches,  \* the containers, in the order of the protocols
  ref      \* ReferenceProtocol, as a sequence of at most one container

vars == <<pc, knobs, Caches, ref>>

LLC == 16
Main == 17
NULL == -1
UNSET == -2  \* what happens to be in a pointer that was never set

-----------------------------------------------------------------------------
(* CacheGeneric: the constants of one cache.  A cache without ways divides *)
(* by zero.                                                                *)

Geometry(s, a, b) ==
  [size |-> s, lineSize |-> b, assoc |-> a,
   log2Assoc |-> Log2i(a), log2AddrLs |-> Log2i(b),
   sets |-> (s \div b) \div a, numLines |-> s \div b]

calcTag(g, addr) == shiftR(addr, g.log2AddrLs)
calcOffset(g, addr) == addr & (g.lineSize - 1)
calcAddr4Tag(g, tag) == shiftL(tag, g.log2AddrLs)
calcSet4Tag(g, tag) == tag & (g.sets - 1)

calcIndex4Set(g, set) == shiftL(set, g.log2Assoc)

(* A new cache; parent is what the container passes as next.               *)
NewCache(id, parent, s, a, b) == [CPUId |-> id, parent |-> parent, geometry |-> Geometry(s, a, b)]

-----------------------------------------------------------------------------
(* MultiCacheSim.                                                          *)

NewContainer ==
  [privateCaches |-> <<>>, llc |-> <<>>, main |-> <<>>,
   llc_memory |-> UNSET, main_memory |-> UNSET]

(* Variant of createNewCache: num_caches is incremented first.             *)
createNewCacheFromOne(c) ==
  [c EXCEPT !.privateCaches =
     Append(@, NewCache(Len(@) + 1, c.llc_memory, knobs.csize, knobs.assoc, knobs.bsize))]

createNewCache(c) ==
  [c EXCEPT !.privateCaches =
     Append(@, NewCache(Len(@), c.llc_memory, knobs.csize, knobs.assoc, knobs.bsize))]

Adopted(caches, parent) == [i \in DOMAIN caches |-> [caches[i] EXCEPT !.parent = parent]]

(* Variant of Factor: it grows with the number of caches itself.           *)
FactorLinear(c) == Len(c.privateCaches) * 4

(* The last-level cache grows with the logarithm of the number of caches.  *)
Factor(c) == Log2i(Len(c.privateCaches)) * 4

createLLC(c) ==
  LET new == NewCache(LLC, c.main_memory,
                      Factor(c) * knobs.csize, Factor(c) * knobs.assoc, knobs.bsize)
  IN  [c EXCEPT !.llc = Append(@, new), !.llc_memory = LLC,
                !.privateCaches = Adopted(@, LLC)]

(* Variant of createMain: the last-level cache is not told.                *)
createMainAlone(c) ==
  [c EXCEPT !.main = Append(@, NewCache(Main, NULL, knobs.csize * 64, knobs.assoc * 64, knobs.bsize)),
            !.main_memory = Main]

createMain(c) ==
  LET new == NewCache(Main, NULL, knobs.csize * 64, knobs.assoc * 64, knobs.bsize)
  IN  [c EXCEPT !.main = Append(@, new), !.main_memory = Main, !.llc = Adopted(@, Main)]

-----------------------------------------------------------------------------
(* main.                                                                   *)

KnobValues ==
  [numcaches : CacheCounts, csize : CacheSizes, assoc : Assocs, bsize : BlockSizes,
   useref : BOOLEAN]

Init ==
  /\ pc = "open"
  /\ knobs \in KnobValues
  /\ Caches = <<>> /\ ref = <<>>

Latest == Caches[Len(Caches)]
Reopen(c) == Caches' = [Caches EXCEPT ![Len(Caches)] = c]

(* The next protocol module loads, or main exits.  If it has no Create,    *)
(* main does not notice: it tests the module again instead of the factory, *)
(* which is NULL, and lets the new container call it for its first cache.  *)
OpenProtocol ==
  /\ pc = "open" /\ Len(Caches) < Protocols
  /\ \/ pc' = "private" /\ Caches' = Append(Caches, NewContainer)
     \/ pc' = "exited" /\ UNCHANGED Caches
     \/ pc' = "calledNull" /\ UNCHANGED Caches
  /\ UNCHANGED <<knobs, ref>>

CreateNewCache ==
  /\ pc = "private" /\ Len(Latest.privateCaches) < knobs.numcaches
  /\ Reopen(createNewCache(Latest))
  /\ UNCHANGED <<pc, knobs, ref>>

CreateLLC ==
  /\ pc = "private" /\ Len(Latest.privateCaches) = knobs.numcaches
  /\ IF Factor(Latest) = 0
     THEN pc' = "crashed" /\ UNCHANGED Caches
     ELSE pc' = "main" /\ Reopen(createLLC(Latest))
  /\ UNCHANGED <<knobs, ref>>

CreateMain ==
  /\ pc = "main"
  /\ pc' = "open"
  /\ Reopen(createMain(Latest))
  /\ UNCHANGED <<knobs, ref>>

(* So it does with the reference's module.                                 *)
OpenReference ==
  /\ pc = "open" /\ Len(Caches) = Protocols /\ knobs.useref
  /\ \/ pc' = "reference" /\ ref' = <<NewContainer>>
     \/ pc' = "exited" /\ UNCHANGED ref
     \/ pc' = "calledNull" /\ ref' = <<NewContainer>>
  /\ UNCHANGED <<knobs, Caches>>

CreateReferenceCache ==
  /\ pc = "reference" /\ Len(ref[1].privateCaches) < knobs.numcaches
  /\ ref' = <<createNewCache(ref[1])>>
  /\ UNCHANGED <<pc, knobs, Caches>>

StartProgram ==
  /\ \/ pc = "open" /\ Len(Caches) = Protocols /\ ~knobs.useref
     \/ pc = "reference" /\ Len(ref[1].privateCaches) = knobs.numcaches
  /\ pc' = "running"
  /\ UNCHANGED <<knobs, Caches, ref>>

Next ==
  \/ OpenProtocol \/ CreateNewCache \/ CreateLLC \/ CreateMain
  \/ OpenReference \/ CreateReferenceCache \/ StartProgram

Spec == Init /\ [][Next]_vars
=============================================================================
