---------------------- MODULE Construction_Properties ----------------------
(***************************************************************************)
(* What the constructors must deliver for the caches to work, and for the  *)
(* assumptions of CacheCore and MSI_SMPCache to be those of the program.   *)
(***************************************************************************)
EXTENDS Construction

CachesOf(c) == ToSet(c.privateCaches) \cup ToSet(c.llc) \cup ToSet(c.main)
AllCaches == UNION {CachesOf(c) : c \in ToSet(Caches) \cup ToSet(ref)}
Geometries == {k.geometry : k \in AllCaches}
Complete(c) == Len(c.main) = 1

PowerOfTwo(n) == \E i \in 0 .. Width - 1 : n = 2 ^ i

(* Type invariant: containers of at most one last-level cache and one main *)
(* memory, whose caches carry their identifiers and fit a machine word.    *)
ConstructionTypeOK ==
  /\ pc \in {"open", "private", "main", "reference", "running", "exited", "crashed",
            "calledNull"}
  /\ knobs \in KnobValues
  /\ Len(Caches) <= Protocols /\ Len(ref) <= 1
  /\ \A c \in ToSet(Caches) \cup ToSet(ref) :
       /\ \A i \in DOMAIN c.privateCaches : c.privateCaches[i].CPUId = i - 1
       /\ Len(c.llc) <= 1 /\ Len(c.main) <= Len(c.llc)
       /\ \A k \in CachesOf(c) :
            /\ k.parent \in {LLC, Main, NULL, UNSET}
            /\ \A f \in DOMAIN k.geometry : k.geometry[f] \in Word

(* The row of each set lies inside the array of line pointers, past the    *)
(* row of the set before: the index shifts by the rounded-up logarithm of  *)
(* the ways, but the array has room for the ways themselves.               *)
RowsInside ==
  \A g \in Geometries : \A set \in 0 .. g.sets - 1 :
    /\ calcIndex4Set(g, set) >= (IF set = 0 THEN 0 ELSE calcIndex4Set(g, set - 1) + g.assoc)
    /\ calcIndex4Set(g, set) + g.assoc <= g.numLines

(* A tag and an offset give the address back, although one is a shift by a *)
(* rounded-up logarithm and the other a mask.                              *)
AddressesSplit ==
  \A g \in Geometries : \A addr \in 0 .. 3 * g.lineSize :
    calcAddr4Tag(g, calcTag(g, addr)) + calcOffset(g, addr) = addr

(* The hierarchy MSI_SMPCache assumes: every level of a complete container *)
(* has the same number of sets, a power of two, masking picks the set that *)
(* SetOf does, and each cache has the next level for its parent, the links *)
(* that are set only after the caches exist.                               *)
BuiltAsModelled ==
  \A c \in {d \in ToSet(Caches) : Complete(d)} :
    /\ \E sets \in Word : \A k \in CachesOf(c) : k.geometry.sets = sets /\ PowerOfTwo(sets)
    /\ \A k \in CachesOf(c) : \A tag \in 0 .. 2 * k.geometry.sets :
         calcSet4Tag(k.geometry, tag) = tag % k.geometry.sets
    /\ \A k \in CachesOf(c) :
         k.parent = IF k.CPUId = Main THEN NULL ELSE IF k.CPUId = LLC THEN Main ELSE LLC

(* What the geometry of a cache needs of Snippets, for every number up to  *)
(* the ways of main memory: roundUpPower2 yields the least power of two    *)
(* that is not smaller, a power of two itself, and log2i its exponent.     *)
LeastPower(n) == Min({i \in 0 .. Width - 1 : 2 ^ i >= n})
SnippetsRoundUp ==
  \A n \in 1 .. 64 * knobs.assoc : Log2i(n) = LeastPower(n) /\ RoundUpPower2(n) = 2 ^ LeastPower(n)

(* The README's promise that one cache makes a uniprocessor simulator: the *)
(* construction does not crash.                                            *)
ConstructionCompletes == pc # "crashed"

(* The constructor's comment that ways and sets are powers of two.         *)
PowersOfTwo == \A g \in Geometries : PowerOfTwo(g.assoc) /\ PowerOfTwo(g.sets)
=============================================================================
