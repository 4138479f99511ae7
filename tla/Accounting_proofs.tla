------------------------- MODULE Accounting_proofs -------------------------
(***************************************************************************)
(* Theorems about the statistics of MSI_SMPCache: what one level sends,    *)
(* the next one receives.                                                  *)
(***************************************************************************)
EXTENDS Coherence_proofs, FiniteSetTheorems

-----------------------------------------------------------------------------
(* Sums over the private caches.  Total adds a counter up cache by cache,  *)
(* in an order of its own choice.                                          *)

Pick(S) == CHOOSE x \in S : TRUE
SumBody(h, n, G, S) == IF S = {} THEN 0 ELSE h.stats[Pick(S)][n] + G[S \ {Pick(S)}]
IsSum(h, n, G) == G = [S \in SUBSET Cpus |-> SumBody(h, n, G, S)]
Sums(h, n) == CHOOSE G : IsSum(h, n, G)

(* There are finitely many private caches.                                 *)
LEMMA CpusFinite ==
  /\ IsFiniteSet(Cpus) /\ Cardinality(Cpus) = NumCaches /\ NumCaches \in Nat
  /\ \A S \in SUBSET Cpus : IsFiniteSet(S) /\ Cardinality(S) \in Nat
<1>1. IsFiniteSet(Cpus) /\ Cardinality(Cpus) = NumCaches /\ NumCaches \in Nat
  BY FS_Interval, HierarchyAssumption DEF Cpus
<1> QED BY <1>1, FS_Subset, FS_CardinalityType

(* A collection of sets of caches has a member that leaves the collection  *)
(* when it loses an element.                                               *)
LEMMA SmallestSet ==
  ASSUME NEW B \in SUBSET SUBSET Cpus, B # {}
  PROVE  \E S \in B : \A x \in S : S \ {x} \notin B
<1> DEFINE sizes == {Cardinality(S) : S \in B}
<1>1. sizes \in SUBSET Nat /\ sizes # {}
  BY CpusFinite
<1>2. PICK m \in sizes : \A i \in sizes : m <= i
  BY <1>1, LeastExists
<1>3. PICK S \in B : m = Cardinality(S)
  OBVIOUS
<1>4. ASSUME NEW x \in S, S \ {x} \in B PROVE FALSE
  <2>1. IsFiniteSet(S) /\ Cardinality(S) \in Nat
    BY CpusFinite
  <2>2. Cardinality(S \ {x}) = Cardinality(S) - 1
    BY <2>1, FS_RemoveElement
  <2>3. m <= Cardinality(S \ {x})
    BY <1>2, <1>4
  <2> QED BY <1>3, <2>1, <2>2, <2>3
<1> QED BY <1>4

(* Sums of sets of up to m caches.                                         *)
UpTo(m) == {S \in SUBSET Cpus : Cardinality(S) <= m}
IsSumUpTo(h, n, G, m) == G = [S \in UpTo(m) |-> SumBody(h, n, G, S)]

(* The chosen cache is one of the set.                                     *)
LEMMA PickIn ==
  ASSUME NEW S, S # {}
  PROVE  Pick(S) \in S
BY DEF Pick

(* Sums of up to m caches give those of up to m + 1.                       *)
LEMMA OneMore ==
  ASSUME NEW h, NEW n, NEW m \in Nat, NEW F, IsSumUpTo(h, n, F, m)
  PROVE  \E G : IsSumUpTo(h, n, G, m + 1)
<1> DEFINE G == [S \in UpTo(m + 1) |-> SumBody(h, n, F, S)]
<1>1. ASSUME NEW S \in UpTo(m + 1) PROVE SumBody(h, n, F, S) = SumBody(h, n, G, S)
  <2>1. CASE S = {}
    BY <2>1 DEF SumBody
  <2>2. CASE S # {}
    <3> DEFINE r == S \ {Pick(S)}
    <3>1. IsFiniteSet(S) /\ Cardinality(S) \in Nat /\ S \in SUBSET Cpus /\ Cardinality(S) <= m + 1
      BY CpusFinite DEF UpTo
    <3>2. Cardinality(r) = Cardinality(S) - 1
      BY <2>2, <3>1, PickIn, FS_RemoveElement
    <3>3. r \in UpTo(m) /\ r \in UpTo(m + 1)
      <4>1. r \in SUBSET Cpus
        BY <3>1
      <4>2. Cardinality(r) <= m /\ Cardinality(r) <= m + 1
        <5> HIDE DEF r
        <5> QED BY <3>1, <3>2
      <4> QED BY <4>1, <4>2 DEF UpTo
    <3>4. F[r] = SumBody(h, n, F, r)
      <4> HIDE DEF r
      <4> QED BY <3>3 DEF IsSumUpTo
    <3>5. G[r] = SumBody(h, n, F, r)
      <4> HIDE DEF r
      <4> QED BY <3>3
    <3> QED BY <3>4, <3>5 DEF SumBody
  <2> QED BY <2>1, <2>2
<1>2. G = [S \in UpTo(m + 1) |-> SumBody(h, n, G, S)]
  <2> DEFINE H == [S \in UpTo(m + 1) |-> SumBody(h, n, G, S)]
  <2>1. \A S \in UpTo(m + 1) : SumBody(h, n, F, S) = SumBody(h, n, G, S)
    BY <1>1
  <2> HIDE DEF G
  <2>2. [S \in UpTo(m + 1) |-> SumBody(h, n, F, S)] = [S \in UpTo(m + 1) |-> SumBody(h, n, G, S)]
    BY <2>1
  <2> QED BY <2>2 DEF G
<1> HIDE DEF G
<1> QED BY <1>2 DEF IsSumUpTo

(* So there are sums.                                                      *)
LEMMA SumsExist ==
  ASSUME NEW h, NEW n
  PROVE  IsSum(h, n, Sums(h, n))
<1> DEFINE bad == {m \in Nat : ~\E G : IsSumUpTo(h, n, G, m)}
<1>1. 0 \notin bad
  <2> DEFINE G == [S \in UpTo(0) |-> 0]
  <2>1. \A S \in UpTo(0) : S = {}
    BY CpusFinite, FS_EmptySet DEF UpTo
  <2>2. \A S \in UpTo(0) : SumBody(h, n, G, S) = 0
    BY <2>1 DEF SumBody
  <2>3. IsSumUpTo(h, n, G, 0)
    BY <2>2 DEF IsSumUpTo
  <2> QED BY <2>3
<1>2. \A m \in Nat : m + 1 \in bad => m \in bad
  BY OneMore
<1>3. bad = {}
  <2> SUFFICES ASSUME bad # {} PROVE FALSE
    OBVIOUS
  <2>1. bad \in SUBSET Nat
    OBVIOUS
  <2> HIDE DEF bad
  <2>2. PICK m \in bad : \A i \in bad : m <= i
    BY <2>1, LeastExists
  <2>3. m # 0 /\ m \in Nat
    BY <1>1, <2>1, <2>2
  <2>4. m - 1 \in Nat /\ (m - 1) + 1 = m
    BY <2>3
  <2>5. m - 1 \in bad
    BY <1>2, <2>2, <2>4
  <2> QED BY <2>2, <2>3, <2>5
<1>4. NumCaches \in Nat
  BY CpusFinite
<1>5. PICK G : IsSumUpTo(h, n, G, NumCaches)
  BY <1>3, <1>4
<1>6. UpTo(NumCaches) = SUBSET Cpus
  <2>1. \A S \in SUBSET Cpus : Cardinality(S) <= NumCaches
    BY CpusFinite, FS_Subset
  <2> QED BY <2>1 DEF UpTo
<1>7. IsSum(h, n, G)
  BY <1>5, <1>6 DEF IsSumUpTo, IsSum
<1> QED BY <1>7 DEF Sums

(* The sum of a set of caches is one of them added to the sum of the rest. *)
LEMMA SumsRecur ==
  ASSUME NEW h, NEW n
  PROVE  /\ Sums(h, n)[{}] = 0
         /\ \A S \in SUBSET Cpus : S # {} =>
              Sums(h, n)[S] = h.stats[Pick(S)][n] + Sums(h, n)[S \ {Pick(S)}]
<1> DEFINE G == Sums(h, n)
<1>1. IsSum(h, n, G)
  BY SumsExist
<1> HIDE DEF G
<1>2. \A S \in SUBSET Cpus : G[S] = SumBody(h, n, G, S)
  BY <1>1 DEF IsSum
<1>3. {} \in SUBSET Cpus
  OBVIOUS
<1>4. G[{}] = 0
  BY <1>2, <1>3 DEF SumBody
<1>5. \A S \in SUBSET Cpus : S # {} => G[S] = h.stats[Pick(S)][n] + G[S \ {Pick(S)}]
  BY <1>2 DEF SumBody
<1> QED BY <1>4, <1>5 DEF G

(* Sums of naturals are naturals, and sums of zeros zero.                  *)
LEMMA SumsType ==
  ASSUME NEW h, NEW n
  PROVE  /\ (\A c \in Cpus : h.stats[c][n] \in Nat) => \A S \in SUBSET Cpus : Sums(h, n)[S] \in Nat
         /\ (\A c \in Cpus : h.stats[c][n] = 0) => \A S \in SUBSET Cpus : Sums(h, n)[S] = 0
<1>0. /\ Sums(h, n)[{}] = 0
      /\ \A S \in SUBSET Cpus : S # {} =>
           Sums(h, n)[S] = h.stats[Pick(S)][n] + Sums(h, n)[S \ {Pick(S)}]
  BY SumsRecur
<1> DEFINE G == Sums(h, n)
<1>1. /\ G[{}] = 0
      /\ \A S \in SUBSET Cpus : S # {} => G[S] = h.stats[Pick(S)][n] + G[S \ {Pick(S)}]
  BY <1>0
<1> HIDE DEF G
<1> DEFINE bad == {S \in SUBSET Cpus : G[S] \notin Nat}
           big == {S \in SUBSET Cpus : G[S] # 0}
<1>2. ASSUME bad # {}, \A c \in Cpus : h.stats[c][n] \in Nat PROVE FALSE
  <2>1. bad \in SUBSET SUBSET Cpus
    OBVIOUS
  <2>2. PICK S \in bad : \A x \in S : S \ {x} \notin bad
    <3> HIDE DEF bad
    <3> QED BY <1>2, <2>1, SmallestSet
  <2>3. S \in SUBSET Cpus /\ G[S] \notin Nat /\ S # {}
    <3>1. G[{}] \in Nat
      BY <1>1
    <3> QED BY <3>1
  <2>4. Pick(S) \in S /\ Pick(S) \in Cpus /\ S \ {Pick(S)} \in SUBSET Cpus
    BY <2>3, PickIn
  <2>5. G[S \ {Pick(S)}] \in Nat
    BY <2>2, <2>4
  <2>6. h.stats[Pick(S)][n] \in Nat
    BY <1>2, <2>4
  <2>7. G[S] = h.stats[Pick(S)][n] + G[S \ {Pick(S)}]
    BY <1>1, <2>3
  <2>8. G[S] \in Nat
    BY <2>5, <2>6, <2>7
  <2> QED BY <2>3, <2>8
<1>3. ASSUME big # {}, \A c \in Cpus : h.stats[c][n] = 0 PROVE FALSE
  <2>1. big \in SUBSET SUBSET Cpus
    OBVIOUS
  <2>2. PICK S \in big : \A x \in S : S \ {x} \notin big
    <3> HIDE DEF big
    <3> QED BY <1>3, <2>1, SmallestSet
  <2>3. S \in SUBSET Cpus /\ G[S] # 0 /\ S # {}
    BY <1>1
  <2>4. Pick(S) \in S /\ Pick(S) \in Cpus /\ S \ {Pick(S)} \in SUBSET Cpus
    BY <2>3, PickIn
  <2>5. G[S \ {Pick(S)}] = 0 /\ h.stats[Pick(S)][n] = 0
    BY <1>3, <2>2, <2>4
  <2>6. G[S] = h.stats[Pick(S)][n] + G[S \ {Pick(S)}]
    BY <1>1, <2>3
  <2>7. G[S] = 0 + 0
    BY <2>5, <2>6
  <2> QED BY <2>3, <2>7
<1> QED BY <1>2, <1>3 DEF G

(* When one cache's counter changes, the sum changes by as much.           *)
LEMMA SumsMove ==
  ASSUME NEW n, NEW g, NEW h, NEW c \in Cpus
  PROVE  /\ \A d \in Cpus : g.stats[d][n] \in Nat /\ h.stats[d][n] \in Nat
         /\ \A d \in Cpus \ {c} : g.stats[d][n] = h.stats[d][n]
         => Sums(g, n)[Cpus] = Sums(h, n)[Cpus] + (g.stats[c][n] - h.stats[c][n])
<1>0. /\ Sums(h, n)[{}] = 0 /\ Sums(g, n)[{}] = 0
      /\ \A S \in SUBSET Cpus : S # {} =>
           /\ Sums(h, n)[S] = h.stats[Pick(S)][n] + Sums(h, n)[S \ {Pick(S)}]
           /\ Sums(g, n)[S] = g.stats[Pick(S)][n] + Sums(g, n)[S \ {Pick(S)}]
  BY SumsRecur
<1> SUFFICES ASSUME \A d \in Cpus : g.stats[d][n] \in Nat /\ h.stats[d][n] \in Nat,
                    \A d \in Cpus \ {c} : g.stats[d][n] = h.stats[d][n]
             PROVE  Sums(g, n)[Cpus] = Sums(h, n)[Cpus] + (g.stats[c][n] - h.stats[c][n])
  OBVIOUS
<1> DEFINE F == Sums(h, n)
           G == Sums(g, n)
           moved(S) == IF c \in S THEN g.stats[c][n] - h.stats[c][n] ELSE 0
           bad == {S \in SUBSET Cpus : G[S] # F[S] + moved(S)}
<1>1. /\ F[{}] = 0
      /\ \A S \in SUBSET Cpus : S # {} => F[S] = h.stats[Pick(S)][n] + F[S \ {Pick(S)}]
      /\ \A S \in SUBSET Cpus : F[S] \in Nat
  <2>1. \A S \in SUBSET Cpus : Sums(h, n)[S] \in Nat
    BY SumsType
  <2> QED BY <1>0, <2>1
<1>2. /\ G[{}] = 0
      /\ \A S \in SUBSET Cpus : S # {} => G[S] = g.stats[Pick(S)][n] + G[S \ {Pick(S)}]
      /\ \A S \in SUBSET Cpus : G[S] \in Nat
  <2>1. \A S \in SUBSET Cpus : Sums(g, n)[S] \in Nat
    BY SumsType
  <2> QED BY <1>0, <2>1
<1> HIDE DEF F, G
<1>3. ASSUME bad # {} PROVE FALSE
  <2>1. bad \in SUBSET SUBSET Cpus
    OBVIOUS
  <2>2. PICK S \in bad : \A x \in S : S \ {x} \notin bad
    <3> HIDE DEF bad
    <3> QED BY <1>3, <2>1, SmallestSet
  <2>3. S \in SUBSET Cpus /\ G[S] # F[S] + moved(S)
    OBVIOUS
  <2>4. S # {}
    <3>1. S = {} => moved(S) = 0 /\ G[S] = 0 /\ F[S] = 0
      BY <1>1, <1>2
    <3> HIDE DEF moved, bad
    <3> QED BY <2>3, <3>1
  <2> DEFINE x == Pick(S)
             r == S \ {x}
  <2>5. x \in S /\ x \in Cpus /\ r \in SUBSET Cpus
    BY <2>3, <2>4, PickIn
  <2>6. G[r] = F[r] + moved(r)
    BY <2>2, <2>5
  <2>7. G[S] = g.stats[x][n] + G[r] /\ F[S] = h.stats[x][n] + F[r]
    BY <1>1, <1>2, <2>3, <2>4
  <2>8. g.stats[x][n] \in Nat /\ h.stats[x][n] \in Nat /\ g.stats[c][n] \in Nat /\ h.stats[c][n] \in Nat /\ G[r] \in Nat /\ F[r] \in Nat
    BY <1>1, <1>2, <2>5
  <2>9. CASE x = c
    <3>1. moved(r) = 0 /\ moved(S) = g.stats[c][n] - h.stats[c][n]
      BY <2>5, <2>9
    <3> QED BY <2>3, <2>6, <2>7, <2>8, <2>9, <3>1
  <2>10. CASE x # c
    <3>1. moved(r) = moved(S) /\ g.stats[x][n] = h.stats[x][n]
      BY <2>5, <2>10
    <3>2. moved(S) \in Int
      BY <2>8
    <3> HIDE DEF x, r, moved
    <3> QED BY <2>3, <2>6, <2>7, <2>8, <3>1, <3>2
  <2> QED BY <2>9, <2>10
<1>4. G[Cpus] = F[Cpus] + moved(Cpus)
  BY <1>3
<1> QED BY <1>4 DEF F, G

(* Total is such a sum, before a step and after it.                        *)
LEMMA TotalIs == \A n : Total(n) = Sums(hier, n)[Cpus]
BY DEF Total, MapThenSumSet, MapThenFoldSet, Sums, IsSum, SumBody, Pick

(* And Total after a step is the sum then.                                 *)
LEMMA TotalBecomes == \A n : Total(n)' = Sums(hier', n)[Cpus]
BY DEF Total, MapThenSumSet, MapThenFoldSet, Sums, IsSum, SumBody, Pick

-----------------------------------------------------------------------------
(* The counters that the accounting relates, and what one event adds.      *)

One == IF Counting THEN 1 ELSE 0

Sent(h, k) == h.stats[k]["numReplacements"]
Got(h, k) == h.stats[k]["numWritebacksReceived"]
Missed(h, k) == h.stats[k]["numReadMisses"]
Reads(h, k) == h.stats[k]["numReadHits"] + h.stats[k]["numReadMisses"]

(* No cache but those of K has counted.                                    *)
Elsewhere(g, h, K) == \A j \in Caches \ K : g.stats[j] = h.stats[j]

(* An event adds one to a counter, or nothing if none are kept.            *)
LEMMA OneType == One \in Nat
BY DEF One

(* Every counter is a number.                                              *)
LEMMA CounterType ==
  ASSUME NEW h, HierType(h), NEW k \in Caches
  PROVE  /\ \A n \in Counters : h.stats[k][n] \in Nat
         /\ Sent(h, k) \in Nat /\ Got(h, k) \in Nat
         /\ Missed(h, k) \in Nat /\ Reads(h, k) \in Nat
<1>1. h.stats \in [Caches -> [Counters -> Nat]]
  BY DEF HierType
<1>2. \A n \in Counters : h.stats[k][n] \in Nat
  BY <1>1
<1>3. /\ "numReplacements" \in Counters /\ "numWritebacksReceived" \in Counters
      /\ "numReadMisses" \in Counters /\ "numReadHits" \in Counters
  BY DEF Counters
<1> QED BY <1>2, <1>3 DEF Sent, Got, Missed, Reads

(* Counting adds one to the counters named, of the cache named.            *)
Ticks(g, h, k, names) ==
  /\ HierType(g) /\ g.cache = h.cache
  /\ Elsewhere(g, h, {k})
  /\ \A n \in Counters : g.stats[k][n] =
       IF n \in names THEN h.stats[k][n] + One ELSE h.stats[k][n]

(* What Count does to the counters.                                        *)
LEMMA CountCounts ==
  ASSUME NEW h, HierType(h), NEW k \in Caches, NEW names
  PROVE  Ticks(Count(h, k, names), h, k, names)
<1>0. HierType(Count(h, k, names)) /\ Count(h, k, names).cache = h.cache
  BY CountType
<1>1. CASE ~Counting
  <2>1. Count(h, k, names) = h /\ One = 0
    BY <1>1 DEF Count, One
  <2>2. \A n \in Counters : h.stats[k][n] \in Nat
    BY CounterType
  <2> QED BY <1>0, <2>1, <2>2 DEF Elsewhere, Ticks
<1>2. CASE Counting
  <2> DEFINE f == [n \in Counters |-> IF n \in names THEN h.stats[k][n] + 1 ELSE h.stats[k][n]]
  <2>1. /\ h = [cache |-> h.cache, stats |-> h.stats]
        /\ h.stats \in [Caches -> [Counters -> Nat]]
    BY DEF HierType
  <2>2. Count(h, k, names) = [cache |-> h.cache, stats |-> [h.stats EXCEPT ![k] = f]]
    BY <1>2, <2>1 DEF Count
  <2>3. \A n \in Counters : f[n] = IF n \in names THEN h.stats[k][n] + One ELSE h.stats[k][n]
    BY <1>2 DEF One
  <2> HIDE DEF f
  <2>4. /\ Count(h, k, names).stats[k] = f
        /\ \A j \in Caches \ {k} : Count(h, k, names).stats[j] = h.stats[j]
    BY <2>1, <2>2
  <2> QED BY <1>0, <2>3, <2>4 DEF Elsewhere, Ticks
<1> QED BY <1>1, <1>2

(* Lookups, updates of a row and snoops count nothing.                     *)
LEMMA WithRowCounts ==
  ASSUME NEW h, HierType(h), NEW k \in Caches, NEW t \in Tags
  PROVE  /\ \A row : WithRow(h, k, t, row).stats = h.stats
         /\ Look(h, k, t).stats = h.stats
<1>1. h = [cache |-> h.cache, stats |-> h.stats]
  BY DEF HierType
<1>2. ASSUME NEW row PROVE WithRow(h, k, t, row).stats = h.stats
  <2> DEFINE rows == [h.cache EXCEPT ![k] = [h.cache[k] EXCEPT ![SetOf(t)] = row]]
  <2>1. k \in DOMAIN h.cache
    BY DEF HierType
  <2>2. WithRow(h, k, t, row) = [h EXCEPT !.cache = rows]
    BY <2>1 DEF WithRow
  <2> HIDE DEF rows
  <2>3. [h EXCEPT !.cache = rows].stats = h.stats
    BY <1>1
  <2> QED BY <2>2, <2>3
<1> QED BY <1>2 DEF Look

(* Nor does a snoop.                                                       *)
LEMMA RemoteCounts ==
  ASSUME NEW h, HierType(h), NEW c \in Cpus, NEW t \in Tags
  PROVE  /\ ReadRemoteAction(h, c, t).stats = h.stats
         /\ WriteRemoteAction(h, c, t).stats = h.stats
<1>1. h = [cache |-> h.cache, stats |-> h.stats]
  BY DEF HierType
<1>2. \A rows : [h EXCEPT !.cache = rows].stats = h.stats
  BY <1>1
<1> QED BY <1>2 DEF ReadRemoteAction, WriteRemoteAction

-----------------------------------------------------------------------------
(* The levels below the private caches.                                    *)

(* Main memory counts each write-back it receives, and its reads.          *)
LEMMA MainWriteCounts ==
  ASSUME NEW h, HierType(h), NEW t \in Tags, NEW data \in LineData
  PROVE  LET g == MainWrite(h, t, data)
         IN  /\ Elsewhere(g, h, {Main})
             /\ Got(g, Main) = Got(h, Main) + One
             /\ Reads(g, Main) = Reads(h, Main) /\ Sent(g, Main) = Sent(h, Main)
<1> DEFINE looked == Count(Look(h, Main, t), Main, {"numWritebacksReceived"})
           put == WithRow(looked, Main, t, SetData(RowOf(looked, Main, t), data))
           hit == Count(put, Main, {"numWriteHits"})
           fill == FillLine(looked, Main, t, "M", data, NoWrite)
           fine(g) == /\ Elsewhere(g, h, {Main})
                      /\ Got(g, Main) = Got(h, Main) + One
                      /\ Reads(g, Main) = Reads(h, Main) /\ Sent(g, Main) = Sent(h, Main)
<1>1. Main \in Caches /\ Assoc(Main) \in Nat \ {0}
  BY CacheFacts
<1>2. HierType(Look(h, Main, t)) /\ Look(h, Main, t).stats = h.stats
  BY <1>1, LookType, WithRowCounts
<1>3. HierType(looked) /\ fine(looked)
  <2>1. HierType(looked)
    BY <1>1, <1>2, CountType
  <2>2. Ticks(looked, Look(h, Main, t), Main, {"numWritebacksReceived"})
    BY <1>1, <1>2, CountCounts
  <2> QED BY <1>2, <2>1, <2>2 DEF Ticks, Elsewhere, Got, Reads, Sent, Counters
<1>4. HierType(put) /\ put.stats = looked.stats
  <2> DEFINE row == SetData(RowOf(looked, Main, t), data)
  <2>1. HierType(looked)
    BY <1>3
  <2> HIDE DEF looked
  <2>2. row \in Row(Assoc(Main))
    BY <1>1, <2>1, RowOfType, FrontUpdateType
  <2> HIDE DEF row
  <2>3. HierType(WithRow(looked, Main, t, row)) /\ WithRow(looked, Main, t, row).stats = looked.stats
    BY <1>1, <2>1, <2>2, WithRowType, WithRowCounts
  <2> QED BY <2>3 DEF row
<1>5. fine(hit)
  <2>1. Ticks(hit, put, Main, {"numWriteHits"})
    BY <1>1, <1>4, CountCounts
  <2> HIDE DEF hit, put, looked
  <2> QED BY <1>3, <1>4, <2>1 DEF Ticks, Elsewhere, Got, Reads, Sent, Counters
<1>6. fine(fill)
  <2>1. fill = WithRow(looked, Main, t, Install(RowOf(looked, Main, t), t, "M", data))
    BY DEF FillLine, Evicts
  <2>2. fill.stats = looked.stats
    BY <1>1, <1>3, <2>1, WithRowCounts
  <2> HIDE DEF fill, looked
  <2> QED BY <1>3, <2>2 DEF Ticks, Elsewhere, Got, Reads, Sent
<1>7. MainWrite(h, t, data) = IF HitsIn(h, Main, t) THEN hit ELSE fill
  BY DEF MainWrite, WriteLine, Received
<1> HIDE DEF hit, fill
<1> QED BY <1>5, <1>6, <1>7

(* It counts each read once, as a hit or as a miss.                        *)
LEMMA MainReadCounts ==
  ASSUME NEW h, HierType(h), NEW t \in Tags
  PROVE  LET g == MainRead(h, t).hier
         IN  /\ Elsewhere(g, h, {Main})
             /\ Got(g, Main) = Got(h, Main)
             /\ Reads(g, Main) = Reads(h, Main) + One /\ Sent(g, Main) = Sent(h, Main)
<1> DEFINE looked == Look(h, Main, t)
           missed == Count(looked, Main, {"numReadMisses", "numReadRequestsSent"})
           hit == Count(looked, Main, {"numReadHits"})
           fill == FillLine(missed, Main, t, "S", NaNLine, NoWrite)
           fine(g) == /\ Elsewhere(g, h, {Main})
                      /\ Got(g, Main) = Got(h, Main)
                      /\ Reads(g, Main) = Reads(h, Main) + One /\ Sent(g, Main) = Sent(h, Main)
<1>1. Main \in Caches
  BY CacheFacts
<1>2. HierType(looked) /\ looked.stats = h.stats
  BY <1>1, LookType, WithRowCounts
<1>3. /\ "numReadHits" \in Counters /\ "numReadMisses" \in Counters
      /\ "numReplacements" \in Counters /\ "numWritebacksReceived" \in Counters
      /\ \A n \in Counters : h.stats[Main][n] \in Nat
      /\ One \in Nat
  BY <1>1, CounterType, OneType DEF Counters
<1>4. fine(hit)
  <2>1. Ticks(hit, looked, Main, {"numReadHits"})
    BY <1>1, <1>2, CountCounts
  <2> HIDE DEF hit, looked
  <2> QED BY <1>2, <1>3, <2>1 DEF Ticks, Elsewhere, Got, Reads, Sent
<1>5. HierType(missed) /\ fine(missed)
  <2>1. HierType(missed)
    BY <1>1, <1>2, CountType
  <2>2. Ticks(missed, looked, Main, {"numReadMisses", "numReadRequestsSent"})
    BY <1>1, <1>2, CountCounts
  <2> HIDE DEF missed, looked
  <2> QED BY <1>2, <1>3, <2>1, <2>2 DEF Ticks, Elsewhere, Got, Reads, Sent
<1>6. fine(fill)
  <2>1. fill = WithRow(missed, Main, t, Install(RowOf(missed, Main, t), t, "S", NaNLine))
    BY DEF FillLine, Evicts
  <2>2. fill.stats = missed.stats
    BY <1>1, <1>5, <2>1, WithRowCounts
  <2> HIDE DEF fill, missed
  <2> QED BY <1>5, <2>2 DEF Ticks, Elsewhere, Got, Reads, Sent
<1>7. MainRead(h, t).hier = IF HitsIn(h, Main, t) THEN hit ELSE fill
  BY DEF MainRead, ReadLine, NoRead
<1> HIDE DEF hit, fill
<1> QED BY <1>4, <1>6, <1>7

(* What the lower levels have counted of one another.                      *)
Balance(h) ==
  /\ Sent(h, LLC) = Got(h, Main) /\ Sent(h, Main) = 0
  /\ Reads(h, Main) = Missed(h, LLC)

(* The last-level cache sends victims below, and nothing else.             *)
Passes(g, h) ==
  /\ HierType(g) /\ Elsewhere(g, h, {LLC, Main})
  /\ Got(g, LLC) = Got(h, LLC) /\ Missed(g, LLC) = Missed(h, LLC) /\ Reads(g, LLC) = Reads(h, LLC)
  /\ Sent(g, LLC) + Got(h, Main) = Sent(h, LLC) + Got(g, Main)
  /\ Reads(g, Main) = Reads(h, Main) /\ Sent(g, Main) = Sent(h, Main)

Keeps(g, h) ==
  /\ HierType(g) /\ Elsewhere(g, h, {LLC, Main})
  /\ Balance(h) => Balance(g)

(* The counters that the accounting names.                                 *)
LEMMA CounterNames ==
  /\ "numReplacements" \in Counters /\ "numWritebacksReceived" \in Counters
  /\ "numReadMisses" \in Counters /\ "numReadHits" \in Counters
  /\ "numReadMissesServicedByOthers" \in Counters /\ "numWriteMisses" \in Counters
  /\ "numWriteOnSharedMisses" \in Counters /\ "numInvalidatesSent" \in Counters
  /\ "numReadOnInvalidMisses" \in Counters /\ "numWriteOnInvalidMisses" \in Counters
BY DEF Counters

(* A fill of the last-level cache.                                         *)
LEMMA LLCFillCounts ==
  ASSUME NEW h, HierType(h), NEW t \in Tags, NEW s \in States, NEW data \in LineData
  PROVE  Passes(FillLine(h, LLC, t, s, data, MainWrite), h)
<1> DEFINE victim == Victim(RowOf(h, LLC, t), t)
           written == MainWrite(h, victim.tag, victim.data)
           pushed == Count(written, LLC, {"numReplacements"})
           row == Install(RowOf(h, LLC, t), t, s, data)
           fill == FillLine(h, LLC, t, s, data, MainWrite)
<1>1. LLC \in Caches /\ Main \in Caches /\ LLC # Main
  BY CacheFacts
<1>2. victim.tag \in Tags /\ victim.data \in LineData
  <2>1. victim \in Line
    BY <1>1, FillType
  <2> QED BY <2>1 DEF Line
<1>3. /\ HierType(written) /\ Elsewhere(written, h, {Main})
      /\ Got(written, Main) = Got(h, Main) + One
      /\ Reads(written, Main) = Reads(h, Main) /\ Sent(written, Main) = Sent(h, Main)
  BY <1>2, MainWriteType, MainWriteCounts
<1>4. Ticks(pushed, written, LLC, {"numReplacements"})
  BY <1>1, <1>3, CountCounts
<1>5. HierType(fill)
  BY LLCFillType
<1>6. fill = WithRow(IF Evicts(h, LLC, t) THEN pushed ELSE h, LLC, t, row)
  BY DEF FillLine
<1>7. fill.stats = IF Evicts(h, LLC, t) THEN pushed.stats ELSE h.stats
  <2>1. HierType(pushed)
    BY <1>4 DEF Ticks
  <2> HIDE DEF pushed, row, fill
  <2> QED BY <1>1, <1>6, <2>1, WithRowCounts
<1>8. /\ Sent(h, LLC) \in Nat /\ Got(h, Main) \in Nat /\ One \in Nat
  BY <1>1, CounterType, OneType
<1> HIDE DEF written, pushed, fill
<1>9. CASE Evicts(h, LLC, t)
  <2>1. fill.stats = pushed.stats
    BY <1>7, <1>9
  <2>2. Elsewhere(fill, h, {LLC, Main})
    BY <1>3, <1>4, <2>1 DEF Ticks, Elsewhere
  <2>3. written.stats[LLC] = h.stats[LLC] /\ fill.stats[Main] = written.stats[Main]
    BY <1>1, <1>3, <1>4, <2>1 DEF Ticks, Elsewhere
  <2>4. \A n \in Counters : fill.stats[LLC][n] =
          IF n \in {"numReplacements"} THEN h.stats[LLC][n] + One ELSE h.stats[LLC][n]
    BY <1>4, <2>1, <2>3 DEF Ticks
  <2>5. /\ Sent(fill, LLC) = Sent(h, LLC) + One /\ Got(fill, LLC) = Got(h, LLC)
        /\ Missed(fill, LLC) = Missed(h, LLC) /\ Reads(fill, LLC) = Reads(h, LLC)
    BY <2>4, CounterNames DEF Sent, Got, Missed, Reads
  <2>6. /\ Got(fill, Main) = Got(h, Main) + One
        /\ Reads(fill, Main) = Reads(h, Main) /\ Sent(fill, Main) = Sent(h, Main)
    BY <1>3, <2>3 DEF Got, Reads, Sent
  <2> QED BY <1>5, <1>8, <2>2, <2>5, <2>6 DEF Passes, fill
<1>10. CASE ~Evicts(h, LLC, t)
  <2>1. fill.stats = h.stats
    BY <1>7, <1>10
  <2> QED BY <1>5, <1>8, <2>1 DEF Passes, Elsewhere, Sent, Got, Missed, Reads, fill
<1> QED BY <1>9, <1>10

(* What passes below keeps the balance.                                    *)
LEMMA PassesKeeps ==
  ASSUME NEW h, HierType(h), NEW g, Passes(g, h)
  PROVE  Keeps(g, h)
<1>1. LLC \in Caches /\ Main \in Caches
  BY CacheFacts
<1>2. /\ Sent(h, LLC) \in Nat /\ Got(h, Main) \in Nat
      /\ Sent(g, LLC) \in Nat /\ Got(g, Main) \in Nat
  BY <1>1, CounterType DEF Passes
<1>3. Balance(h) => Balance(g)
  BY <1>2 DEF Passes, Balance
<1> QED BY <1>3 DEF Passes, Keeps

(* Two steps that keep the balance keep it together.                       *)
LEMMA KeepsTrans ==
  ASSUME NEW f, NEW g, NEW h, Keeps(f, g), Keeps(g, h)
  PROVE  Keeps(f, h)
BY DEF Keeps, Elsewhere

(* The last-level cache counts each write-back it receives.                *)
LEMMA LLCWriteCounts ==
  ASSUME NEW h, HierType(h), NEW t \in Tags, NEW data \in LineData
  PROVE  /\ Keeps(LLCWrite(h, t, data), h)
         /\ Got(LLCWrite(h, t, data), LLC) = Got(h, LLC) + One
         /\ Reads(LLCWrite(h, t, data), LLC) = Reads(h, LLC)
<1> DEFINE looked == Count(Look(h, LLC, t), LLC, {"numWritebacksReceived"})
           row == SetData(RowOf(looked, LLC, t), data)
           put == WithRow(looked, LLC, t, row)
           hit == Count(put, LLC, {"numWriteHits"})
           fill == FillLine(looked, LLC, t, "M", data, MainWrite)
           fine(g) == Keeps(g, h) /\ Got(g, LLC) = Got(h, LLC) + One /\ Reads(g, LLC) = Reads(h, LLC)
<1>1. LLC \in Caches /\ Main \in Caches /\ LLC # Main /\ Assoc(LLC) \in Nat \ {0}
  BY CacheFacts
<1>2. HierType(Look(h, LLC, t)) /\ Look(h, LLC, t).stats = h.stats
  BY <1>1, LookType, WithRowCounts
<1>3. Ticks(looked, Look(h, LLC, t), LLC, {"numWritebacksReceived"})
  BY <1>1, <1>2, CountCounts
<1>4. HierType(looked)
  BY <1>3 DEF Ticks
<1> HIDE DEF looked
<1>5. fine(looked)
  <2>1. looked.stats[Main] = h.stats[Main] /\ Elsewhere(looked, h, {LLC, Main})
    BY <1>1, <1>2, <1>3 DEF Ticks, Elsewhere
  <2>2. /\ Sent(looked, LLC) = Sent(h, LLC) /\ Missed(looked, LLC) = Missed(h, LLC)
        /\ Got(looked, LLC) = Got(h, LLC) + One /\ Reads(looked, LLC) = Reads(h, LLC)
    BY <1>2, <1>3, CounterNames DEF Ticks, Sent, Got, Missed, Reads
  <2>3. Balance(h) => Balance(looked)
    BY <2>1, <2>2 DEF Balance, Sent, Got, Reads
  <2> QED BY <1>4, <2>1, <2>2, <2>3 DEF Keeps
<1>6. row \in Row(Assoc(LLC))
  BY <1>1, <1>4, RowOfType, FrontUpdateType
<1> HIDE DEF row
<1>7. HierType(put) /\ put.stats = looked.stats
  BY <1>1, <1>4, <1>6, WithRowType, WithRowCounts
<1> HIDE DEF put
<1>8. Ticks(hit, put, LLC, {"numWriteHits"})
  BY <1>1, <1>7, CountCounts
<1> HIDE DEF hit
<1>9. fine(hit)
  <2>1. HierType(hit) /\ hit.stats[Main] = looked.stats[Main] /\ Elsewhere(hit, looked, {LLC, Main})
    BY <1>1, <1>7, <1>8 DEF Ticks, Elsewhere
  <2>2. /\ Sent(hit, LLC) = Sent(looked, LLC) /\ Missed(hit, LLC) = Missed(looked, LLC)
        /\ Got(hit, LLC) = Got(looked, LLC) /\ Reads(hit, LLC) = Reads(looked, LLC)
    BY <1>7, <1>8, CounterNames DEF Ticks, Sent, Got, Missed, Reads
  <2>3. Balance(looked) => Balance(hit)
    BY <2>1, <2>2 DEF Balance, Sent, Got, Reads
  <2>4. Keeps(hit, looked)
    BY <2>1, <2>3 DEF Keeps
  <2> QED BY <1>5, <2>2, <2>4, KeepsTrans
<1>10. fine(fill)
  <2>1. Passes(fill, looked)
    BY <1>4, LLCFillCounts DEF States
  <2> HIDE DEF fill
  <2>2. Keeps(fill, looked)
    BY <1>4, <2>1, PassesKeeps
  <2>3. Keeps(fill, h)
    BY <1>5, <2>2, KeepsTrans
  <2> QED BY <1>5, <2>1, <2>3 DEF Passes
<1>11. LLCWrite(h, t, data) = IF HitsIn(h, LLC, t) THEN hit ELSE fill
  BY DEF LLCWrite, WriteLine, Received, looked, put, hit, fill, row
<1> HIDE DEF fill
<1> QED BY <1>9, <1>10, <1>11

(* It counts each read, and asks main memory for each that misses.         *)
LEMMA LLCReadCounts ==
  ASSUME NEW h, HierType(h), NEW t \in Tags
  PROVE  /\ Keeps(LLCRead(h, t).hier, h)
         /\ Got(LLCRead(h, t).hier, LLC) = Got(h, LLC)
         /\ Reads(LLCRead(h, t).hier, LLC) = Reads(h, LLC) + One
<1> DEFINE looked == Look(h, LLC, t)
           hit == Count(looked, LLC, {"numReadHits"})
           missed == Count(looked, LLC, {"numReadMisses", "numReadRequestsSent"})
           below == MainRead(missed, t)
           fill == FillLine(below.hier, LLC, t, "S", below.data, MainWrite)
           fine(g) == Keeps(g, h) /\ Got(g, LLC) = Got(h, LLC) /\ Reads(g, LLC) = Reads(h, LLC) + One
<1>1. LLC \in Caches /\ Main \in Caches /\ LLC # Main
  BY CacheFacts
<1>2. HierType(looked) /\ looked.stats = h.stats
  BY <1>1, LookType, WithRowCounts
<1>3. Ticks(hit, looked, LLC, {"numReadHits"})
  BY <1>1, <1>2, CountCounts
<1>4. Ticks(missed, looked, LLC, {"numReadMisses", "numReadRequestsSent"})
  BY <1>1, <1>2, CountCounts
<1>5. /\ \A n \in Counters : h.stats[LLC][n] \in Nat
      /\ Reads(h, Main) \in Nat /\ Missed(h, LLC) \in Nat /\ One \in Nat
  BY <1>1, CounterType, OneType
<1>6. HierType(missed)
  BY <1>4 DEF Ticks
<1> HIDE DEF looked, hit, missed
<1>7. fine(hit)
  <2>1. HierType(hit) /\ hit.stats[Main] = h.stats[Main] /\ Elsewhere(hit, h, {LLC, Main})
    BY <1>1, <1>2, <1>3 DEF Ticks, Elsewhere
  <2>2. /\ Sent(hit, LLC) = Sent(h, LLC) /\ Missed(hit, LLC) = Missed(h, LLC)
        /\ Got(hit, LLC) = Got(h, LLC) /\ Reads(hit, LLC) = Reads(h, LLC) + One
    BY <1>2, <1>3, <1>5, CounterNames DEF Ticks, Sent, Got, Missed, Reads
  <2>3. Balance(h) => Balance(hit)
    BY <2>1, <2>2 DEF Balance, Sent, Got, Reads
  <2> QED BY <2>1, <2>2, <2>3 DEF Keeps
<1>8. /\ missed.stats[Main] = h.stats[Main] /\ Elsewhere(missed, h, {LLC, Main})
      /\ Sent(missed, LLC) = Sent(h, LLC) /\ Missed(missed, LLC) = Missed(h, LLC) + One
      /\ Got(missed, LLC) = Got(h, LLC) /\ Reads(missed, LLC) = Reads(h, LLC) + One
  <2>1. missed.stats[Main] = h.stats[Main] /\ Elsewhere(missed, h, {LLC, Main})
    BY <1>1, <1>2, <1>4 DEF Ticks, Elsewhere
  <2>2. /\ Sent(missed, LLC) = Sent(h, LLC) /\ Missed(missed, LLC) = Missed(h, LLC) + One
        /\ Got(missed, LLC) = Got(h, LLC) /\ Reads(missed, LLC) = Reads(h, LLC) + One
    BY <1>2, <1>4, <1>5, CounterNames DEF Ticks, Sent, Got, Missed, Reads
  <2> QED BY <2>1, <2>2
<1>9. /\ HierType(below.hier) /\ below.data \in LineData
      /\ Elsewhere(below.hier, missed, {Main})
      /\ Got(below.hier, Main) = Got(missed, Main) /\ Sent(below.hier, Main) = Sent(missed, Main)
      /\ Reads(below.hier, Main) = Reads(missed, Main) + One
  BY <1>6, MainReadType, MainReadCounts
<1> HIDE DEF below
<1>10. Passes(fill, below.hier)
  BY <1>9, LLCFillCounts DEF States
<1> HIDE DEF fill
<1>11. fine(fill)
  <2>1. below.hier.stats[LLC] = missed.stats[LLC] /\ Elsewhere(below.hier, h, {LLC, Main})
    BY <1>1, <1>8, <1>9 DEF Elsewhere
  <2>2. Balance(h) => Balance(below.hier)
    BY <1>5, <1>8, <1>9, <2>1 DEF Balance, Sent, Got, Reads, Missed
  <2>3. Keeps(below.hier, h)
    BY <1>9, <2>1, <2>2 DEF Keeps
  <2>4. Keeps(fill, below.hier)
    BY <1>9, <1>10, PassesKeeps
  <2>5. Keeps(fill, h)
    BY <2>3, <2>4, KeepsTrans
  <2>6. Got(below.hier, LLC) = Got(missed, LLC) /\ Reads(below.hier, LLC) = Reads(missed, LLC)
    BY <2>1 DEF Got, Reads
  <2> QED BY <1>8, <1>10, <2>5, <2>6 DEF Passes
<1>12. LLCRead(h, t).hier = IF HitsIn(h, LLC, t) THEN hit ELSE fill
  BY DEF LLCRead, ReadLine, looked, hit, missed, below, fill
<1> QED BY <1>7, <1>11, <1>12

-----------------------------------------------------------------------------
(* A private cache, with everything below it.  Apart from its write-backs, *)
(* which all arrive, cache c counts N, and it asks the last-level cache    *)
(* for a line if asks.                                                     *)
Event(g, h, c, N, asks) ==
  /\ HierType(g) /\ Elsewhere(g, h, {c, LLC, Main})
  /\ Balance(h) => Balance(g)
  /\ Sent(g, c) + Got(h, LLC) = Sent(h, c) + Got(g, LLC)
  /\ Reads(g, LLC) = Reads(h, LLC) + (IF asks THEN One ELSE 0)
  /\ \A n \in Counters \ {"numReplacements"} :
       g.stats[c][n] = IF n \in N THEN h.stats[c][n] + One ELSE h.stats[c][n]

(* A change of rows alone is no event.                                     *)
LEMMA Nothing ==
  ASSUME NEW h, HierType(h), NEW g, HierType(g), g.stats = h.stats, NEW c \in Cpus
  PROVE  Event(g, h, c, {}, FALSE)
<1>1. c \in Caches /\ LLC \in Caches
  BY CacheFacts
<1>2. Sent(h, c) \in Nat /\ Got(h, LLC) \in Nat /\ Reads(h, LLC) \in Nat
  BY <1>1, CounterType
<1>3. /\ Sent(g, c) = Sent(h, c) /\ Got(g, LLC) = Got(h, LLC) /\ Reads(g, LLC) = Reads(h, LLC)
      /\ Balance(h) => Balance(g)
  BY DEF Sent, Got, Reads, Missed, Balance
<1>4. Reads(g, LLC) = Reads(h, LLC) + 0
  BY <1>2, <1>3
<1> QED BY <1>2, <1>3, <1>4 DEF Event, Elsewhere

(* Counting in a private cache is the event of what it counts.             *)
LEMMA Counted ==
  ASSUME NEW h, HierType(h), NEW c \in Cpus, NEW names, "numReplacements" \notin names
  PROVE  Event(Count(h, c, names), h, c, names, FALSE)
<1> DEFINE g == Count(h, c, names)
<1>1. c \in Caches /\ LLC \in Caches /\ Main \in Caches /\ c # LLC /\ c # Main
  BY CacheFacts
<1>2. Ticks(g, h, c, names)
  BY <1>1, CountCounts
<1> HIDE DEF g
<1>3. Sent(h, c) \in Nat /\ Got(h, LLC) \in Nat /\ Reads(h, LLC) \in Nat
  BY <1>1, CounterType
<1>4. g.stats[LLC] = h.stats[LLC] /\ g.stats[Main] = h.stats[Main]
  BY <1>1, <1>2 DEF Ticks, Elsewhere
<1>5. Sent(g, c) = Sent(h, c)
  BY <1>2, CounterNames DEF Ticks, Sent
<1>6. Got(g, LLC) = Got(h, LLC) /\ Reads(g, LLC) = Reads(h, LLC) + 0 /\ (Balance(h) => Balance(g))
  BY <1>3, <1>4 DEF Got, Reads, Sent, Missed, Balance
<1>7. Event(g, h, c, names, FALSE)
  BY <1>2, <1>5, <1>6 DEF Event, Ticks, Elsewhere
<1> QED BY <1>7 DEF g

(* Two events that count different things are one that counts both.        *)
LEMMA EventTrans ==
  ASSUME NEW f, NEW g, NEW h, HierType(h), NEW c \in Cpus, NEW M, NEW N,
         NEW asked \in BOOLEAN, NEW asks \in BOOLEAN,
         Event(g, h, c, M, asked), Event(f, g, c, N, asks),
         \A n \in M : n \notin N, ~(asked /\ asks)
  PROVE  Event(f, h, c, M \cup N, asked \/ asks)
<1>1. c \in Caches /\ LLC \in Caches
  BY CacheFacts
<1>2. HierType(f) /\ HierType(g)
  BY DEF Event
<1>3. /\ \A k \in {f, g, h} : Sent(k, c) \in Nat /\ Got(k, LLC) \in Nat /\ Reads(k, LLC) \in Nat
      /\ One \in Nat
  BY <1>1, <1>2, CounterType, OneType
<1>4. Elsewhere(f, h, {c, LLC, Main}) /\ (Balance(h) => Balance(f))
  BY DEF Event, Elsewhere
<1>5. Sent(f, c) + Got(h, LLC) = Sent(h, c) + Got(f, LLC)
  <2>1. /\ Sent(g, c) + Got(h, LLC) = Sent(h, c) + Got(g, LLC)
        /\ Sent(f, c) + Got(g, LLC) = Sent(g, c) + Got(f, LLC)
    BY DEF Event
  <2>2. /\ Sent(f, c) \in Nat /\ Sent(g, c) \in Nat /\ Sent(h, c) \in Nat
        /\ Got(f, LLC) \in Nat /\ Got(g, LLC) \in Nat /\ Got(h, LLC) \in Nat
    BY <1>3
  <2> QED BY <2>1, <2>2
<1>6. Reads(f, LLC) = Reads(h, LLC) + (IF asked \/ asks THEN One ELSE 0)
  <2>1. /\ Reads(g, LLC) = Reads(h, LLC) + (IF asked THEN One ELSE 0)
        /\ Reads(f, LLC) = Reads(g, LLC) + (IF asks THEN One ELSE 0)
    BY DEF Event
  <2>2. CASE asked
    <3>1. Reads(g, LLC) = Reads(h, LLC) + One /\ Reads(f, LLC) = Reads(g, LLC) + 0
      BY <2>1, <2>2
    <3> QED BY <1>3, <2>2, <3>1
  <2>3. CASE ~asked
    <3>1. Reads(g, LLC) = Reads(h, LLC) + 0
      BY <2>1, <2>3
    <3>2. Reads(g, LLC) = Reads(h, LLC)
      BY <1>3, <3>1
    <3> QED BY <2>1, <2>3, <3>2
  <2> QED BY <2>2, <2>3
<1>7. ASSUME NEW n \in Counters \ {"numReplacements"}
      PROVE  f.stats[c][n] = IF n \in M \cup N THEN h.stats[c][n] + One ELSE h.stats[c][n]
  <2>1. /\ g.stats[c][n] = IF n \in M THEN h.stats[c][n] + One ELSE h.stats[c][n]
        /\ f.stats[c][n] = IF n \in N THEN g.stats[c][n] + One ELSE g.stats[c][n]
    BY DEF Event
  <2>2. ~(n \in M /\ n \in N)
    OBVIOUS
  <2> QED BY <2>1, <2>2
<1> QED BY <1>2, <1>4, <1>5, <1>6, <1>7 DEF Event

(* Reading from the last-level cache is the event of asking for a line.    *)
LEMMA AskCounts ==
  ASSUME NEW h, HierType(h), NEW c \in Cpus, NEW t \in Tags
  PROVE  Event(LLCRead(h, t).hier, h, c, {}, TRUE)
<1> DEFINE g == LLCRead(h, t).hier
<1>1. c \in Caches /\ LLC \in Caches /\ Main \in Caches /\ c # LLC /\ c # Main
  BY CacheFacts
<1>2. Keeps(g, h) /\ Got(g, LLC) = Got(h, LLC) /\ Reads(g, LLC) = Reads(h, LLC) + One
  BY LLCReadCounts
<1> HIDE DEF g
<1>3. g.stats[c] = h.stats[c]
  BY <1>1, <1>2 DEF Keeps, Elsewhere
<1>4. Event(g, h, c, {}, TRUE)
  BY <1>2, <1>3 DEF Event, Keeps, Elsewhere, Sent
<1> QED BY <1>4 DEF g

(* A fill sends its victim, and the last-level cache receives it.          *)
LEMMA PrivateFillCounts ==
  ASSUME NEW h, HierType(h), NEW c \in Cpus, NEW t \in Tags, NEW s \in States,
         NEW data \in LineData
  PROVE  Event(FillLine(h, c, t, s, data, LLCWrite), h, c, {}, FALSE)
<1> DEFINE victim == Victim(RowOf(h, c, t), t)
           written == LLCWrite(h, victim.tag, victim.data)
           pushed == Count(written, c, {"numReplacements"})
           row == Install(RowOf(h, c, t), t, s, data)
           fill == FillLine(h, c, t, s, data, LLCWrite)
<1>1. c \in Caches /\ LLC \in Caches /\ Main \in Caches /\ c # LLC /\ c # Main
  BY CacheFacts
<1>2. victim.tag \in Tags /\ victim.data \in LineData
  <2>1. victim \in Line
    BY <1>1, FillType
  <2> QED BY <2>1 DEF Line
<1>3. /\ HierType(written) /\ Keeps(written, h)
      /\ Got(written, LLC) = Got(h, LLC) + One /\ Reads(written, LLC) = Reads(h, LLC)
  BY <1>2, LLCWriteType, LLCWriteCounts
<1>4. Ticks(pushed, written, c, {"numReplacements"})
  BY <1>1, <1>3, CountCounts
<1>5. HierType(fill)
  BY PrivateFillType
<1>6. fill = WithRow(IF Evicts(h, c, t) THEN pushed ELSE h, c, t, row)
  BY DEF FillLine
<1>7. fill.stats = IF Evicts(h, c, t) THEN pushed.stats ELSE h.stats
  <2>1. HierType(pushed)
    BY <1>4 DEF Ticks
  <2> HIDE DEF pushed, row, fill
  <2> QED BY <1>1, <1>6, <2>1, WithRowCounts
<1>8. /\ Sent(h, c) \in Nat /\ Got(h, LLC) \in Nat /\ Reads(h, LLC) \in Nat /\ One \in Nat
  BY <1>1, CounterType, OneType
<1> HIDE DEF written, pushed, fill
<1>9. CASE Evicts(h, c, t)
  <2>1. fill.stats = pushed.stats
    BY <1>7, <1>9
  <2>2. Elsewhere(fill, h, {c, LLC, Main})
    BY <1>3, <1>4, <2>1 DEF Ticks, Keeps, Elsewhere
  <2>3. /\ written.stats[c] = h.stats[c] /\ fill.stats[LLC] = written.stats[LLC]
        /\ fill.stats[Main] = written.stats[Main]
    BY <1>1, <1>3, <1>4, <2>1 DEF Ticks, Keeps, Elsewhere
  <2>4. \A n \in Counters : fill.stats[c][n] =
          IF n \in {"numReplacements"} THEN h.stats[c][n] + One ELSE h.stats[c][n]
    BY <1>4, <2>1, <2>3 DEF Ticks
  <2>5. Sent(fill, c) = Sent(h, c) + One
    BY <2>4, CounterNames DEF Sent
  <2>6. Got(fill, LLC) = Got(h, LLC) + One /\ Reads(fill, LLC) = Reads(h, LLC) + 0
    BY <1>3, <1>8, <2>3 DEF Got, Reads
  <2>7. Balance(h) => Balance(fill)
    BY <1>3, <2>3 DEF Keeps, Balance, Got, Reads, Sent, Missed
  <2>8. \A n \in Counters \ {"numReplacements"} : fill.stats[c][n] = h.stats[c][n]
    BY <2>4
  <2>9. Event(fill, h, c, {}, FALSE)
    BY <1>5, <1>8, <2>2, <2>5, <2>6, <2>7, <2>8 DEF Event
  <2> QED BY <2>9 DEF fill
<1>10. CASE ~Evicts(h, c, t)
  <2>1. fill.stats = h.stats
    BY <1>7, <1>10
  <2>2. Event(fill, h, c, {}, FALSE)
    BY <1>5, <2>1, Nothing
  <2> QED BY <2>2 DEF fill
<1> QED BY <1>9, <1>10

-----------------------------------------------------------------------------
(* The accesses.                                                           *)

(* A lookup and a snoop count nothing.                                     *)
LEMMA LookCounts ==
  ASSUME NEW h, HierType(h), NEW c \in Cpus, NEW t \in Tags
  PROVE  /\ HierType(Look(h, c, t)) /\ Event(Look(h, c, t), h, c, {}, FALSE)
         /\ Event(ReadRemoteAction(h, c, t), h, c, {}, FALSE)
         /\ Event(WriteRemoteAction(h, c, t), h, c, {}, FALSE)
<1>1. c \in Caches
  BY CacheFacts
<1>2. /\ HierType(Look(h, c, t)) /\ HierType(ReadRemoteAction(h, c, t))
      /\ HierType(WriteRemoteAction(h, c, t))
  BY <1>1, LookType, RemoteType
<1>3. /\ Look(h, c, t).stats = h.stats /\ ReadRemoteAction(h, c, t).stats = h.stats
      /\ WriteRemoteAction(h, c, t).stats = h.stats
  BY <1>1, WithRowCounts, RemoteCounts
<1> QED BY <1>2, <1>3, Nothing

(* A lookup that counts what it found.                                     *)
LEMMA LookTicks ==
  ASSUME NEW h, HierType(h), NEW c \in Cpus, NEW t \in Tags, NEW names,
         "numReplacements" \notin names
  PROVE  Event(Count(Look(h, c, t), c, names), h, c, names, FALSE)
<1>1. HierType(Look(h, c, t)) /\ Event(Look(h, c, t), h, c, {}, FALSE)
  BY LookCounts
<1>2. Event(Count(Look(h, c, t), c, names), Look(h, c, t), c, names, FALSE)
  BY <1>1, Counted
<1>3. Event(Count(Look(h, c, t), c, names), h, c, {} \cup names, FALSE \/ FALSE)
  BY <1>1, <1>2, EventTrans
<1> QED BY <1>3

(* What a read miss counts when a sibling serves it, and when nobody does. *)
Services(h, c, t) ==
  IF ValidCopies(h, c, t) = {} THEN {}
  ELSE {"numReadMissesServicedByOthers",
        IF ProvidedShared(h, c, t) THEN "numReadMissesServicedByShared"
                                   ELSE "numReadMissesServicedByModified"}

(* A fetch counts who served it, and asks below if nobody did.             *)
LEMMA FetchCounts ==
  ASSUME NEW h, HierType(h), NEW c \in Cpus, NEW t \in Tags
  PROVE  Event(Fetch(h, c, t).hier, h, c, Services(h, c, t), ValidCopies(h, c, t) = {})
<1> DEFINE asked == ReadRemoteAction(h, c, t)
           names == Services(h, c, t)
<1>1. Event(asked, h, c, {}, FALSE) /\ HierType(asked)
  BY LookCounts, RemoteType
<1> HIDE DEF asked
<1>2. CASE ValidCopies(h, c, t) # {}
  <2>1. Fetch(h, c, t).hier = Count(asked, c, names)
    BY <1>2 DEF Fetch, Services, asked
  <2>2. "numReplacements" \notin names
    BY <1>2 DEF Services
  <2> HIDE DEF names
  <2>3. Event(Count(asked, c, names), asked, c, names, FALSE)
    BY <1>1, <2>2, Counted
  <2>4. Event(Count(asked, c, names), h, c, {} \cup names, FALSE \/ FALSE)
    BY <1>1, <2>3, EventTrans
  <2>5. {} \cup names = names /\ (ValidCopies(h, c, t) = {}) = FALSE
    BY <1>2
  <2> QED BY <2>1, <2>4, <2>5 DEF names
<1>3. CASE ValidCopies(h, c, t) = {}
  <2>1. Fetch(h, c, t).hier = LLCRead(asked, t).hier /\ names = {}
    BY <1>3 DEF Fetch, Services, asked
  <2>2. Event(LLCRead(asked, t).hier, asked, c, {}, TRUE)
    BY <1>1, AskCounts
  <2>3. Event(LLCRead(asked, t).hier, h, c, {} \cup {}, FALSE \/ TRUE)
    BY <1>1, <2>2, EventTrans
  <2>4. {} \cup {} = names /\ (ValidCopies(h, c, t) = {}) = TRUE
    BY <1>3, <2>1
  <2> QED BY <2>1, <2>3, <2>4 DEF names
<1> QED BY <1>2, <1>3

(* What a read miss counts.                                                *)
LEMMA ReadMissCounts ==
  ASSUME NEW h, HierType(h), NEW c \in Cpus, NEW t \in Tags, NEW w
  PROVE  \E sharing \in SUBSET {"numFalseSharing", "numCorrectSpeculations",
                                "numTrueSharing", "numIncorrectSpeculations"} :
           Event(ReadMissOf(h, c, t, w), h, c,
                 {"numReadMisses", "numReadRequestsSent"}
                   \cup OnInvalid(RowOf(h, c, t), t, "numReadOnInvalidMisses")
                   \cup Services(ReadMissed(h, c, t), c, t) \cup sharing,
                 ValidCopies(ReadMissed(h, c, t), c, t) = {})
<1> DEFINE names == {"numReadMisses", "numReadRequestsSent"}
                      \cup OnInvalid(RowOf(h, c, t), t, "numReadOnInvalidMisses")
           missed == ReadMissed(h, c, t)
           served == Services(missed, c, t)
           asks == ValidCopies(missed, c, t) = {}
           fetched == Fetch(missed, c, t)
           found == Found(RowOf(h, c, t), t)
           sharing == IF found THEN SharingCounters(FrontData(missed, c, t)[w], fetched.data[w])
                      ELSE {}
           judged == Judge(found, FrontData(missed, c, t), fetched, c, w)
           filled == FillLine(judged, c, t, "S", fetched.data, LLCWrite)
           Sharing == {"numFalseSharing", "numCorrectSpeculations",
                       "numTrueSharing", "numIncorrectSpeculations"}
<1>1. "numReplacements" \notin names /\ \A n \in names : n \notin Sharing
  BY DEF OnInvalid
<1>2. Event(missed, h, c, names, FALSE)
  <2> HIDE DEF names
  <2>1. Event(Count(Look(h, c, t), c, names), h, c, names, FALSE)
    BY <1>1, LookTicks
  <2> QED BY <2>1 DEF ReadMissed, names
<1>3. \A n \in names : n \notin served
  BY DEF OnInvalid, Services
<1>4. \A n \in served : n \notin Sharing
  BY DEF Services
<1>5. sharing \in SUBSET Sharing /\ "numReplacements" \notin sharing
  BY DEF SharingCounters
<1>6. HierType(missed)
  BY <1>2 DEF Event
<1>7. Event(fetched.hier, missed, c, served, asks) /\ fetched.data \in LineData
  BY <1>6, FetchCounts, FetchType
<1>8. asks \in BOOLEAN
  OBVIOUS
<1>9. judged = IF found THEN Count(fetched.hier, c, sharing) ELSE fetched.hier
  BY DEF Judge
<1>10. ReadMissOf(h, c, t, w) = filled
  BY DEF ReadMissOf
<1> HIDE DEF names, missed, served, asks, fetched, found, sharing
<1>11. HierType(fetched.hier)
  BY <1>7 DEF Event
<1>12. Event(fetched.hier, h, c, names \cup served, FALSE \/ asks)
  BY <1>2, <1>3, <1>7, <1>8, EventTrans
<1>13. Event(judged, fetched.hier, c, sharing, FALSE)
  <2>1. CASE found
    BY <1>5, <1>9, <1>11, <2>1, Counted
  <2>2. CASE ~found
    <3>1. judged = fetched.hier /\ sharing = {}
      BY <1>9, <2>2 DEF sharing
    <3> QED BY <1>11, <3>1, Nothing
  <2> QED BY <2>1, <2>2
<1> HIDE DEF judged
<1>14. HierType(judged)
  BY <1>13 DEF Event
<1>15. Event(filled, judged, c, {}, FALSE)
  BY <1>7, <1>14, PrivateFillCounts DEF States
<1> HIDE DEF filled
<1>16. Event(judged, h, c, (names \cup served) \cup sharing, (FALSE \/ asks) \/ FALSE)
  <2>1. \A n \in names \cup served : n \notin sharing
    BY <1>1, <1>4, <1>5
  <2>2. (FALSE \/ asks) \in BOOLEAN
    BY <1>8
  <2> QED BY <1>12, <1>13, <2>1, <2>2, EventTrans
<1> DEFINE all == (names \cup served) \cup sharing
<1>17. Event(judged, h, c, all, asks)
  <2>1. ((FALSE \/ asks) \/ FALSE) = asks
    BY <1>8
  <2> QED BY <1>16, <2>1
<1>18. all = names \cup served \cup sharing
  OBVIOUS
<1> HIDE DEF all
<1>19. Event(filled, h, c, all \cup {}, asks \/ FALSE)
  BY <1>8, <1>15, <1>17, EventTrans
<1>20. Event(filled, h, c, names \cup served \cup sharing, asks)
  <2>1. all \cup {} = names \cup served \cup sharing /\ (asks \/ FALSE) = asks
    BY <1>8, <1>18
  <2> QED BY <1>19, <2>1
<1>21. Event(ReadMissOf(h, c, t, w), h, c, names \cup served \cup sharing, asks)
  BY <1>10, <1>20
<1> QED BY <1>5, <1>21 DEF names, served, asks, missed

(* What a write miss counts.                                               *)
LEMMA WriteMissCounts ==
  ASSUME NEW h, HierType(h), NEW c \in Cpus, NEW t \in Tags, NEW w \in Words, NEW v \in Values
  PROVE  Event(WriteMissOf(h, c, t, w, v), h, c,
               {"numWriteMisses", "numInvalidatesSent"}
                 \cup OnInvalid(RowOf(h, c, t), t, "numWriteOnInvalidMisses"),
               ValidCopies(WriteMissed(h, c, t), c, t) = {})
<1> DEFINE names == {"numWriteMisses", "numInvalidatesSent"}
                      \cup OnInvalid(RowOf(h, c, t), t, "numWriteOnInvalidMisses")
           missed == WriteMissed(h, c, t)
           asks == ValidCopies(missed, c, t) = {}
           alone == WriteRemoteAction(missed, c, t)
           got == IF asks THEN LLCRead(alone, t)
                  ELSE [hier |-> alone, data |-> InvalidateReply(missed, c, t)]
           data == [got.data EXCEPT ![w] = v]
           filled == FillLine(got.hier, c, t, "M", data, LLCWrite)
<1>1. "numReplacements" \notin names
  BY DEF OnInvalid
<1>2. Event(missed, h, c, names, FALSE)
  <2> HIDE DEF names
  <2>1. Event(Count(Look(h, c, t), c, names), h, c, names, FALSE)
    BY <1>1, LookTicks
  <2> QED BY <2>1 DEF WriteMissed, names
<1>3. HierType(missed) /\ asks \in BOOLEAN
  BY <1>2 DEF Event
<1>4. WriteMissOf(h, c, t, w, v) = filled
  BY DEF WriteMissOf
<1>5. ~asks => InvalidateReply(missed, c, t) \in LineData
  <2>1. SUFFICES ASSUME ~asks PROVE InvalidateReply(missed, c, t) \in LineData
    OBVIOUS
  <2> DEFINE last == Max(ValidCopies(missed, c, t))
  <2>2. last \in ValidCopies(missed, c, t) /\ last \in Caches
    BY <2>1, ValidCopiesFacts
  <2>3. HitsIn(missed, last, t)
    BY <2>2 DEF ValidCopies
  <2> HIDE DEF missed
  <2> QED BY <1>3, <2>2, <2>3, FoundLineType DEF InvalidateReply, Line
<1> HIDE DEF names, missed, asks
<1>6. Event(alone, missed, c, {}, FALSE) /\ HierType(alone)
  BY <1>3, LookCounts, RemoteType
<1>7. Event(alone, h, c, names \cup {}, FALSE \/ FALSE)
  BY <1>2, <1>6, EventTrans
<1>8. Event(alone, h, c, names, FALSE)
  <2>1. names \cup {} = names /\ (FALSE \/ FALSE) = FALSE
    OBVIOUS
  <2> QED BY <1>7, <2>1
<1> HIDE DEF alone
<1>9. Event(got.hier, h, c, names, asks) /\ got.data \in LineData
  <2>1. CASE asks
    <3>1. got = LLCRead(alone, t) /\ asks = TRUE
      BY <1>3, <2>1
    <3>2. Event(LLCRead(alone, t).hier, alone, c, {}, TRUE) /\ LLCRead(alone, t).data \in LineData
      BY <1>6, AskCounts, LLCReadType
    <3>3. Event(LLCRead(alone, t).hier, h, c, names \cup {}, FALSE \/ TRUE)
      BY <1>8, <3>2, EventTrans
    <3>4. names \cup {} = names /\ (FALSE \/ TRUE) = asks
      BY <3>1
    <3> HIDE DEF got
    <3> QED BY <3>1, <3>2, <3>3, <3>4
  <2>2. CASE ~asks
    <3>1. got = [hier |-> alone, data |-> InvalidateReply(missed, c, t)] /\ asks = FALSE
      BY <1>3, <2>2
    <3> HIDE DEF got
    <3> QED BY <1>5, <1>8, <2>2, <3>1
  <2> QED BY <2>1, <2>2
<1> HIDE DEF got
<1>10. HierType(got.hier) /\ data \in LineData
  BY <1>9, WordType DEF Event
<1> HIDE DEF data
<1>11. Event(filled, got.hier, c, {}, FALSE)
  BY <1>10, PrivateFillCounts DEF States
<1> HIDE DEF filled
<1>12. Event(filled, h, c, names \cup {}, asks \/ FALSE)
  BY <1>3, <1>9, <1>11, EventTrans
<1>13. names \cup {} = names /\ (asks \/ FALSE) = asks
  BY <1>3
<1>14. Event(WriteMissOf(h, c, t, w, v), h, c, names, asks)
  BY <1>4, <1>12, <1>13
<1> QED BY <1>14 DEF names, asks, missed

(* A store counts nothing by itself.                                       *)
LEMMA PutWordCounts ==
  ASSUME NEW h, HierType(h), NEW c \in Cpus, NEW t \in Tags, NEW w \in Words, NEW v \in Values
  PROVE  Event(PutWord(h, c, t, w, v), h, c, {}, FALSE)
<1>1. c \in Caches /\ HierType(PutWord(h, c, t, w, v))
  BY CacheFacts, PutWordType
<1>2. PutWord(h, c, t, w, v).stats = h.stats
  BY <1>1, WithRowCounts DEF PutWord
<1> QED BY <1>1, <1>2, Nothing

(* Nor does one that takes the line.                                       *)
LEMMA PutOwnedCounts ==
  ASSUME NEW h, HierType(h), NEW c \in Cpus, NEW t \in Tags, NEW w \in Words, NEW v \in Values
  PROVE  Event(PutOwned(h, c, t, w, v), h, c, {}, FALSE)
<1> DEFINE row == SetState(RowOf(h, c, t), "M")
           owned == WithRow(h, c, t, row)
<1>1. c \in Caches /\ Assoc(c) \in Nat \ {0}
  BY CacheFacts
<1>2. row \in Row(Assoc(c))
  BY <1>1, RowOfType, FrontUpdateType DEF States
<1>3. PutOwned(h, c, t, w, v) = PutWord(owned, c, t, w, v)
  BY DEF PutOwned
<1> HIDE DEF row
<1>4. HierType(owned) /\ owned.stats = h.stats
  BY <1>1, <1>2, WithRowType, WithRowCounts
<1> HIDE DEF owned
<1>5. Event(owned, h, c, {}, FALSE) /\ Event(PutWord(owned, c, t, w, v), owned, c, {}, FALSE)
  BY <1>4, Nothing, PutWordCounts
<1>6. Event(PutWord(owned, c, t, w, v), h, c, {} \cup {}, FALSE \/ FALSE)
  BY <1>5, EventTrans
<1> QED BY <1>3, <1>6

(* What an upgrade counts: a miss on a shared line.                        *)
LEMMA WriteUpgradeCounts ==
  ASSUME NEW h, HierType(h), NEW c \in Cpus, NEW t \in Tags, NEW w \in Words, NEW v \in Values
  PROVE  \E silent \in SUBSET {"numSilentStores"} :
           Event(WriteUpgradeOf(h, c, t, w, v), h, c,
                 {"numWriteMisses", "numWriteOnSharedMisses", "numInvalidatesSent"} \cup silent,
                 FALSE)
<1> DEFINE looked == Look(h, c, t)
           silent == Silent(looked, c, t, w, v)
           names == {"numWriteMisses", "numWriteOnSharedMisses", "numInvalidatesSent"} \cup silent
           alone == WriteRemoteAction(looked, c, t)
           snooped == UpgradeSnooped(looked, c, t, w, v)
<1>1. silent \in SUBSET {"numSilentStores"} /\ "numReplacements" \notin names
  BY DEF Silent
<1>2. HierType(looked) /\ Event(looked, h, c, {}, FALSE)
  BY LookCounts
<1>3. snooped = Count(alone, c, names) /\ WriteUpgradeOf(h, c, t, w, v) = PutOwned(snooped, c, t, w, v)
  BY DEF UpgradeSnooped, WriteUpgradeOf
<1> HIDE DEF looked, silent
<1>4. HierType(alone) /\ Event(alone, looked, c, {}, FALSE)
  BY <1>2, LookCounts, RemoteType
<1> HIDE DEF alone
<1>5. Event(alone, h, c, {} \cup {}, FALSE \/ FALSE)
  BY <1>2, <1>4, EventTrans
<1>6. Event(alone, h, c, {}, FALSE)
  BY <1>5
<1> HIDE DEF names, snooped
<1>7. Event(snooped, alone, c, names, FALSE)
  BY <1>1, <1>3, <1>4, Counted
<1>8. Event(snooped, h, c, {} \cup names, FALSE \/ FALSE)
  BY <1>6, <1>7, EventTrans
<1>9. HierType(snooped) /\ {} \cup names = names /\ (FALSE \/ FALSE) = FALSE
  BY <1>7 DEF Event
<1>10. Event(PutOwned(snooped, c, t, w, v), snooped, c, {}, FALSE)
  BY <1>9, PutOwnedCounts
<1>11. Event(PutOwned(snooped, c, t, w, v), h, c, names \cup {}, FALSE \/ FALSE)
  BY <1>8, <1>9, <1>10, EventTrans
<1>12. names \cup {} = names
  OBVIOUS
<1>13. Event(WriteUpgradeOf(h, c, t, w, v), h, c, names, FALSE)
  BY <1>3, <1>9, <1>11, <1>12
<1> QED BY <1>1, <1>13 DEF names

(* What hits count.                                                        *)
LEMMA HitCounts ==
  ASSUME NEW h, HierType(h), NEW c \in Cpus, NEW t \in Tags
  PROVE  /\ Event(ReadHitOf(h, c, t), h, c, {"numReadHits"}, FALSE)
         /\ \A w \in Words, v \in Values : \E silent \in SUBSET {"numSilentStores"} :
              Event(WriteHitOf(h, c, t, w, v), h, c, {"numWriteHits"} \cup silent, FALSE)
<1>1. Event(ReadHitOf(h, c, t), h, c, {"numReadHits"}, FALSE)
  BY LookTicks DEF ReadHitOf
<1>2. ASSUME NEW w \in Words, NEW v \in Values
      PROVE  \E silent \in SUBSET {"numSilentStores"} :
               Event(WriteHitOf(h, c, t, w, v), h, c, {"numWriteHits"} \cup silent, FALSE)
  <2> DEFINE silent == Silent(Look(h, c, t), c, t, w, v)
             names == {"numWriteHits"} \cup silent
             counted == Count(Look(h, c, t), c, names)
  <2>1. silent \in SUBSET {"numSilentStores"} /\ "numReplacements" \notin names
    BY DEF Silent
  <2>2. WriteHitOf(h, c, t, w, v) = PutWord(counted, c, t, w, v)
    BY DEF WriteHitOf
  <2> HIDE DEF names, silent
  <2>3. Event(counted, h, c, names, FALSE)
    BY <2>1, LookTicks
  <2>4. HierType(counted)
    BY <2>3 DEF Event
  <2> HIDE DEF counted
  <2>5. Event(PutWord(counted, c, t, w, v), counted, c, {}, FALSE)
    BY <2>4, PutWordCounts
  <2>6. Event(PutWord(counted, c, t, w, v), h, c, names \cup {}, FALSE \/ FALSE)
    BY <2>3, <2>5, EventTrans
  <2>7. names \cup {} = names /\ (FALSE \/ FALSE) = FALSE
    OBVIOUS
  <2>8. Event(WriteHitOf(h, c, t, w, v), h, c, names, FALSE)
    BY <2>2, <2>6, <2>7
  <2> QED BY <2>1, <2>8 DEF names
<1> QED BY <1>1, <1>2

-----------------------------------------------------------------------------
(* What every access does to the totals.                                   *)

Tot(h, n) == Sums(h, n)[Cpus]

(* A total changes by what the cache of the access changes.                *)
LEMMA TotMoves ==
  ASSUME NEW h, HierType(h), NEW g, HierType(g), NEW c \in Cpus,
         Elsewhere(g, h, {c, LLC, Main}), NEW n \in Counters
  PROVE  /\ Tot(g, n) = Tot(h, n) + (g.stats[c][n] - h.stats[c][n])
         /\ Tot(g, n) \in Nat /\ Tot(h, n) \in Nat
         /\ g.stats[c][n] \in Nat /\ h.stats[c][n] \in Nat
<1>1. \A d \in Cpus : d \in Caches /\ d # LLC /\ d # Main
  BY CacheFacts
<1>2. \A d \in Cpus : g.stats[d][n] \in Nat /\ h.stats[d][n] \in Nat
  BY <1>1, CounterType
<1>3. \A d \in Cpus \ {c} : g.stats[d][n] = h.stats[d][n]
  BY <1>1 DEF Elsewhere
<1>4. Tot(g, n) = Tot(h, n) + (g.stats[c][n] - h.stats[c][n])
  BY <1>2, <1>3, SumsMove DEF Tot
<1>5. Cpus \in SUBSET Cpus
  OBVIOUS
<1>6. Tot(g, n) \in Nat /\ Tot(h, n) \in Nat
  BY <1>2, <1>5, SumsType DEF Tot
<1> QED BY <1>2, <1>4, <1>6

(* An event in the totals.                                                 *)
LEMMA EventTotals ==
  ASSUME NEW h, HierType(h), NEW g, NEW c \in Cpus, NEW N, NEW asks,
         Event(g, h, c, N, asks)
  PROVE  /\ Tot(g, "numReplacements") + Got(h, LLC) = Tot(h, "numReplacements") + Got(g, LLC)
         /\ \A n \in Counters \ {"numReplacements"} :
              /\ Tot(g, n) = IF n \in N THEN Tot(h, n) + One ELSE Tot(h, n)
              /\ Tot(g, n) \in Nat /\ Tot(h, n) \in Nat
<1>1. HierType(g) /\ Elsewhere(g, h, {c, LLC, Main})
  BY DEF Event
<1>2. LLC \in Caches /\ Got(g, LLC) \in Nat /\ Got(h, LLC) \in Nat /\ One \in Nat
  BY <1>1, CacheFacts, CounterType, OneType
<1>3. Tot(g, "numReplacements") + Got(h, LLC) = Tot(h, "numReplacements") + Got(g, LLC)
  <2>1. "numReplacements" \in Counters
    BY CounterNames
  <2>2. Sent(g, c) + Got(h, LLC) = Sent(h, c) + Got(g, LLC)
    BY DEF Event
  <2>3. /\ Tot(g, "numReplacements") = Tot(h, "numReplacements") + (Sent(g, c) - Sent(h, c))
        /\ Tot(g, "numReplacements") \in Nat /\ Tot(h, "numReplacements") \in Nat
        /\ Sent(g, c) \in Nat /\ Sent(h, c) \in Nat
    BY <1>1, <2>1, TotMoves DEF Sent
  <2> QED BY <1>2, <2>2, <2>3
<1>4. ASSUME NEW n \in Counters \ {"numReplacements"}
      PROVE  /\ Tot(g, n) = IF n \in N THEN Tot(h, n) + One ELSE Tot(h, n)
             /\ Tot(g, n) \in Nat /\ Tot(h, n) \in Nat
  <2>1. g.stats[c][n] = IF n \in N THEN h.stats[c][n] + One ELSE h.stats[c][n]
    BY DEF Event
  <2>2. /\ Tot(g, n) = Tot(h, n) + (g.stats[c][n] - h.stats[c][n])
        /\ Tot(g, n) \in Nat /\ Tot(h, n) \in Nat
        /\ g.stats[c][n] \in Nat /\ h.stats[c][n] \in Nat
    BY <1>1, TotMoves
  <2>3. CASE n \in N
    <3>1. g.stats[c][n] = h.stats[c][n] + One
      BY <2>1, <2>3
    <3> QED BY <1>2, <2>2, <2>3, <3>1
  <2>4. CASE n \notin N
    BY <2>1, <2>2, <2>4
  <2> QED BY <2>3, <2>4
<1> QED BY <1>3, <1>4

(* A line is asked for exactly when a read or a write misses, is no        *)
(* upgrade, and, for a read, is served by no sibling.                      *)
Justified(N, asks) ==
  /\ "numReadMisses" \in N /\ "numReadMissesServicedByOthers" \notin N => asks
  /\ asks => \/ "numReadMisses" \in N /\ "numReadMissesServicedByOthers" \notin N
             \/ "numWriteMisses" \in N /\ "numWriteOnSharedMisses" \notin N
  /\ "numReadMissesServicedByOthers" \in N => "numReadMisses" \in N
  /\ "numWriteOnSharedMisses" \in N => "numWriteMisses" \in N
  /\ "numReadMisses" \in N => "numWriteMisses" \notin N

(* Every access is one justified event.                                    *)
LEMMA AccessCounts ==
  ASSUME HierType(hier), Next
  PROVE  \E c \in Cpus, asks \in BOOLEAN : \E N :
           Event(hier', hier, c, N, asks) /\ Justified(N, asks)
<1>1. \A l \in Lines : CalcTag(l) \in Tags
  BY IndexFacts
<1>2. ASSUME NEW c \in Cpus, NEW l \in Lines, ReadHit(c, l)
      PROVE  Event(hier', hier, c, {"numReadHits"}, FALSE) /\ Justified({"numReadHits"}, FALSE)
  <2>1. Event(hier', hier, c, {"numReadHits"}, FALSE)
    BY <1>1, <1>2, HitCounts DEF ReadHit
  <2> QED BY <2>1 DEF Justified
<1>3. ASSUME NEW c \in Cpus, NEW l \in Lines, NEW w \in Words, ReadMiss(c, l, w)
      PROVE  \E asks \in BOOLEAN : \E N : Event(hier', hier, c, N, asks) /\ Justified(N, asks)
  <2> DEFINE t == CalcTag(l)
             first == {"numReadMisses", "numReadRequestsSent"}
                        \cup OnInvalid(RowOf(hier, c, t), t, "numReadOnInvalidMisses")
             served == Services(ReadMissed(hier, c, t), c, t)
             asks == ValidCopies(ReadMissed(hier, c, t), c, t) = {}
             Sharing == {"numFalseSharing", "numCorrectSpeculations",
                         "numTrueSharing", "numIncorrectSpeculations"}
  <2>1. hier' = ReadMissOf(hier, c, t, w) /\ t \in Tags
    BY <1>1, <1>3 DEF ReadMiss
  <2>2. PICK sharing \in SUBSET Sharing :
          Event(ReadMissOf(hier, c, t, w), hier, c, first \cup served \cup sharing, asks)
    BY <2>1, ReadMissCounts
  <2>3. Justified(first \cup served \cup sharing, asks)
    <3>1. /\ "numReadMisses" \in first /\ "numReadMissesServicedByOthers" \notin first
          /\ "numWriteMisses" \notin first /\ "numWriteOnSharedMisses" \notin first
      BY DEF OnInvalid
    <3>2. /\ "numReadMissesServicedByOthers" \in served <=> ~asks
          /\ "numWriteMisses" \notin served /\ "numWriteOnSharedMisses" \notin served
      BY DEF Services
    <3>3. /\ "numReadMissesServicedByOthers" \notin sharing
          /\ "numWriteMisses" \notin sharing /\ "numWriteOnSharedMisses" \notin sharing
      OBVIOUS
    <3> HIDE DEF first, served, asks
    <3> QED BY <3>1, <3>2, <3>3 DEF Justified
  <2>4. asks \in BOOLEAN
    OBVIOUS
  <2> HIDE DEF first, served, asks
  <2> QED BY <2>1, <2>2, <2>3, <2>4
<1>4. ASSUME NEW c \in Cpus, NEW l \in Lines, NEW w \in Words, NEW v \in Values,
             WriteMiss(c, l, w, v)
      PROVE  \E asks \in BOOLEAN : \E N : Event(hier', hier, c, N, asks) /\ Justified(N, asks)
  <2> DEFINE t == CalcTag(l)
             names == {"numWriteMisses", "numInvalidatesSent"}
                        \cup OnInvalid(RowOf(hier, c, t), t, "numWriteOnInvalidMisses")
             asks == ValidCopies(WriteMissed(hier, c, t), c, t) = {}
  <2>1. hier' = WriteMissOf(hier, c, t, w, v) /\ t \in Tags
    BY <1>1, <1>4 DEF WriteMiss
  <2>2. Event(WriteMissOf(hier, c, t, w, v), hier, c, names, asks)
    BY <2>1, WriteMissCounts
  <2>3. Justified(names, asks)
    <3>1. /\ "numReadMisses" \notin names /\ "numReadMissesServicedByOthers" \notin names
          /\ "numWriteMisses" \in names /\ "numWriteOnSharedMisses" \notin names
      BY DEF OnInvalid
    <3> HIDE DEF names, asks
    <3> QED BY <3>1 DEF Justified
  <2>4. asks \in BOOLEAN
    OBVIOUS
  <2> HIDE DEF names, asks
  <2> QED BY <2>1, <2>2, <2>3, <2>4
<1>5. ASSUME NEW c \in Cpus, NEW l \in Lines, NEW w \in Words, NEW v \in Values,
             WriteUpgrade(c, l, w, v)
      PROVE  \E N : Event(hier', hier, c, N, FALSE) /\ Justified(N, FALSE)
  <2> DEFINE t == CalcTag(l)
             first == {"numWriteMisses", "numWriteOnSharedMisses", "numInvalidatesSent"}
  <2>1. hier' = WriteUpgradeOf(hier, c, t, w, v) /\ t \in Tags
    BY <1>1, <1>5 DEF WriteUpgrade
  <2>2. PICK silent \in SUBSET {"numSilentStores"} :
          Event(WriteUpgradeOf(hier, c, t, w, v), hier, c, first \cup silent, FALSE)
    BY <2>1, WriteUpgradeCounts
  <2>3. Justified(first \cup silent, FALSE)
    BY DEF Justified
  <2> QED BY <2>1, <2>2, <2>3
<1>6. ASSUME NEW c \in Cpus, NEW l \in Lines, NEW w \in Words, NEW v \in Values,
             WriteHit(c, l, w, v)
      PROVE  \E N : Event(hier', hier, c, N, FALSE) /\ Justified(N, FALSE)
  <2> DEFINE t == CalcTag(l)
  <2>1. hier' = WriteHitOf(hier, c, t, w, v) /\ t \in Tags
    BY <1>1, <1>6 DEF WriteHit
  <2>2. PICK silent \in SUBSET {"numSilentStores"} :
          Event(WriteHitOf(hier, c, t, w, v), hier, c, {"numWriteHits"} \cup silent, FALSE)
    BY <2>1, HitCounts
  <2>3. Justified({"numWriteHits"} \cup silent, FALSE)
    BY DEF Justified
  <2> QED BY <2>1, <2>2, <2>3
<1>7. FALSE \in BOOLEAN
  OBVIOUS
<1> QED BY <1>2, <1>3, <1>4, <1>5, <1>6, <1>7 DEF Next

(* The accounting, of any hierarchy.                                       *)
Owed(h) == Tot(h, "numReadMisses") - Tot(h, "numReadMissesServicedByOthers")
Fetching(h) == Tot(h, "numWriteMisses") - Tot(h, "numWriteOnSharedMisses")
Books(h) ==
  /\ HierType(h) /\ Balance(h)
  /\ Tot(h, "numReplacements") = Got(h, LLC)
  /\ Reads(h, LLC) >= Owed(h) /\ Reads(h, LLC) <= Owed(h) + Fetching(h)

(* The books start balanced.                                               *)
LEMMA InitBooks == Init => Books(hier)
<1> SUFFICES ASSUME Init PROVE Books(hier)
  OBVIOUS
<1>1. HierType(hier)
  BY InitType DEF TypeOK
<1>2. \A k \in Caches, n \in Counters : hier.stats[k][n] = 0
  BY DEF Init
<1>3. LLC \in Caches /\ Main \in Caches /\ Cpus \subseteq Caches /\ Cpus \in SUBSET Cpus
  BY CacheFacts
<1>4. \A n \in Counters : Tot(hier, n) = 0
  <2> TAKE n \in Counters
  <2>1. \A c \in Cpus : hier.stats[c][n] = 0
    BY <1>2, <1>3
  <2> QED BY <1>3, <2>1, SumsType DEF Tot
<1>5. /\ Sent(hier, LLC) = 0 /\ Sent(hier, Main) = 0 /\ Got(hier, Main) = 0 /\ Got(hier, LLC) = 0
      /\ Missed(hier, LLC) = 0 /\ Reads(hier, Main) = 0 /\ Reads(hier, LLC) = 0
  BY <1>2, <1>3, CounterNames DEF Sent, Got, Missed, Reads
<1>6. Owed(hier) = 0 /\ Fetching(hier) = 0
  BY <1>4, CounterNames DEF Owed, Fetching
<1> QED BY <1>1, <1>4, <1>5, <1>6, CounterNames DEF Books, Balance

(* A justified event keeps them so.                                        *)
LEMMA EventBooks ==
  ASSUME NEW h, Books(h), NEW g, NEW c \in Cpus, NEW N, NEW asks \in BOOLEAN,
         Event(g, h, c, N, asks), Justified(N, asks)
  PROVE  Books(g)
<1>1. HierType(h) /\ HierType(g) /\ LLC \in Caches
  BY CacheFacts DEF Books, Event
<1>2. Balance(g)
  BY DEF Books, Event
<1>3. /\ Got(g, LLC) \in Nat /\ Got(h, LLC) \in Nat /\ Reads(h, LLC) \in Nat /\ One \in Nat
  BY <1>1, CounterType, OneType
<1>4. Tot(g, "numReplacements") = Got(g, LLC)
  <2>1. Tot(g, "numReplacements") + Got(h, LLC) = Tot(h, "numReplacements") + Got(g, LLC)
    BY <1>1, EventTotals
  <2>2. Tot(h, "numReplacements") = Got(h, LLC)
    BY DEF Books
  <2>3. Tot(g, "numReplacements") \in Nat
    BY <1>1, CounterNames, TotMoves DEF Event
  <2> QED BY <1>3, <2>1, <2>2, <2>3
<1> DEFINE moves(n) == /\ Tot(g, n) = IF n \in N THEN Tot(h, n) + One ELSE Tot(h, n)
                       /\ Tot(g, n) \in Nat /\ Tot(h, n) \in Nat
<1>5. /\ moves("numReadMisses") /\ moves("numReadMissesServicedByOthers")
      /\ moves("numWriteMisses") /\ moves("numWriteOnSharedMisses")
  <2>1. \A n \in Counters \ {"numReplacements"} : moves(n)
    BY <1>1, EventTotals
  <2> HIDE DEF moves
  <2> QED BY <2>1, CounterNames
<1>6. Reads(g, LLC) = Reads(h, LLC) + (IF asks THEN One ELSE 0)
  BY DEF Event
<1>7. Reads(h, LLC) >= Owed(h) /\ Reads(h, LLC) <= Owed(h) + Fetching(h)
  BY DEF Books
<1>8. Reads(g, LLC) >= Owed(g) /\ Reads(g, LLC) <= Owed(g) + Fetching(g)
  BY <1>3, <1>5, <1>6, <1>7 DEF Owed, Fetching, Justified
<1> QED BY <1>1, <1>2, <1>4, <1>8 DEF Books

(* So does every step.                                                     *)
LEMMA NextBooks == Books(hier) /\ [Next]_hier => Books(hier)'
<1>1. ASSUME Books(hier), Next PROVE Books(hier')
  <2>1. PICK c \in Cpus, asks \in BOOLEAN : \E N :
          Event(hier', hier, c, N, asks) /\ Justified(N, asks)
    BY <1>1, AccessCounts DEF Books
  <2>2. PICK N : Event(hier', hier, c, N, asks) /\ Justified(N, asks)
    BY <2>1
  <2> QED BY <1>1, <2>2, EventBooks
<1>2. Books(hier') => Books(hier)'
  BY DEF Books, HierType, Balance, Tot, Owed, Fetching, Sent, Got, Missed, Reads, Sums, IsSum, SumBody
<1> QED BY <1>1, <1>2

(* They always balance.                                                    *)
LEMMA BooksAlways == Spec => []Books(hier)
BY InitBooks, NextBooks, PTL DEF Spec

(* Every write-back a level sends arrives at the next one, and none leaves *)
(* main memory, whichever fill or write-back caused it.                    *)
THEOREM AllWritebacksArrive == Spec => []WritebacksArrive
<1>1. Books(hier) => WritebacksArrive
  BY TotalIs DEF Books, Balance, WritebacksArrive, Tot, Sent, Got
<1> QED BY <1>1, BooksAlways, PTL

(* A level is asked for a line for the misses that nobody nearer served,   *)
(* and for no others.                                                      *)
THEOREM MissesAlwaysGoBelow == Spec => []MissesGoBelow
<1>1. Books(hier) => MissesGoBelow
  <2> SUFFICES ASSUME Books(hier) PROVE MissesGoBelow
    OBVIOUS
  <2>1. /\ Reads(hier, Main) = Missed(hier, LLC)
        /\ Reads(hier, LLC) >= Owed(hier) /\ Reads(hier, LLC) <= Owed(hier) + Fetching(hier)
    BY DEF Books, Balance
  <2>2. ReadsAt(LLC) = Reads(hier, LLC) /\ ReadsAt(Main) = Reads(hier, Main)
    BY DEF ReadsAt, Reads
  <2>3. \A n : Total(n) = Tot(hier, n)
    BY TotalIs DEF Tot
  <2>4. PICK c \in Cpus : TRUE
    BY HierarchyAssumption DEF Cpus
  <2>5. /\ Total("numReadMisses") \in Nat /\ Total("numReadMissesServicedByOthers") \in Nat
        /\ Total("numWriteMisses") \in Nat /\ Total("numWriteOnSharedMisses") \in Nat
    <3>1. HierType(hier) /\ Elsewhere(hier, hier, {c, LLC, Main})
      BY DEF Books, Elsewhere
    <3>2. \A n \in Counters : Tot(hier, n) \in Nat
      BY <3>1, TotMoves
    <3> QED BY <2>3, <3>2, CounterNames
  <2>6. LLC \in Caches /\ Reads(hier, LLC) \in Nat
    BY CacheFacts, CounterType DEF Books
  <2> QED BY <2>1, <2>2, <2>3, <2>5, <2>6 DEF MissesGoBelow, Owed, Fetching, Missed
<1> QED BY <1>1, BooksAlways, PTL

-----------------------------------------------------------------------------
(* The invalidated copies that are left in a row.  Tag 0, which every line *)
(* has that was never filled, says nothing.                                *)
Distinct(row) ==
  \A p, q \in DOMAIN row : p # q /\ row[p].tag = row[q].tag => row[p].tag = 0
Left(row, t) == t # 0 /\ \E p \in DOMAIN row : row[p].tag = t /\ ~IsValid(row[p])

(* A row that came from another one without a new invalidated copy.        *)
Calm(new, row) == Distinct(new) /\ \A u : Left(new, u) => Left(row, u)

(* Two rows further, still without a new copy.                             *)
LEMMA CalmTrans ==
  ASSUME NEW a, NEW b, NEW r, Calm(a, b), Calm(b, r)
  PROVE  Calm(a, r)
BY DEF Calm

(* Moving a line to the front leaves no new copy.                          *)
LEMMA MoveToFrontCalm ==
  ASSUME NEW n \in Nat \ {0}, NEW row \in Row(n), Distinct(row), NEW p \in 1 .. n
  PROVE  Calm(MoveToFront(row, p), row)
<1> DEFINE new == MoveToFront(row, p)
<1>1. /\ DOMAIN row = 1 .. n /\ DOMAIN new = 1 .. n
      /\ \A q \in 1 .. n : Src(p, q) \in 1 .. n /\ new[q] = row[Src(p, q)]
      /\ \A q, r \in 1 .. n : q # r => Src(p, q) # Src(p, r)
  BY MoveToFrontPermutes DEF Row
<1> HIDE DEF new
<1>2. ASSUME NEW q \in 1 .. n, NEW r \in 1 .. n, q # r, new[q].tag = new[r].tag
      PROVE  new[q].tag = 0
  <2>1. /\ Src(p, q) \in DOMAIN row /\ Src(p, r) \in DOMAIN row /\ Src(p, q) # Src(p, r)
        /\ new[q] = row[Src(p, q)] /\ new[r] = row[Src(p, r)]
    BY <1>1, <1>2
  <2>2. row[Src(p, q)].tag = row[Src(p, r)].tag
    BY <1>2, <2>1
  <2>3. row[Src(p, q)].tag = 0
    BY <2>1, <2>2 DEF Distinct
  <2> QED BY <2>1, <2>3
<1>3. Distinct(new)
  BY <1>1, <1>2 DEF Distinct
<1>4. \A u : Left(new, u) => Left(row, u)
  BY <1>1 DEF Left
<1> QED BY <1>3, <1>4 DEF Calm, new

(* Nor does a lookup, which puts a line with the tag in front.             *)
LEMMA FindLineCalm ==
  ASSUME NEW n \in Nat \ {0}, NEW row \in Row(n), Distinct(row), NEW t
  PROVE  /\ Calm(FindLine(row, t), row)
         /\ Found(FindLine(row, t), t) => FindLine(row, t)[1].tag = t
<1>1. CASE Found(row, t)
  <2>1. FindPos(row, t) \in 1 .. n /\ row[FindPos(row, t)].tag = t
    BY <1>1, FindPosIn
  <2>2. FindLine(row, t) = MoveToFront(row, FindPos(row, t))
    BY <1>1 DEF FindLine, Found
  <2>3. 1 \in DOMAIN row
    BY DEF Row
  <2>4. MoveToFront(row, FindPos(row, t))[1] = row[FindPos(row, t)]
    BY <2>3 DEF MoveToFront
  <2> QED BY <2>1, <2>2, <2>4, MoveToFrontCalm
<1>2. CASE ~Found(row, t)
  <2>1. FindLine(row, t) = row
    BY <1>2 DEF FindLine, Found
  <2> QED BY <1>2, <2>1 DEF Calm
<1> QED BY <1>1, <1>2

(* Updates of the line in front.                                           *)
LEMMA FrontCalm ==
  ASSUME NEW n \in Nat \ {0}, NEW row \in Row(n), Distinct(row)
  PROVE  /\ \A s \in {"M", "S"} : Calm(SetState(row, s), row)
         /\ \A data : Calm(SetData(row, data), row)
         /\ Distinct(Invalidate(row))
         /\ \A u : Left(Invalidate(row), u) => u = row[1].tag \/ Left(row, u)
<1>1. /\ DOMAIN row = 1 .. n /\ 1 \in 1 .. n
      /\ \A p \in 1 .. n : row[p] \in Line
  BY DEF Row
<1>2. ASSUME NEW s \in {"M", "S"} PROVE Calm(SetState(row, s), row)
  <2> DEFINE new == SetState(row, s)
  <2>1. /\ DOMAIN new = 1 .. n /\ \A p \in 1 .. n : new[p].tag = row[p].tag
        /\ new[1].state = s /\ \A p \in 1 .. n : p # 1 => new[p] = row[p]
    BY <1>1 DEF SetState, Line
  <2> HIDE DEF new
  <2>2. Distinct(new)
    BY <1>1, <2>1 DEF Distinct
  <2>3. \A u : Left(new, u) => Left(row, u)
    BY <1>1, <2>1 DEF Left, IsValid
  <2> QED BY <2>2, <2>3 DEF Calm, new
<1>3. ASSUME NEW data PROVE Calm(SetData(row, data), row)
  <2> DEFINE new == SetData(row, data)
  <2>1. /\ DOMAIN new = 1 .. n
        /\ \A p \in 1 .. n : new[p].tag = row[p].tag /\ new[p].state = row[p].state
    BY <1>1 DEF SetData, Line
  <2> HIDE DEF new
  <2>2. Distinct(new)
    BY <1>1, <2>1 DEF Distinct
  <2>3. \A u : Left(new, u) => Left(row, u)
    BY <1>1, <2>1 DEF Left, IsValid
  <2> QED BY <2>2, <2>3 DEF Calm, new
<1>4. /\ Distinct(Invalidate(row))
      /\ \A u : Left(Invalidate(row), u) => u = row[1].tag \/ Left(row, u)
  <2> DEFINE new == Invalidate(row)
  <2>1. /\ DOMAIN new = 1 .. n /\ \A p \in 1 .. n : new[p].tag = row[p].tag
        /\ \A p \in 1 .. n : p # 1 => new[p] = row[p]
    BY <1>1 DEF Invalidate, Line
  <2> HIDE DEF new
  <2>2. Distinct(new)
    BY <1>1, <2>1 DEF Distinct
  <2>3. \A u : Left(new, u) => u = row[1].tag \/ Left(row, u)
    BY <1>1, <2>1 DEF Left
  <2> QED BY <2>2, <2>3 DEF new
<1> QED BY <1>2, <1>3, <1>4

(* A sibling's answer to a read leaves no new copy, that to a write at     *)
(* most one of the line asked for.                                         *)
LEMMA AnswerCalm ==
  ASSUME NEW n \in Nat \ {0}, NEW row \in Row(n), Distinct(row), NEW t \in Tags
  PROVE  /\ Calm(ReadAnswer(row, t), row)
         /\ Distinct(WriteAnswer(row, t))
         /\ \A u : Left(WriteAnswer(row, t), u) => u = t \/ Left(row, u)
<1> DEFINE new == FindLine(row, t)
<1>1. new \in Row(n) /\ Calm(new, row) /\ Distinct(new) /\ (Hits(row, t) => new[1].tag = t)
  BY FindLineType, FindLineCalm, FindLineOK DEF Calm
<1>2. /\ ReadAnswer(row, t) = IF Hits(row, t) THEN SetState(new, "S") ELSE new
      /\ WriteAnswer(row, t) = IF Hits(row, t) THEN Invalidate(new) ELSE new
  BY DEF ReadAnswer, WriteAnswer
<1> HIDE DEF new
<1>3. /\ Calm(SetState(new, "S"), new) /\ Distinct(Invalidate(new))
      /\ \A u : Left(Invalidate(new), u) => u = new[1].tag \/ Left(new, u)
  BY <1>1, FrontCalm
<1>4. Calm(SetState(new, "S"), row)
  BY <1>1, <1>3, CalmTrans
<1> QED BY <1>1, <1>2, <1>3, <1>4 DEF Calm

(* A fill puts the line in the place of its invalidated copy, if a lookup  *)
(* has just moved one to the front.                                        *)
LEMMA InstallCalm ==
  ASSUME NEW n \in Nat \ {0}, NEW row \in Row(n), Distinct(row), Flagged(row),
         NEW t \in Tags \ {0}, NEW s \in {"M", "S"}, NEW data \in LineData,
         Found(row, t) => row[1].tag = t
  PROVE  Calm(Install(row, t, s, data), row) /\ ~Left(Install(row, t, s, data), t)
<1> DEFINE base == FindLine2Replace(row, t)
           slot == SlotPos(row, t)
           new == Install(row, t, s, data)
           p == ReplacePos(row, t)
<1>1. DOMAIN row = 1 .. n /\ 1 \in 1 .. n /\ p \in 1 .. n
  BY ReplacePosIn DEF Row
<1>2. base \in Row(n) /\ slot \in 1 .. n
  BY InstallType DEF States
<1>3. Calm(base, row) /\ \A q \in 1 .. n : q # slot => base[q].tag # t
  <2>1. CASE Live(row, t) # {}
    <3>1. base = row /\ slot = p
      BY <2>1 DEF FindLine2Replace, SlotPos
    <3>2. Live(row, t) \in SUBSET (0 .. n)
      BY <1>1 DEF Live, Matches
    <3>3. p \in Live(row, t)
      BY <2>1, <3>2, MaxIn DEF ReplacePos
    <3>4. row[slot].tag = t
      BY <3>1, <3>3 DEF Live, Matches
    <3> HIDE DEF base, slot, p
    <3>5. \A q \in 1 .. n : q # slot => base[q].tag # t
      BY <1>1, <1>2, <3>1, <3>4 DEF Distinct
    <3> QED BY <3>1, <3>5 DEF Calm
  <2>2. CASE Live(row, t) = {}
    <3>1. base = MoveToFront(row, p) /\ slot = 1
      BY <2>2 DEF FindLine2Replace, SlotPos
    <3>2. CASE Found(row, t)
      <4>1. row[1].tag = t /\ row[1] \in Line
        BY <1>1, <3>2 DEF Row
      <4>2. row[1].islineInvalid
        BY <1>1, <2>2, <4>1 DEF Live, Matches
      <4>3. 1 \in Free(row)
        BY <1>1, <4>1, <4>2 DEF Free, Flagged, IsValid
      <4>4. Free(row) \in SUBSET Nat /\ \A q \in Free(row) : q >= 1
        BY <1>1 DEF Free
      <4>5. Min(Free(row)) \in Free(row) /\ \A q \in Free(row) : Min(Free(row)) <= q
        BY <4>3, <4>4, MinIn
      <4>6. Min(Free(row)) = 1
        BY <4>3, <4>4, <4>5
      <4>7. p = 1
        BY <2>2, <4>3, <4>6 DEF ReplacePos
      <4>8. \A q \in 1 .. n : Src(1, q) = q
        BY DEF Src
      <4>9. \A q \in 1 .. n : base[q] = row[q]
        <5>1. row \in Row(n) /\ 1 \in 1 .. n
          OBVIOUS
        <5>2. \A q \in 1 .. n : MoveToFront(row, 1)[q] = row[Src(1, q)]
          BY <5>1, MoveToFrontPermutes
        <5> QED BY <3>1, <4>7, <4>8, <5>2
      <4>10. Calm(base, row)
        BY <1>1, <3>1, MoveToFrontCalm
      <4>11. \A q \in 1 .. n : q # 1 => row[q].tag # t
        BY <1>1, <4>1 DEF Distinct
      <4> QED BY <3>1, <4>9, <4>10, <4>11
    <3>3. CASE ~Found(row, t)
      <4>1. \A q \in 1 .. n : row[q].tag # t
        BY <1>1, <3>3 DEF Found, Matches
      <4>2. \A q \in 1 .. n : Src(p, q) \in 1 .. n /\ MoveToFront(row, p)[q] = row[Src(p, q)]
        BY <1>1, MoveToFrontPermutes
      <4> QED BY <1>1, <3>1, <4>1, <4>2, MoveToFrontCalm
    <3> QED BY <3>2, <3>3
  <2> QED BY <2>1, <2>2
<1>4. DOMAIN base = 1 .. n
  BY <1>2 DEF Row
<1>5. /\ DOMAIN new = 1 .. n /\ new[slot].tag = t /\ new[slot].state = s
      /\ \A q \in 1 .. n : q # slot => new[q] = base[q]
  BY <1>2, <1>4 DEF Install
<1> HIDE DEF base, slot, new, p
<1>6. Distinct(new)
  BY <1>2, <1>3, <1>4, <1>5 DEF Distinct, Calm
<1>7. ~Left(new, t)
  BY <1>3, <1>5 DEF Left, IsValid
<1>8. ASSUME NEW u, Left(new, u) PROVE Left(row, u)
  <2>1. PICK q \in 1 .. n : new[q].tag = u /\ ~IsValid(new[q])
    BY <1>5, <1>8 DEF Left
  <2>2. q # slot
    BY <1>5, <2>1 DEF IsValid
  <2>3. Left(base, u)
    BY <1>4, <1>5, <1>8, <2>1, <2>2 DEF Left
  <2> QED BY <1>3, <2>3 DEF Calm
<1> QED BY <1>6, <1>7, <1>8 DEF Calm, new

-----------------------------------------------------------------------------
(* The invalidated copies of the private caches.                           *)
AllDistinct(h) == \A c \in Cpus, s \in Sets : Distinct(h.cache[c][s])
LeftIn(h, c, t) == Left(RowOf(h, c, t), t)

(* A hierarchy that came from another one without a new invalidated copy.  *)
CalmHier(g, h) ==
  AllDistinct(g) /\ \A c \in Cpus, u \in Tags : LeftIn(g, c, u) => LeftIn(h, c, u)

(* The same in two steps.                                                  *)
LEMMA CalmHierTrans ==
  ASSUME NEW f, NEW g, NEW h, CalmHier(f, g), CalmHier(g, h)
  PROVE  CalmHier(f, h)
BY DEF CalmHier

(* It is enough that every row came so.                                    *)
LEMMA RowsCalm ==
  ASSUME NEW g, NEW h, \A c \in Cpus, s \in Sets : Calm(g.cache[c][s], h.cache[c][s])
  PROVE  CalmHier(g, h)
BY IndexFacts DEF CalmHier, AllDistinct, LeftIn, RowOf, Calm

(* Nothing changes if the private rows do not.                             *)
LEMMA SameCalm ==
  ASSUME NEW h, AllDistinct(h), NEW g, SamePrivate(g, h)
  PROVE  CalmHier(g, h)
<1>1. \A c \in Cpus, s \in Sets : Calm(g.cache[c][s], h.cache[c][s])
  BY DEF SamePrivate, AllDistinct, Calm
<1> QED BY <1>1, RowsCalm

(* Nor if only counters do.                                                *)
LEMMA SameCacheCalm ==
  ASSUME NEW h, AllDistinct(h), NEW g, g.cache = h.cache
  PROVE  CalmHier(g, h)
<1>1. SamePrivate(g, h)
  BY DEF SamePrivate
<1> QED BY <1>1, SameCalm

(* Replacing one row of a private cache.                                   *)
LEMMA WithRowCalm ==
  ASSUME NEW h, HierType(h), AllDistinct(h), NEW c \in Cpus, NEW t \in Tags,
         NEW row \in Row(Assoc(c)), Calm(row, RowOf(h, c, t))
  PROVE  CalmHier(WithRow(h, c, t, row), h)
<1> DEFINE g == WithRow(h, c, t, row)
<1>1. \A d \in Cpus : d \in Caches
  BY CacheFacts
<1>2. /\ g.cache[c][SetOf(t)] = row
      /\ \A j \in Caches, s \in Sets : (j # c \/ s # SetOf(t)) => g.cache[j][s] = h.cache[j][s]
  BY <1>1, WithRowType DEF RowOf
<1> HIDE DEF g
<1>3. ASSUME NEW d \in Cpus, NEW s \in Sets PROVE Calm(g.cache[d][s], h.cache[d][s])
  <2>1. CASE d = c /\ s = SetOf(t)
    BY <1>2, <2>1 DEF RowOf
  <2>2. CASE d # c \/ s # SetOf(t)
    BY <1>1, <1>2, <2>2 DEF Calm, AllDistinct
  <2> QED BY <2>1, <2>2
<1>4. CalmHier(g, h)
  BY <1>3, RowsCalm
<1> QED BY <1>4 DEF g

(* A lookup leaves no new copy, whatever it counts.                        *)
LEMMA LookCalm ==
  ASSUME NEW h, HierType(h), AllDistinct(h), NEW c \in Cpus, NEW t \in Tags, NEW names
  PROVE  /\ CalmHier(Look(h, c, t), h)
         /\ CalmHier(Count(Look(h, c, t), c, names), h)
         /\ RowOf(Count(Look(h, c, t), c, names), c, t) = FindLine(RowOf(h, c, t), t)
         /\ Found(RowOf(Count(Look(h, c, t), c, names), c, t), t)
              => RowOf(Count(Look(h, c, t), c, names), c, t)[1].tag = t
<1> DEFINE old == RowOf(h, c, t)
           row == FindLine(old, t)
           g == Look(h, c, t)
           k == Count(g, c, names)
<1>1. c \in Caches /\ Assoc(c) \in Nat \ {0} /\ old \in Row(Assoc(c)) /\ Distinct(old)
  BY CacheFacts, RowOfType, IndexFacts DEF AllDistinct, RowOf
<1> HIDE DEF old
<1>2. row \in Row(Assoc(c)) /\ Calm(row, old) /\ (Found(row, t) => row[1].tag = t)
  BY <1>1, FindLineType, FindLineCalm
<1> HIDE DEF row
<1>3. g = WithRow(h, c, t, row)
  BY DEF Look, row, old
<1>4. CalmHier(g, h) /\ HierType(g) /\ RowOf(g, c, t) = row
  BY <1>1, <1>2, <1>3, WithRowCalm, WithRowType DEF old
<1> HIDE DEF g
<1>5. k.cache = g.cache
  BY <1>1, <1>4, CountType
<1> HIDE DEF k
<1>6. RowOf(k, c, t) = row
  BY <1>4, <1>5 DEF RowOf
<1>7. CalmHier(k, g)
  BY <1>4, <1>5, SameCacheCalm DEF CalmHier
<1>8. CalmHier(k, h)
  BY <1>4, <1>7, CalmHierTrans
<1> QED BY <1>2, <1>4, <1>6, <1>8 DEF g, k, row, old

(* The snoop of a read leaves nothing; that of a write copies of its line  *)
(* in the siblings.                                                        *)
LEMMA RemoteCalm ==
  ASSUME NEW h, HierType(h), AllDistinct(h), NEW c \in Cpus, NEW t \in Tags
  PROVE  /\ CalmHier(ReadRemoteAction(h, c, t), h)
         /\ AllDistinct(WriteRemoteAction(h, c, t))
         /\ \A d \in Cpus, u \in Tags :
              LeftIn(WriteRemoteAction(h, c, t), d, u) => LeftIn(h, d, u) \/ (d # c /\ u = t)
<1> DEFINE r == ReadRemoteAction(h, c, t)
           w == WriteRemoteAction(h, c, t)
<1>1. \A d \in Cpus : d \in Caches /\ Assoc(d) \in Nat \ {0}
  BY CacheFacts
<1>2. SetOf(t) \in Sets /\ \A u \in Tags : SetOf(u) \in Sets
  BY IndexFacts
<1>3. /\ \A k \in Caches, s \in Sets :
           r.cache[k][s] = IF k \in AskedOnRead(h, c, t) /\ s = SetOf(t)
                           THEN ReadAnswer(RowOf(h, k, t), t) ELSE h.cache[k][s]
      /\ \A k \in Caches, s \in Sets :
           w.cache[k][s] = IF k \in Siblings(c) /\ s = SetOf(t)
                           THEN WriteAnswer(RowOf(h, k, t), t) ELSE h.cache[k][s]
  BY RemoteType
<1> HIDE DEF r, w
<1>4. \A d \in Cpus : /\ Calm(ReadAnswer(RowOf(h, d, t), t), h.cache[d][SetOf(t)])
                      /\ Distinct(WriteAnswer(RowOf(h, d, t), t))
                      /\ \A u : Left(WriteAnswer(RowOf(h, d, t), t), u)
                                  => u = t \/ Left(h.cache[d][SetOf(t)], u)
  <2> TAKE d \in Cpus
  <2> DEFINE row == RowOf(h, d, t)
  <2>1. row \in Row(Assoc(d)) /\ Distinct(row) /\ row = h.cache[d][SetOf(t)]
    BY <1>1, <1>2, RowOfType DEF AllDistinct, RowOf
  <2> HIDE DEF row
  <2>2. /\ Calm(ReadAnswer(row, t), row) /\ Distinct(WriteAnswer(row, t))
        /\ \A u : Left(WriteAnswer(row, t), u) => u = t \/ Left(row, u)
    BY <1>1, <2>1, AnswerCalm
  <2> QED BY <2>1, <2>2 DEF row
<1>5. \A d \in Cpus, s \in Sets : Calm(r.cache[d][s], h.cache[d][s])
  BY <1>1, <1>3, <1>4 DEF Calm, AllDistinct
<1>6. AllDistinct(w)
  BY <1>1, <1>3, <1>4 DEF AllDistinct
<1>7. ASSUME NEW d \in Cpus, NEW u \in Tags, LeftIn(w, d, u)
      PROVE  LeftIn(h, d, u) \/ (d # c /\ u = t)
  <2>1. Left(w.cache[d][SetOf(u)], u) /\ SetOf(u) \in Sets /\ d \in Caches
    BY <1>1, <1>2, <1>7 DEF LeftIn, RowOf
  <2>2. CASE d \in Siblings(c) /\ SetOf(u) = SetOf(t)
    <3>1. Left(WriteAnswer(RowOf(h, d, t), t), u)
      BY <1>3, <2>1, <2>2
    <3>2. u = t \/ Left(h.cache[d][SetOf(u)], u)
      BY <1>4, <2>2, <3>1
    <3> QED BY <2>2, <3>2 DEF Siblings, LeftIn, RowOf
  <2>3. CASE ~(d \in Siblings(c) /\ SetOf(u) = SetOf(t))
    BY <1>3, <2>1, <2>3 DEF LeftIn, RowOf
  <2> QED BY <2>2, <2>3
<1>8. CalmHier(r, h)
  BY <1>5, RowsCalm
<1> QED BY <1>6, <1>7, <1>8 DEF r, w

(* A fill leaves no new copy, and none of the line it fills.               *)
LEMMA PrivateFillCalm ==
  ASSUME NEW h, Good(h), AllDistinct(h), NEW c \in Cpus, NEW t \in Tags \ {0},
         NEW s \in {"M", "S"}, NEW data \in LineData,
         Found(RowOf(h, c, t), t) => RowOf(h, c, t)[1].tag = t
  PROVE  /\ CalmHier(FillLine(h, c, t, s, data, LLCWrite), h)
         /\ ~LeftIn(FillLine(h, c, t, s, data, LLCWrite), c, t)
<1> DEFINE victim == Victim(RowOf(h, c, t), t)
           written == LLCWrite(h, victim.tag, victim.data)
           pushed == Count(written, c, {"numReplacements"})
           old == RowOf(h, c, t)
           row == Install(old, t, s, data)
           start == IF Evicts(h, c, t) THEN pushed ELSE h
           g == WithRow(start, c, t, row)
<1>1. c \in Caches /\ HierType(h) /\ SetOf(t) \in Sets /\ Assoc(c) \in Nat \ {0}
  BY CacheFacts, IndexFacts DEF Good
<1>2. FillLine(h, c, t, s, data, LLCWrite) = g
  BY DEF FillLine
<1>3. victim.tag \in Tags /\ victim.data \in LineData
  BY <1>1, InstallGood
<1>4. Under(written, h)
  <2> HIDE DEF victim
  <2> QED BY <1>3, LLCWriteUnder
<1>5. Under(pushed, written)
  <2> HIDE DEF written
  <2> QED BY <1>1, <1>4, CountGood DEF Under, SamePrivate
<1>6. Good(start) /\ SamePrivate(start, h)
  <2>1. Under(pushed, h)
    BY <1>4, <1>5, UnderTrans
  <2>2. SamePrivate(h, h)
    BY DEF SamePrivate
  <2> HIDE DEF pushed
  <2> QED BY <2>1, <2>2 DEF Under
<1> HIDE DEF start
<1>7. RowOf(start, c, t) = old /\ CalmHier(start, h) /\ HierType(start)
  BY <1>6, SameCalm DEF SamePrivate, RowOf, Good
<1>8. old \in Row(Assoc(c)) /\ Flagged(old) /\ Distinct(old)
  BY <1>1, RowGood DEF RowOK, AllDistinct, RowOf
<1>9. Found(old, t) => old[1].tag = t
  OBVIOUS
<1> HIDE DEF old
<1>10. Calm(row, old) /\ ~Left(row, t) /\ row \in Row(Assoc(c))
  BY <1>1, <1>8, <1>9, InstallCalm, InstallType DEF States
<1> HIDE DEF row
<1>11. CalmHier(g, start) /\ RowOf(g, c, t) = row
  BY <1>1, <1>7, <1>10, WithRowCalm, WithRowType DEF CalmHier
<1> HIDE DEF g
<1>12. CalmHier(g, h) /\ ~LeftIn(g, c, t)
  BY <1>7, <1>10, <1>11, CalmHierTrans DEF LeftIn
<1> QED BY <1>2, <1>12

(* What a read miss fetches leaves nothing either.                         *)
LEMMA FetchCalm ==
  ASSUME NEW h, Coherent(h), AllDistinct(h), NEW c \in Cpus, NEW t \in Tags
  PROVE  CalmHier(Fetch(h, c, t).hier, h)
<1> DEFINE asked == ReadRemoteAction(h, c, t)
<1>1. c \in Caches /\ HierType(h) /\ Good(asked)
  BY CacheFacts, ReadRemoteGood DEF Coherent, Good
<1>2. CalmHier(asked, h) /\ AllDistinct(asked)
  BY <1>1, RemoteCalm DEF CalmHier
<1> HIDE DEF asked
<1>3. CASE ValidCopies(h, c, t) # {}
  <2>1. PICK names : Fetch(h, c, t).hier = Count(asked, c, names)
    BY <1>3 DEF Fetch, asked
  <2>2. Count(asked, c, names).cache = asked.cache
    BY <1>1, CountGood
  <2>3. CalmHier(Count(asked, c, names), asked)
    BY <1>2, <2>2, SameCacheCalm
  <2> QED BY <1>2, <2>1, <2>3, CalmHierTrans
<1>4. CASE ValidCopies(h, c, t) = {}
  <2>1. Fetch(h, c, t) = LLCRead(asked, t)
    BY <1>4 DEF Fetch, asked
  <2>2. SamePrivate(LLCRead(asked, t).hier, asked)
    BY <1>1, LLCReadUnder DEF Under
  <2>3. CalmHier(LLCRead(asked, t).hier, asked)
    BY <1>2, <2>2, SameCalm
  <2> QED BY <1>2, <2>1, <2>3, CalmHierTrans
<1> QED BY <1>3, <1>4

(* A read miss leaves no new copy, and takes the place of its own.         *)
LEMMA ReadMissCalm ==
  ASSUME NEW h, Coherent(h), AllDistinct(h), NEW c \in Cpus, NEW t \in Tags \ {0},
         NEW w \in Words
  PROVE  CalmHier(ReadMissOf(h, c, t, w), h) /\ ~LeftIn(ReadMissOf(h, c, t, w), c, t)
<1> DEFINE missed == ReadMissed(h, c, t)
           fetched == Fetch(missed, c, t)
           judged == Judge(Found(RowOf(h, c, t), t), FrontData(missed, c, t), fetched, c, w)
           filled == FillLine(judged, c, t, "S", fetched.data, LLCWrite)
<1>1. HierType(h) /\ t \in Tags
  BY DEF Coherent, Good
<1>2. /\ Coherent(missed) /\ CalmHier(missed, h) /\ AllDistinct(missed)
      /\ Found(RowOf(missed, c, t), t) => RowOf(missed, c, t)[1].tag = t
  BY <1>1, ReadMissCoherent, LookCalm DEF ReadMissed, CalmHier
<1>3. ReadMissOf(h, c, t, w) = filled
  BY DEF ReadMissOf
<1> HIDE DEF missed
<1>4. /\ Coherent(fetched.hier) /\ fetched.data \in LineData
      /\ CalmHier(fetched.hier, missed) /\ AllDistinct(fetched.hier)
      /\ RowOf(fetched.hier, c, t) = RowOf(missed, c, t)
  BY <1>1, <1>2, FetchCoherent, FetchCalm, FetchOwnRow DEF CalmHier
<1> HIDE DEF fetched
<1>5. Coherent(judged) /\ judged.cache = fetched.hier.cache
  BY <1>4, JudgeCoherent
<1> HIDE DEF judged
<1>6. CalmHier(judged, fetched.hier) /\ RowOf(judged, c, t) = RowOf(missed, c, t)
  BY <1>4, <1>5, SameCacheCalm DEF RowOf
<1>7. Good(judged) /\ AllDistinct(judged)
      /\ (Found(RowOf(judged, c, t), t) => RowOf(judged, c, t)[1].tag = t)
  BY <1>2, <1>5, <1>6 DEF Coherent, CalmHier
<1>8. CalmHier(filled, judged) /\ ~LeftIn(filled, c, t)
  BY <1>4, <1>7, PrivateFillCalm
<1> HIDE DEF filled
<1> QED BY <1>2, <1>3, <1>4, <1>6, <1>8, CalmHierTrans

(* Hits leave no new copy.                                                 *)
LEMMA PutWordCalm ==
  ASSUME NEW h, HierType(h), AllDistinct(h), NEW c \in Cpus, NEW t \in Tags,
         NEW w \in Words, NEW v \in Values
  PROVE  /\ CalmHier(PutWord(h, c, t, w, v), h)
         /\ CalmHier(PutOwned(h, c, t, w, v), h)
<1>1. c \in Caches /\ Assoc(c) \in Nat \ {0} /\ SetOf(t) \in Sets
  BY CacheFacts, IndexFacts
<1>2. ASSUME NEW g, HierType(g), AllDistinct(g)
      PROVE  CalmHier(PutWord(g, c, t, w, v), g)
  <2> DEFINE row == RowOf(g, c, t)
             data == [row[1].data EXCEPT ![w] = v]
             new == SetData(row, data)
  <2>1. row \in Row(Assoc(c)) /\ Distinct(row) /\ data \in LineData
    BY <1>1, <1>2, RowOfType, FrontDataType, WordType DEF AllDistinct, RowOf, FrontData
  <2>2. PutWord(g, c, t, w, v) = WithRow(g, c, t, new)
    BY DEF PutWord
  <2> HIDE DEF data
  <2>3. row = RowOf(g, c, t)
    OBVIOUS
  <2> HIDE DEF row
  <2>4. new \in Row(Assoc(c)) /\ Calm(new, row)
    BY <1>1, <2>1, FrontUpdateType, FrontCalm
  <2> HIDE DEF new
  <2> QED BY <1>2, <2>2, <2>3, <2>4, WithRowCalm
<1>3. CalmHier(PutOwned(h, c, t, w, v), h)
  <2> DEFINE row == RowOf(h, c, t)
             new == SetState(row, "M")
             owned == WithRow(h, c, t, new)
  <2>1. row \in Row(Assoc(c)) /\ Distinct(row)
    BY <1>1, RowOfType DEF AllDistinct, RowOf
  <2>2. PutOwned(h, c, t, w, v) = PutWord(owned, c, t, w, v) /\ row = RowOf(h, c, t)
    BY DEF PutOwned
  <2> HIDE DEF row
  <2>3. new \in Row(Assoc(c)) /\ Calm(new, row)
    BY <1>1, <2>1, FrontUpdateType, FrontCalm DEF States
  <2> HIDE DEF new
  <2>4. HierType(owned) /\ CalmHier(owned, h)
    BY <1>1, <2>2, <2>3, WithRowCalm, WithRowType
  <2> HIDE DEF owned
  <2>5. AllDistinct(owned)
    BY <2>4 DEF CalmHier
  <2>6. CalmHier(PutWord(owned, c, t, w, v), owned)
    BY <1>2, <2>4, <2>5
  <2> QED BY <2>2, <2>4, <2>6, CalmHierTrans
<1> QED BY <1>2, <1>3

(* Nor does any hit.                                                       *)
LEMMA HitCalm ==
  ASSUME NEW h, HierType(h), AllDistinct(h), NEW c \in Cpus, NEW t \in Tags
  PROVE  /\ CalmHier(ReadHitOf(h, c, t), h)
         /\ \A w \in Words, v \in Values : CalmHier(WriteHitOf(h, c, t, w, v), h)
<1>1. CalmHier(ReadHitOf(h, c, t), h)
  BY LookCalm DEF ReadHitOf
<1>2. ASSUME NEW w \in Words, NEW v \in Values PROVE CalmHier(WriteHitOf(h, c, t, w, v), h)
  <2> DEFINE names == {"numWriteHits"} \cup Silent(Look(h, c, t), c, t, w, v)
             counted == Count(Look(h, c, t), c, names)
  <2>1. WriteHitOf(h, c, t, w, v) = PutWord(counted, c, t, w, v)
    BY DEF WriteHitOf
  <2> HIDE DEF names
  <2>2. c \in Caches
    BY CacheFacts
  <2>3. HierType(counted) /\ CalmHier(counted, h)
    BY <2>2, LookType, CountType, LookCalm
  <2> HIDE DEF counted
  <2>4. CalmHier(PutWord(counted, c, t, w, v), counted)
    BY <2>3, PutWordCalm DEF CalmHier
  <2> QED BY <2>1, <2>3, <2>4, CalmHierTrans
<1> QED BY <1>1, <1>2

(* A hierarchy whose only new invalidated copies are the siblings' of t.   *)
Spread(g, h, c, t) ==
  /\ AllDistinct(g)
  /\ \A d \in Cpus, u \in Tags : LeftIn(g, d, u) => LeftIn(h, d, u) \/ (d # c /\ u = t)

(* Steps before and after a snoop add nothing to it.                       *)
LEMMA SpreadTrans ==
  ASSUME NEW f, NEW g, NEW h, NEW c, NEW t
  PROVE  /\ Spread(f, g, c, t) /\ CalmHier(g, h) => Spread(f, h, c, t)
         /\ CalmHier(f, g) /\ Spread(g, h, c, t) => Spread(f, h, c, t)
BY DEF Spread, CalmHier

(* A write miss leaves copies of its line in the siblings only.            *)
LEMMA WriteMissSpreads ==
  ASSUME NEW h, Coherent(h), AllDistinct(h), NEW c \in Cpus, NEW t \in Tags \ {0},
         NEW w \in Words, NEW v \in Values
  PROVE  Spread(WriteMissOf(h, c, t, w, v), h, c, t) /\ ~LeftIn(WriteMissOf(h, c, t, w, v), c, t)
<1> DEFINE missed == WriteMissed(h, c, t)
           alone == WriteRemoteAction(missed, c, t)
           asks == ValidCopies(missed, c, t) = {}
           got == IF asks THEN LLCRead(alone, t)
                  ELSE [hier |-> alone, data |-> InvalidateReply(missed, c, t)]
           data == [got.data EXCEPT ![w] = v]
           filled == FillLine(got.hier, c, t, "M", data, LLCWrite)
<1>1. HierType(h) /\ t \in Tags /\ SetOf(t) \in Sets /\ c \in Caches
  BY CacheFacts, IndexFacts DEF Coherent, Good
<1>2. /\ Coherent(missed) /\ CalmHier(missed, h) /\ AllDistinct(missed)
      /\ Found(RowOf(missed, c, t), t) => RowOf(missed, c, t)[1].tag = t
  BY <1>1, WriteMissCoherent, LookCalm DEF WriteMissed, CalmHier
<1>3. WriteMissOf(h, c, t, w, v) = filled
  BY DEF WriteMissOf
<1>4. ~asks => InvalidateReply(missed, c, t) \in LineData
  <2> HIDE DEF missed
  <2> QED BY <1>1, <1>2, ReplyType
<1> HIDE DEF missed, asks
<1>5. HierType(missed) /\ Good(missed)
  BY <1>2 DEF Coherent, Good
<1>6. Good(alone) /\ RowOf(alone, c, t) = RowOf(missed, c, t) /\ Spread(alone, missed, c, t)
  <2>1. Good(alone) /\ RowOf(alone, c, t) = RowOf(missed, c, t)
    BY <1>1, <1>5, WriteRemoteGood DEF RowOf
  <2> QED BY <1>1, <1>2, <1>5, <2>1, RemoteCalm DEF Spread
<1> HIDE DEF alone
<1>7. /\ got.data \in LineData /\ Good(got.hier) /\ SamePrivate(got.hier, alone)
  <2>1. CASE asks
    <3>1. got = LLCRead(alone, t)
      BY <2>1
    <3> HIDE DEF got
    <3> QED BY <1>1, <1>6, <3>1, LLCReadUnder DEF Under
  <2>2. CASE ~asks
    <3>1. got = [hier |-> alone, data |-> InvalidateReply(missed, c, t)]
      BY <2>2
    <3> HIDE DEF got
    <3> QED BY <1>4, <1>6, <2>2, <3>1 DEF SamePrivate
  <2> QED BY <2>1, <2>2
<1> HIDE DEF got
<1>8. /\ CalmHier(got.hier, alone) /\ AllDistinct(got.hier)
      /\ RowOf(got.hier, c, t) = RowOf(missed, c, t)
  BY <1>6, <1>7, SameCalm DEF Spread, CalmHier, RowOf, SamePrivate
<1>9. data \in LineData
  BY <1>7, WordType
<1> HIDE DEF data
<1>10. CalmHier(filled, got.hier) /\ ~LeftIn(filled, c, t)
  BY <1>2, <1>7, <1>8, <1>9, PrivateFillCalm
<1> HIDE DEF filled
<1> QED BY <1>2, <1>3, <1>6, <1>8, <1>10, SpreadTrans

(* So does an upgrade.                                                     *)
LEMMA WriteUpgradeSpreads ==
  ASSUME NEW h, Coherent(h), AllDistinct(h), NEW c \in Cpus, NEW t \in Tags,
         NEW w \in Words, NEW v \in Values
  PROVE  Spread(WriteUpgradeOf(h, c, t, w, v), h, c, t)
<1> DEFINE looked == Look(h, c, t)
           alone == WriteRemoteAction(looked, c, t)
           snooped == UpgradeSnooped(looked, c, t, w, v)
<1>1. c \in Caches /\ HierType(h)
  BY CacheFacts DEF Coherent, Good
<1>2. HierType(looked) /\ CalmHier(looked, h) /\ AllDistinct(looked)
  BY <1>1, LookType, LookCalm DEF CalmHier
<1>3. WriteUpgradeOf(h, c, t, w, v) = PutOwned(snooped, c, t, w, v)
  BY DEF WriteUpgradeOf
<1> HIDE DEF looked
<1>4. HierType(alone) /\ Spread(alone, looked, c, t)
  BY <1>2, RemoteType, RemoteCalm DEF Spread
<1>5. HierType(snooped) /\ snooped.cache = alone.cache
  <2> HIDE DEF alone
  <2> QED BY <1>1, <1>4, CountType DEF UpgradeSnooped, alone
<1> HIDE DEF alone, snooped
<1>6. CalmHier(snooped, alone)
  BY <1>4, <1>5, SameCacheCalm DEF Spread
<1>7. CalmHier(PutOwned(snooped, c, t, w, v), snooped)
  BY <1>5, <1>6, PutWordCalm DEF CalmHier
<1> QED BY <1>2, <1>3, <1>4, <1>6, <1>7, SpreadTrans

-----------------------------------------------------------------------------
(* How many invalidated copies there are.                                  *)
Dead(h) == {x \in Cpus \X Tags : LeftIn(h, x[1], x[2])}

(* There are finitely many of them.                                        *)
LEMMA DeadFinite ==
  ASSUME NEW h
  PROVE  IsFiniteSet(Dead(h)) /\ Cardinality(Dead(h)) \in Nat
<1>1. IsFiniteSet(Tags)
  BY FS_Interval, GeometryAssumption DEF Tags
<1>2. IsFiniteSet(Cpus \X Tags)
  BY <1>1, CpusFinite, FS_Product
<1>3. Dead(h) \in SUBSET (Cpus \X Tags)
  BY DEF Dead
<1> HIDE DEF Dead
<1>4. IsFiniteSet(Dead(h))
  BY <1>2, <1>3, FS_Subset
<1> QED BY <1>4, FS_CardinalityType

(* The siblings are one fewer than the private caches.                     *)
LEMMA SiblingCopies ==
  ASSUME NEW c \in Cpus, NEW t
  PROVE  /\ IsFiniteSet(Siblings(c) \X {t})
         /\ Cardinality(Siblings(c) \X {t}) = NumCaches - 1
<1>1. IsFiniteSet(Siblings(c)) /\ Cardinality(Siblings(c)) = NumCaches - 1
  BY CpusFinite, FS_RemoveElement DEF Siblings
<1>2. IsFiniteSet({t}) /\ Cardinality({t}) = 1
  BY FS_Singleton
<1>3. NumCaches - 1 \in Int
  BY CpusFinite
<1> QED BY <1>1, <1>2, <1>3, FS_Product

(* A union has at most as many members as its parts together.              *)
AtMost(S, T, U) ==
  IsFiniteSet(U) /\ Cardinality(U) \in Nat /\ Cardinality(U) <= Cardinality(S) + Cardinality(T)

LEMMA UnionAtMost ==
  ASSUME NEW S, IsFiniteSet(S), NEW T, IsFiniteSet(T)
  PROVE  AtMost(S, T, S \cup T)
<1>1. IsFiniteSet(S \cup T) /\ IsFiniteSet(S \cap T)
  <2>1. S \cap T \in SUBSET S
    OBVIOUS
  <2> QED BY <2>1, FS_Union, FS_Subset
<1>2. Cardinality(S \cup T) = Cardinality(S) + Cardinality(T) - Cardinality(S \cap T)
  BY FS_Union
<1>3. /\ Cardinality(S) \in Nat /\ Cardinality(T) \in Nat
      /\ Cardinality(S \cap T) \in Nat /\ Cardinality(S \cup T) \in Nat
  BY <1>1, FS_CardinalityType
<1> QED BY <1>1, <1>2, <1>3 DEF AtMost

(* An access without a snoop of a write adds none, and takes the one away  *)
(* that it refills; a write adds at most one in each sibling.              *)
LEMMA DeadMoves ==
  ASSUME NEW h, NEW g, NEW c \in Cpus, NEW t \in Tags
  PROVE  /\ CalmHier(g, h) => Cardinality(Dead(g)) <= Cardinality(Dead(h))
         /\ CalmHier(g, h) /\ LeftIn(h, c, t) /\ ~LeftIn(g, c, t)
              => Cardinality(Dead(g)) + 1 <= Cardinality(Dead(h))
         /\ Spread(g, h, c, t) => Cardinality(Dead(g)) <= Cardinality(Dead(h)) + (NumCaches - 1)
         /\ Spread(g, h, c, t) /\ LeftIn(h, c, t) /\ ~LeftIn(g, c, t)
              => Cardinality(Dead(g)) + 1 <= Cardinality(Dead(h)) + (NumCaches - 1)
<1> DEFINE new == Siblings(c) \X {t}
           own == <<c, t>>
           rest == Dead(h) \ {own}
<1>1. /\ IsFiniteSet(Dead(h)) /\ Cardinality(Dead(h)) \in Nat
      /\ IsFiniteSet(Dead(g)) /\ Cardinality(Dead(g)) \in Nat
  BY DeadFinite
<1>2. IsFiniteSet(new) /\ Cardinality(new) = NumCaches - 1 /\ NumCaches \in Nat
  BY SiblingCopies, CpusFinite
<1>3. LeftIn(h, c, t) => IsFiniteSet(rest) /\ Cardinality(rest) = Cardinality(Dead(h)) - 1
  <2>1. LeftIn(h, c, t) => own \in Dead(h)
    BY DEF Dead
  <2> HIDE DEF own
  <2> QED BY <1>1, <2>1, FS_RemoveElement
<1>4. CalmHier(g, h) => Dead(g) \subseteq Dead(h)
  BY DEF CalmHier, Dead
<1>5. ~LeftIn(g, c, t) => own \notin Dead(g)
  BY DEF Dead
<1>6. Spread(g, h, c, t) => Dead(g) \subseteq Dead(h) \cup new
  <2> SUFFICES ASSUME Spread(g, h, c, t), NEW d \in Cpus, NEW u \in Tags, LeftIn(g, d, u)
               PROVE  LeftIn(h, d, u) \/ <<d, u>> \in new
    BY DEF Dead
  <2> QED BY DEF Spread, Siblings
<1> HIDE DEF new, own, Dead
<1>7. CalmHier(g, h) => Cardinality(Dead(g)) <= Cardinality(Dead(h))
  BY <1>1, <1>4, FS_Subset
<1>8. ASSUME CalmHier(g, h), LeftIn(h, c, t), ~LeftIn(g, c, t)
      PROVE  Cardinality(Dead(g)) + 1 <= Cardinality(Dead(h))
  <2>1. Dead(g) \in SUBSET rest /\ IsFiniteSet(rest) /\ Cardinality(rest) = Cardinality(Dead(h)) - 1
    BY <1>3, <1>4, <1>5, <1>8
  <2> HIDE DEF rest
  <2>2. Cardinality(Dead(g)) <= Cardinality(rest)
    BY <2>1, FS_Subset
  <2> QED BY <1>1, <2>1, <2>2
<1>9. ASSUME Spread(g, h, c, t)
      PROVE  Cardinality(Dead(g)) <= Cardinality(Dead(h)) + (NumCaches - 1)
  <2>1. AtMost(Dead(h), new, Dead(h) \cup new)
    BY <1>1, <1>2, UnionAtMost
  <2>2. Cardinality(Dead(g)) <= Cardinality(Dead(h) \cup new)
    BY <1>6, <1>9, <2>1, FS_Subset DEF AtMost
  <2> QED BY <1>1, <1>2, <2>1, <2>2 DEF AtMost
<1>10. ASSUME Spread(g, h, c, t), LeftIn(h, c, t), ~LeftIn(g, c, t)
       PROVE  Cardinality(Dead(g)) + 1 <= Cardinality(Dead(h)) + (NumCaches - 1)
  <2>1. Dead(g) \subseteq rest \cup new /\ IsFiniteSet(rest) /\ Cardinality(rest) = Cardinality(Dead(h)) - 1
    BY <1>3, <1>5, <1>6, <1>10
  <2> HIDE DEF rest
  <2>2. AtMost(rest, new, rest \cup new)
    BY <1>2, <2>1, UnionAtMost
  <2>3. Cardinality(Dead(g)) <= Cardinality(rest \cup new)
    BY <2>1, <2>2, FS_Subset DEF AtMost
  <2> QED BY <1>1, <1>2, <2>1, <2>2, <2>3 DEF AtMost
<1> QED BY <1>7, <1>8, <1>9, <1>10

(* A miss on a line with the tag finds an invalidated copy of it.          *)
LEMMA MissFindsDead ==
  ASSUME NEW h, HierType(h), NEW c \in Cpus, NEW t \in Tags \ {0},
         Found(RowOf(h, c, t), t), ~HitsIn(h, c, t)
  PROVE  LeftIn(h, c, t)
<1> DEFINE row == RowOf(h, c, t)
<1>1. Assoc(c) \in Nat \ {0} /\ row \in Row(Assoc(c))
  BY CacheFacts, RowOfType
<1>2. FindPos(row, t) \in DOMAIN row /\ row[FindPos(row, t)].tag = t
  BY <1>1, FindPosIn DEF Row
<1>3. ~IsValid(row[FindPos(row, t)])
  BY DEF HitsIn, Hits
<1> HIDE DEF row
<1>4. Left(row, t)
  BY <1>2, <1>3 DEF Left
<1> QED BY <1>4 DEF LeftIn, row

-----------------------------------------------------------------------------
(* Every miss on an invalidated copy spends one; every invalidation pays   *)
(* for one in each sibling.                                                *)
OnInvalidMiss(N) == "numReadOnInvalidMisses" \in N \/ "numWriteOnInvalidMisses" \in N
Paid(g, h, N) ==
  /\ Coherent(g) /\ AllDistinct(g)
  /\ ~("numReadOnInvalidMisses" \in N /\ "numWriteOnInvalidMisses" \in N)
  /\ Cardinality(Dead(g)) + (IF OnInvalidMiss(N) THEN 1 ELSE 0)
       <= Cardinality(Dead(h)) + (IF "numInvalidatesSent" \in N THEN NumCaches - 1 ELSE 0)

(* No line of the program has the tag that cold lines have.                *)
FirstLineUnused == \A l \in Lines : CalcTag(l) # 0

(* Multiplying by one more.                                                *)
LEMMA Distributes ==
  ASSUME NEW a \in Nat, NEW b \in Nat
  PROVE  a * b \in Nat /\ a * (b + 1) = a * b + a
OBVIOUS

(* Every access is an event that is paid for.                              *)
LEMMA AccessPaid ==
  ASSUME Coherent(hier), AllDistinct(hier), Next, FirstLineUnused
  PROVE  \E c \in Cpus, asks \in BOOLEAN : \E N :
           Event(hier', hier, c, N, asks) /\ Paid(hier', hier, N)
<1>1. \A l \in Lines : CalcTag(l) \in Tags \ {0}
  BY IndexFacts DEF FirstLineUnused
<1>2. HierType(hier) /\ FALSE \in BOOLEAN /\ NumCaches \in Nat
  BY CpusFinite DEF Coherent, Good
<1>3. \A h : Cardinality(Dead(h)) \in Nat
  BY DeadFinite
<1>4. ASSUME NEW c \in Cpus, NEW l \in Lines, ReadHit(c, l)
      PROVE  Event(hier', hier, c, {"numReadHits"}, FALSE) /\ Paid(hier', hier, {"numReadHits"})
  <2> DEFINE t == CalcTag(l)
  <2>1. hier' = ReadHitOf(hier, c, t) /\ t \in Tags
    BY <1>1, <1>4 DEF ReadHit
  <2>2. Event(hier', hier, c, {"numReadHits"}, FALSE)
    BY <1>2, <2>1, HitCounts
  <2>3. Coherent(hier') /\ CalmHier(hier', hier)
    BY <1>2, <2>1, ReadHitCoherent, HitCalm
  <2>4. Cardinality(Dead(hier')) <= Cardinality(Dead(hier))
    BY <2>1, <2>3, DeadMoves
  <2>5. /\ "numReadOnInvalidMisses" \notin {"numReadHits"}
        /\ "numWriteOnInvalidMisses" \notin {"numReadHits"}
        /\ "numInvalidatesSent" \notin {"numReadHits"}
    OBVIOUS
  <2>6. Paid(hier', hier, {"numReadHits"})
    BY <1>3, <2>3, <2>4, <2>5 DEF Paid, OnInvalidMiss, CalmHier
  <2> QED BY <2>2, <2>6
<1>5. ASSUME NEW c \in Cpus, NEW l \in Lines, NEW w \in Words, ReadMiss(c, l, w)
      PROVE  \E asks \in BOOLEAN : \E N :
               Event(hier', hier, c, N, asks) /\ Paid(hier', hier, N)
  <2> DEFINE t == CalcTag(l)
             found == Found(RowOf(hier, c, t), t)
             first == {"numReadMisses", "numReadRequestsSent"}
                        \cup OnInvalid(RowOf(hier, c, t), t, "numReadOnInvalidMisses")
             served == Services(ReadMissed(hier, c, t), c, t)
             asks == ValidCopies(ReadMissed(hier, c, t), c, t) = {}
             Sharing == {"numFalseSharing", "numCorrectSpeculations",
                         "numTrueSharing", "numIncorrectSpeculations"}
  <2>1. hier' = ReadMissOf(hier, c, t, w) /\ t \in Tags \ {0} /\ ~HitsIn(hier, c, t)
    BY <1>1, <1>5 DEF ReadMiss
  <2>2. PICK sharing \in SUBSET Sharing :
          Event(ReadMissOf(hier, c, t, w), hier, c, first \cup served \cup sharing, asks)
    BY <1>2, <2>1, ReadMissCounts
  <2> DEFINE N == first \cup served \cup sharing
  <2>3. /\ "numReadOnInvalidMisses" \in N <=> found
        /\ "numWriteOnInvalidMisses" \notin N /\ "numInvalidatesSent" \notin N
    <3>1. /\ "numReadOnInvalidMisses" \in first <=> found
          /\ "numWriteOnInvalidMisses" \notin first /\ "numInvalidatesSent" \notin first
      BY DEF OnInvalid
    <3>2. /\ "numReadOnInvalidMisses" \notin served
          /\ "numWriteOnInvalidMisses" \notin served /\ "numInvalidatesSent" \notin served
      BY DEF Services
    <3>3. /\ "numReadOnInvalidMisses" \notin sharing
          /\ "numWriteOnInvalidMisses" \notin sharing /\ "numInvalidatesSent" \notin sharing
      OBVIOUS
    <3> HIDE DEF first, served, found
    <3> QED BY <3>1, <3>2, <3>3
  <2>4. asks \in BOOLEAN
    OBVIOUS
  <2>5. found => LeftIn(hier, c, t)
    BY <1>2, <2>1, MissFindsDead
  <2> HIDE DEF first, served, asks, N, found
  <2>6. /\ Coherent(hier') /\ CalmHier(hier', hier) /\ ~LeftIn(hier', c, t)
    BY <2>1, ReadMissCoherent, ReadMissCalm
  <2>7. /\ Cardinality(Dead(hier')) <= Cardinality(Dead(hier))
        /\ found => Cardinality(Dead(hier')) + 1 <= Cardinality(Dead(hier))
    BY <2>1, <2>5, <2>6, DeadMoves
  <2>8. Paid(hier', hier, N)
    BY <1>3, <2>3, <2>6, <2>7 DEF Paid, OnInvalidMiss, CalmHier
  <2>9. Event(hier', hier, c, N, asks)
    BY <2>1, <2>2 DEF N
  <2> QED BY <2>4, <2>8, <2>9
<1>6. ASSUME NEW c \in Cpus, NEW l \in Lines, NEW w \in Words, NEW v \in Values,
             WriteMiss(c, l, w, v)
      PROVE  \E asks \in BOOLEAN : \E N :
               Event(hier', hier, c, N, asks) /\ Paid(hier', hier, N)
  <2> DEFINE t == CalcTag(l)
             found == Found(RowOf(hier, c, t), t)
             N == {"numWriteMisses", "numInvalidatesSent"}
                    \cup OnInvalid(RowOf(hier, c, t), t, "numWriteOnInvalidMisses")
             asks == ValidCopies(WriteMissed(hier, c, t), c, t) = {}
  <2>1. hier' = WriteMissOf(hier, c, t, w, v) /\ t \in Tags \ {0} /\ ~HitsIn(hier, c, t)
    BY <1>1, <1>6 DEF WriteMiss
  <2>2. Event(hier', hier, c, N, asks)
    BY <1>2, <2>1, WriteMissCounts
  <2>3. /\ "numWriteOnInvalidMisses" \in N <=> found
        /\ "numReadOnInvalidMisses" \notin N /\ "numInvalidatesSent" \in N
    BY DEF OnInvalid
  <2>4. asks \in BOOLEAN
    OBVIOUS
  <2>5. found => LeftIn(hier, c, t)
    BY <1>2, <2>1, MissFindsDead
  <2> HIDE DEF asks, N, found
  <2>6. Coherent(hier') /\ Spread(hier', hier, c, t) /\ ~LeftIn(hier', c, t)
    BY <2>1, WriteMissCoherent, WriteMissSpreads
  <2>7. /\ Cardinality(Dead(hier')) <= Cardinality(Dead(hier)) + (NumCaches - 1)
        /\ found => Cardinality(Dead(hier')) + 1 <= Cardinality(Dead(hier)) + (NumCaches - 1)
    BY <2>1, <2>5, <2>6, DeadMoves
  <2>8. Paid(hier', hier, N)
    BY <1>2, <1>3, <2>3, <2>6, <2>7 DEF Paid, OnInvalidMiss, Spread
  <2> QED BY <2>2, <2>4, <2>8
<1>7. ASSUME NEW c \in Cpus, NEW l \in Lines, NEW w \in Words, NEW v \in Values,
             WriteUpgrade(c, l, w, v)
      PROVE  \E N : Event(hier', hier, c, N, FALSE) /\ Paid(hier', hier, N)
  <2> DEFINE t == CalcTag(l)
             first == {"numWriteMisses", "numWriteOnSharedMisses", "numInvalidatesSent"}
  <2>1. hier' = WriteUpgradeOf(hier, c, t, w, v) /\ t \in Tags /\ HitsIn(hier, c, t)
    BY <1>1, <1>7 DEF WriteUpgrade
  <2>2. PICK silent \in SUBSET {"numSilentStores"} :
          Event(WriteUpgradeOf(hier, c, t, w, v), hier, c, first \cup silent, FALSE)
    BY <1>2, <2>1, WriteUpgradeCounts
  <2>3. Coherent(hier') /\ Spread(hier', hier, c, t)
    BY <2>1, WriteUpgradeCoherent, WriteUpgradeSpreads
  <2>4. Cardinality(Dead(hier')) <= Cardinality(Dead(hier)) + (NumCaches - 1)
    BY <2>1, <2>3, DeadMoves
  <2>5. /\ "numReadOnInvalidMisses" \notin first \cup silent
        /\ "numWriteOnInvalidMisses" \notin first \cup silent
        /\ "numInvalidatesSent" \in first \cup silent
    OBVIOUS
  <2>6. Paid(hier', hier, first \cup silent)
    BY <1>2, <1>3, <2>3, <2>4, <2>5 DEF Paid, OnInvalidMiss, Spread
  <2> QED BY <2>1, <2>2, <2>6
<1>8. ASSUME NEW c \in Cpus, NEW l \in Lines, NEW w \in Words, NEW v \in Values,
             WriteHit(c, l, w, v)
      PROVE  \E N : Event(hier', hier, c, N, FALSE) /\ Paid(hier', hier, N)
  <2> DEFINE t == CalcTag(l)
  <2>1. hier' = WriteHitOf(hier, c, t, w, v) /\ t \in Tags /\ HitsIn(hier, c, t)
    BY <1>1, <1>8 DEF WriteHit
  <2>2. PICK silent \in SUBSET {"numSilentStores"} :
          Event(WriteHitOf(hier, c, t, w, v), hier, c, {"numWriteHits"} \cup silent, FALSE)
    BY <1>2, <2>1, HitCounts
  <2>3. Coherent(hier') /\ CalmHier(hier', hier)
    BY <1>2, <2>1, WriteHitCoherent, HitCalm
  <2>4. Cardinality(Dead(hier')) <= Cardinality(Dead(hier))
    BY <2>1, <2>3, DeadMoves
  <2>5. /\ "numReadOnInvalidMisses" \notin {"numWriteHits"} \cup silent
        /\ "numWriteOnInvalidMisses" \notin {"numWriteHits"} \cup silent
        /\ "numInvalidatesSent" \notin {"numWriteHits"} \cup silent
    OBVIOUS
  <2>6. Paid(hier', hier, {"numWriteHits"} \cup silent)
    BY <1>3, <2>3, <2>4, <2>5 DEF Paid, OnInvalidMiss, CalmHier
  <2> QED BY <2>1, <2>2, <2>6
<1> QED BY <1>2, <1>4, <1>5, <1>6, <1>7, <1>8 DEF Next

(* The misses on invalidated copies so far, and those that can still come, *)
(* are paid for.                                                           *)
Waiting(h) == IF Counting THEN Cardinality(Dead(h)) ELSE 0
Covered(h) ==
  /\ Coherent(h) /\ AllDistinct(h)
  /\ Tot(h, "numReadOnInvalidMisses") + Tot(h, "numWriteOnInvalidMisses") + Waiting(h)
       <= (NumCaches - 1) * Tot(h, "numInvalidatesSent")

(* Before the first access nothing waits and nothing was charged.          *)
LEMMA InitCovered == Init => Covered(hier)
<1> SUFFICES ASSUME Init PROVE Covered(hier)
  OBVIOUS
<1>1. Coherent(hier)
  BY InitCoherent
<1>2. \A c \in Cpus : c \in Caches
  BY CacheFacts
<1>3. \A c \in Cpus, s \in Sets : \A p \in DOMAIN hier.cache[c][s] : hier.cache[c][s][p].tag = 0
  <2> TAKE c \in Cpus, s \in Sets
  <2>1. hier.cache[c][s] = [p \in 1 .. Assoc(c) |-> ColdLine]
    BY <1>2 DEF Init
  <2>2. ColdLine.tag = 0
    BY DEF ColdLine
  <2> QED BY <2>1, <2>2
<1>4. AllDistinct(hier)
  BY <1>3 DEF AllDistinct, Distinct
<1>5. \A c \in Cpus, t \in Tags : ~LeftIn(hier, c, t)
  BY <1>3, IndexFacts DEF LeftIn, Left, RowOf
<1>6. Dead(hier) = {}
  BY <1>5 DEF Dead
<1>7. Waiting(hier) = 0
  BY <1>6, FS_EmptySet DEF Waiting
<1>8. \A k \in Caches, n \in Counters : hier.stats[k][n] = 0
  BY DEF Init
<1>9. \A n \in Counters : Tot(hier, n) = 0
  <2> TAKE n \in Counters
  <2>1. \A c \in Cpus : hier.stats[c][n] = 0
    BY <1>2, <1>8
  <2>2. Cpus \in SUBSET Cpus
    OBVIOUS
  <2> QED BY <2>1, <2>2, SumsType DEF Tot
<1> QED BY <1>1, <1>4, <1>7, <1>9, CounterNames, CpusFinite DEF Covered

(* A paid event keeps the account covered.                                 *)
LEMMA PaidCovered ==
  ASSUME NEW h, Covered(h), NEW g, NEW c \in Cpus, NEW N, NEW asks \in BOOLEAN,
         Event(g, h, c, N, asks), Paid(g, h, N)
  PROVE  Covered(g)
<1>1. HierType(h) /\ Coherent(g) /\ AllDistinct(g)
  BY DEF Covered, Paid, Coherent, Good
<1> DEFINE moves(n) == /\ Tot(g, n) = IF n \in N THEN Tot(h, n) + One ELSE Tot(h, n)
                       /\ Tot(g, n) \in Nat /\ Tot(h, n) \in Nat
<1>2. /\ moves("numReadOnInvalidMisses") /\ moves("numWriteOnInvalidMisses")
      /\ moves("numInvalidatesSent")
  <2>1. \A n \in Counters \ {"numReplacements"} : moves(n)
    BY <1>1, EventTotals
  <2> HIDE DEF moves
  <2>2. /\ "numReadOnInvalidMisses" \in Counters \ {"numReplacements"}
        /\ "numWriteOnInvalidMisses" \in Counters \ {"numReplacements"}
        /\ "numInvalidatesSent" \in Counters \ {"numReplacements"}
    BY CounterNames
  <2> QED BY <2>1, <2>2
<1> DEFINE r(x) == Tot(x, "numReadOnInvalidMisses")
           w(x) == Tot(x, "numWriteOnInvalidMisses")
           i(x) == Tot(x, "numInvalidatesSent")
           d(x) == Cardinality(Dead(x))
           k == NumCaches - 1
<1>3. d(g) \in Nat /\ d(h) \in Nat /\ k \in Nat
  BY DeadFinite, HierarchyAssumption
<1>4. r(h) + w(h) + Waiting(h) <= k * i(h)
  BY DEF Covered
<1>5. r(g) + w(g) + Waiting(g) <= k * i(g)
  <2>1. CASE Counting
    <3>1. One = 1 /\ Waiting(g) = d(g) /\ Waiting(h) = d(h)
      BY <2>1 DEF One, Waiting
    <3>2. d(g) + (IF OnInvalidMiss(N) THEN 1 ELSE 0)
            <= d(h) + (IF "numInvalidatesSent" \in N THEN k ELSE 0)
      BY DEF Paid
    <3>3. r(g) + w(g) = r(h) + w(h) + (IF OnInvalidMiss(N) THEN 1 ELSE 0)
      BY <1>2, <3>1 DEF OnInvalidMiss, Paid
    <3>4. k * i(g) = k * i(h) + (IF "numInvalidatesSent" \in N THEN k ELSE 0)
      <4>1. i(g) = IF "numInvalidatesSent" \in N THEN i(h) + 1 ELSE i(h)
        BY <1>2, <3>1
      <4>2. i(h) \in Nat
        BY <1>2
      <4> HIDE DEF i, k
      <4>3. k * (i(h) + 1) = k * i(h) + k
        BY <1>3, <4>2, Distributes
      <4>4. k * i(h) \in Nat
        BY <1>3, <4>2, Distributes
      <4> QED BY <4>1, <4>3, <4>4
    <3>5. k * i(h) \in Nat
      BY <1>2, <1>3, Distributes
    <3>6. r(g) \in Nat /\ w(g) \in Nat /\ r(h) \in Nat /\ w(h) \in Nat
      BY <1>2
    <3> DEFINE old == k * i(h)
               big == k * i(g)
               m == IF OnInvalidMiss(N) THEN 1 ELSE 0
               e == IF "numInvalidatesSent" \in N THEN k ELSE 0
    <3>7. m \in Nat /\ e \in Nat
      BY <1>3
    <3>8. /\ r(h) + w(h) + d(h) <= old /\ d(g) + m <= d(h) + e
          /\ r(g) + w(g) = r(h) + w(h) + m /\ big = old + e /\ old \in Nat
      BY <1>4, <3>1, <3>2, <3>3, <3>4, <3>5
    <3> HIDE DEF old, big, m, e, r, w, d
    <3>9. r(g) + w(g) + d(g) <= big
      BY <1>3, <3>6, <3>7, <3>8
    <3> QED BY <3>1, <3>9 DEF big
  <2>2. CASE ~Counting
    <3>1. One = 0 /\ Waiting(g) = 0 /\ Waiting(h) = 0
      BY <2>2 DEF One, Waiting
    <3>2. r(g) = r(h) /\ w(g) = w(h) /\ i(g) = i(h)
      BY <1>2, <3>1
    <3> QED BY <1>4, <3>1, <3>2
  <2> QED BY <2>1, <2>2
<1> QED BY <1>1, <1>5 DEF Covered

(* So does every step.                                                     *)
LEMMA NextCovered == FirstLineUnused /\ Covered(hier) /\ [Next]_hier => Covered(hier)'
<1>1. ASSUME FirstLineUnused, Covered(hier), Next PROVE Covered(hier')
  <2>1. PICK c \in Cpus, asks \in BOOLEAN : \E N :
          Event(hier', hier, c, N, asks) /\ Paid(hier', hier, N)
    BY <1>1, AccessPaid DEF Covered
  <2>2. PICK N : Event(hier', hier, c, N, asks) /\ Paid(hier', hier, N)
    BY <2>1
  <2> QED BY <1>1, <2>2, PaidCovered
<1>2. Covered(hier') => Covered(hier)'
  BY DEF Covered, Coherent, Good, Exclusive, HierType, AllDistinct, Tot, Waiting, Dead, LeftIn,
         RowOf, Sums, IsSum, SumBody
<1> QED BY <1>1, <1>2

(* If the program leaves the first line of memory alone, the one that every*)
(* cold line answers for, no miss is charged to an invalidated copy that a *)
(* write of another CPU did not leave.                                     *)
THEOREM MissesOnInvalidAreAlwaysCaused ==
  ASSUME FirstLineUnused
  PROVE  Spec => []MissesOnInvalidAreCaused
<1>1. Covered(hier) => MissesOnInvalidAreCaused
  <2> SUFFICES ASSUME Covered(hier) PROVE MissesOnInvalidAreCaused
    OBVIOUS
  <2>1. \A n : Total(n) = Tot(hier, n)
    BY TotalIs DEF Tot
  <2>2. Waiting(hier) \in Nat
    BY DeadFinite DEF Waiting
  <2>3. PICK c \in Cpus : TRUE
    BY HierarchyAssumption DEF Cpus
  <2>4. \A n \in Counters : Tot(hier, n) \in Nat
    <3>1. HierType(hier) /\ Elsewhere(hier, hier, {c, LLC, Main})
      BY DEF Covered, Coherent, Good, Elsewhere
    <3> QED BY <3>1, TotMoves
  <2>5. /\ Tot(hier, "numReadOnInvalidMisses") \in Nat /\ Tot(hier, "numWriteOnInvalidMisses") \in Nat
        /\ Tot(hier, "numInvalidatesSent") \in Nat
    BY <2>4, CounterNames
  <2> DEFINE paid == (NumCaches - 1) * Tot(hier, "numInvalidatesSent")
  <2>6. paid \in Nat
    BY <2>5, HierarchyAssumption, Distributes
  <2>7. Tot(hier, "numReadOnInvalidMisses") + Tot(hier, "numWriteOnInvalidMisses") + Waiting(hier)
          <= paid
    BY DEF Covered
  <2> HIDE DEF paid
  <2>8. Tot(hier, "numReadOnInvalidMisses") + Tot(hier, "numWriteOnInvalidMisses") <= paid
    BY <2>2, <2>5, <2>6, <2>7
  <2> QED BY <2>1, <2>8 DEF MissesOnInvalidAreCaused, paid
<1>2. Spec => []Covered(hier)
  BY InitCovered, NextCovered, PTL DEF Spec
<1> QED BY <1>1, <1>2, PTL
=============================================================================
