------------------------------ MODULE CacheCore ------------------------------
(***************************************************************************)
(* The tag store every simulated cache is built on (CacheCore.h,           *)
(* CacheCore.cpp), with the line record of MSI_SMPCacheState.h.            *)
(*                                                                         *)
(* One set of a cache is a row: its lines listed from the most to the      *)
(* least recently used, the order in which CacheAssoc keeps its array of   *)
(* line pointers.  CacheDM, used when the associativity is one, behaves as *)
(* a row of a single line.                                                 *)
(***************************************************************************)
EXTENDS Integers, FiniteSetsExt

CONSTANTS
  TagSpace,  \* number of different tags: 2^32 bytes of address / line size
  NumSets,   \* sets of every cache of the hierarchy
  Words,     \* offsets inside a line
  Values,    \* what the program stores in a word
  NaN        \* INT_NAN, the content of a word that was never filled

(* Masking with sets - 1 picks a set only if the number of sets is a       *)
(* power of two.                                                           *)
ASSUME GeometryAssumption ==
  /\ TagSpace \in Nat \ {0}
  /\ NumSets \in Nat \ {0}
  /\ \E n \in 0 .. 31 : NumSets = 2 ^ n

ASSUME NaNAssumption == NaN \notin Values

Tags == 0 .. TagSpace - 1
Sets == 0 .. NumSets - 1
States == {"M", "S", "I"}
LineData == [Words -> Values \cup {NaN}]

(* Two flags say whether a line is live: the protocol state, and the       *)
(* islineInvalid field of the base class.  Each lookup reads its own one.  *)
Line == [tag : Tags, state : States, islineInvalid : BOOLEAN, data : LineData]

NaNLine == [w \in Words |-> NaN]

(* A line as the constructors leave it: tag 0, so that a lookup of the     *)
(* first line of memory matches it.                                        *)
ColdLine == [tag |-> 0, state |-> "I", islineInvalid |-> TRUE, data |-> NaNLine]

Row(n) == [1 .. n -> Line]

(* An address is cut to the 32 bits of Addr_t before its tag is taken.     *)
CalcTag(l) == l % TagSpace
SetOf(t) == t % NumSets

IsValid(line) == line.state # "I"

-----------------------------------------------------------------------------
(* Lookup.                                                                 *)

(* Variant of Matches: the search stops one way too early.                 *)
MatchesButLast(row, t) == {p \in DOMAIN row \ {Max(DOMAIN row)} : row[p].tag = t}

Matches(row, t) == {p \in DOMAIN row : row[p].tag = t}
Live(row, t) == {p \in Matches(row, t) : ~row[p].islineInvalid}

(* The first live line with the tag, or else the first line with the tag.  *)
FindPos(row, t) ==
  LET live == Live(row, t) IN Min(IF live # {} THEN live ELSE Matches(row, t))

MoveToFront(row, p) ==
  [q \in DOMAIN row |-> IF q = 1 THEN row[p] ELSE IF q <= p THEN row[q - 1] ELSE row[q]]

(* A lookup that matches leaves the line it returns in front, whoever      *)
(* asked and whether or not the line is valid.                             *)
FindLine(row, t) ==
  IF Matches(row, t) = {} THEN row ELSE MoveToFront(row, FindPos(row, t))

(* The tests every caller makes of the line it got: NULL or not, valid or  *)
(* not.                                                                    *)
Found(row, t) == Matches(row, t) # {}
Hits(row, t) == Found(row, t) /\ IsValid(row[FindPos(row, t)])

-----------------------------------------------------------------------------
(* Replacement.                                                            *)

Free(row) == {p \in DOMAIN row : ~IsValid(row[p]) /\ row[p].islineInvalid}

(* Variant of ReplacePos: the oldest line, even if another one is free.    *)
OldestPos(row, t) == Max(DOMAIN row)

(* The live line of the tag if there is one, else the youngest free line,  *)
(* else the oldest line.                                                   *)
ReplacePos(row, t) ==
  CASE 1 \in Live(row, t) -> 1
    [] 1 \notin Live(row, t) /\ Live(row, t) # {} -> Max(Live(row, t))
    [] Live(row, t) = {} /\ Free(row) # {} -> Min(Free(row))
    [] Live(row, t) = {} /\ Free(row) = {} -> Max(DOMAIN row)

Victim(row, t) == row[ReplacePos(row, t)]

(* Variant of SlotPos: the place that the chosen line had before it moved. *)
SlotBeforeMove(row, t) == ReplacePos(row, t)

(* The row after findLine2Replace, and where the line it returned now is.  *)
FindLine2Replace(row, t) ==
  IF Live(row, t) # {} THEN row ELSE MoveToFront(row, ReplacePos(row, t))
SlotPos(row, t) == IF Live(row, t) # {} THEN ReplacePos(row, t) ELSE 1

(* setTag, setData and changeStateTo applied to the line that              *)
(* findLine2Replace chose.                                                 *)
Install(row, t, s, data) ==
  [FindLine2Replace(row, t) EXCEPT
     ![SlotPos(row, t)] =
       [tag |-> t, state |-> s, islineInvalid |-> FALSE, data |-> data]]

-----------------------------------------------------------------------------
(* Updates of the line in front, the one the last lookup returned.         *)

SetState(row, s) == [row EXCEPT ![1].state = s]
SetData(row, data) == [row EXCEPT ![1] = [@ EXCEPT !.data = data, !.islineInvalid = FALSE]]

(* Variant of Invalidate: the protocol state is left as it was.            *)
InvalidateFlagOnly(row) == [row EXCEPT ![1].islineInvalid = TRUE]

(* invalidate sets both flags and keeps the tag and the data.              *)
Invalidate(row) == [row EXCEPT ![1] = [@ EXCEPT !.state = "I", !.islineInvalid = TRUE]]
=============================================================================
