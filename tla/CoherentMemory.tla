--------------------------- MODULE CoherentMemory ---------------------------
(***************************************************************************)
(* What a coherent hierarchy promises to the program it simulates: one     *)
(* memory, which a read finds and leaves as it is, and of which a write    *)
(* changes the word it is for.                                             *)
(*                                                                         *)
(* The simulated main memory is itself a cache of bounded size with        *)
(* nothing below it.  An access may therefore lose lines other than its    *)
(* own, but only those that the implementation can name as having no place *)
(* left: the parameter lost.                                               *)
(***************************************************************************)
CONSTANTS Lines, Words, Values, NaN

VARIABLE mem

Forgotten == [w \in Words |-> NaN]

Init == mem = [l \in Lines |-> Forgotten]

(* From memory m to memory n: the lines an access is not about are as they *)
(* were, or forgotten.                                                     *)
OthersKept(m, n, l, lost) ==
  \A x \in Lines \ {l} : n[x] = m[x] \/ (x \in lost /\ n[x] = Forgotten)

(* A read of word w of line l that returns x.                              *)
ReadStep(m, n, l, w, x, lost) ==
  /\ x = m[l][w]
  /\ n[l] = m[l]
  /\ OthersKept(m, n, l, lost)

(* A write of v into word w of line l.                                     *)
WriteStep(m, n, l, w, v, lost) ==
  /\ n[l] = [m[l] EXCEPT ![w] = v]
  /\ OthersKept(m, n, l, lost)

Read(l, w, x, lost) == ReadStep(mem, mem', l, w, x, lost)
Write(l, w, v, lost) == WriteStep(mem, mem', l, w, v, lost)
=============================================================================
