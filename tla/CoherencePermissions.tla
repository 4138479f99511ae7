------------------------ MODULE CoherencePermissions ------------------------
(***************************************************************************)
(* What an invalidation protocol promises: who may read a line and who may *)
(* write it.  Any number of CPUs hold a line; at most one of them owns it, *)
(* and then nobody else holds it.                                          *)
(***************************************************************************)
CONSTANTS Cpus, Lines, NOBODY

VARIABLE perms  \* of each line, its .holders and its .owner

Free == [holders |-> {}, owner |-> NOBODY]

GivenUp(p, c) ==
  [holders |-> p.holders \ {c}, owner |-> IF p.owner = c THEN NOBODY ELSE p.owner]

(* A holder reads freely.  A newcomer owns the line if nobody held it, and *)
(* else shares it.                                                         *)
AfterRead(p, c) ==
  IF c \in p.holders THEN p
  ELSE [holders |-> p.holders \cup {c}, owner |-> IF p.holders = {} THEN c ELSE NOBODY]

AfterWrite(c) == [holders |-> {c}, owner |-> c]

(* Only c gives a line up in its own access, and no more than the one      *)
(* whose place it takes.                                                   *)
AfterEviction(ps, c, l) ==
  {ps} \cup {[ps EXCEPT ![x] = GivenUp(@, c)] : x \in Lines \ {l}}

AfterAccess(ps, c, l) ==
  {[kept EXCEPT ![l] = new] : kept \in AfterEviction(ps, c, l),
                              new \in {AfterRead(ps[l], c), AfterWrite(c)}}

Init == perms = [l \in Lines |-> Free]
Next == perms' \in UNION {AfterAccess(perms, c, l) : c \in Cpus, l \in Lines}
Spec == Init /\ [][Next]_perms
=============================================================================
