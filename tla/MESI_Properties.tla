--------------------------- MODULE MESI_Properties ---------------------------
(***************************************************************************)
(* What makes the MESI protocol a reference for another one.               *)
(***************************************************************************)
EXTENDS MESI_SMPCache

NOBODY == -1

(* Type invariant: rows of the right length, whose lines never hold data.  *)
MESITypeOK == caches \in [Cpus -> [Sets -> MESIRow]]

(* A line that is modified or exclusive in one cache is valid in no other, *)
(* wherever in a row it is and whatever a lookup would find.  Downgrades,  *)
(* invalidations and upgrades must reach every copy they concern.          *)
ExclusiveAlone ==
  \A c, d \in Cpus, s \in Sets : \A p, q \in 1 .. PrivateAssoc :
    LET mine == caches[c][s][p]
        other == caches[d][s][q]
    IN  (c # d /\ mine.state \in {"M", "E"} /\ mine.tag = other.tag) => ~IsValid(other)

(* A lookup finds the valid copy of a line if the row has one, and there   *)
(* is only one.  With islineInvalid always set a lookup returns the first  *)
(* match, so a dead copy in front, of an earlier use or never used, would  *)
(* hide the valid one from its cache and from the snoops.                  *)
ValidCopyFound ==
  \A c \in Cpus, s \in Sets : \A p \in 1 .. PrivateAssoc :
    LET row == caches[c][s]
    IN  IsValid(row[p]) => Hits(row, row[p].tag) /\ FindPos(row, row[p].tag) = p

(* The protocol implements the permissions: a CPU holds a line it has a    *)
(* valid copy of and owns it if that is modified or exclusive.             *)
Copies(l) ==
  {c \in Cpus : \E p \in 1 .. PrivateAssoc :
     LET line == caches[c][SetOf(CalcTag(l))][p] IN line.tag = CalcTag(l) /\ IsValid(line)}
Owners(l) ==
  {c \in Cpus : \E p \in 1 .. PrivateAssoc :
     LET line == caches[c][SetOf(CalcTag(l))][p]
     IN  line.tag = CalcTag(l) /\ line.state \in {"M", "E"}}
Permission(l) ==
  [holders |-> Copies(l), owner |-> IF Owners(l) = {} THEN NOBODY ELSE Min(Owners(l))]
Permissions == INSTANCE CoherencePermissions WITH perms <- [l \in Lines |-> Permission(l)]
ImplementsPermissions == Permissions!Spec
=============================================================================
