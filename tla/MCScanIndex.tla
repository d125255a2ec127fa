---------------------------- MODULE MCScanIndex -----------------------------
EXTENDS ScanIndex, TLC

CONSTANTS f, g, h, a

Symmetric == Permutations(Scanners)

(* The rows of a current database are arbitrary; those of the others are   *)
(* never read.                                                             *)
MCInitialDbs ==
  LET row(v, r) == [tables |-> TRUE, version |-> v, rows |-> r, authored |-> TRUE]
      outdated == [content |-> a, identity |-> "outdated"]
  IN {NoDb}
       \cup {row("current", r) : r \in {x \in Rows : x[h] = Absent}}
       \cup {row(v, [NoRows EXCEPT ![f] = outdated]) : v \in {"none", "old", "newer"}}

MCRequests == {{f}, {g, h}}
=============================================================================
