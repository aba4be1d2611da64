------------------------------ MODULE MCMeshSync ------------------------------
(* Small instances of MeshSync for TLC. *)
EXTENDS MeshSync, Sequences

CONSTANTS a, b, c, x, y

\* The order of the IDs in the index: recovered copies of a's variants come
\* before everything else, those of the others behind it, so that a cursor may
\* or may not have passed them when they appear.
Rank(e) == CASE e.kind = "recovered" /\ e.by = a -> 0
             [] e.kind = "event"      -> 1
             [] e.kind = "resolution" -> 2
             [] OTHER                 -> 3

Who(e) == CASE e.kind = "event" -> 0 [] e.by = a -> 0 [] e.by = b -> 1 [] OTHER -> 2

MCPosition(e) == 1 + 6 * Rank(e) + 2 * Who(e) + (IF e.of = x THEN 0 ELSE 1)

\* Both nodes ingest x, one also y; either may dial the other.
BothIngest == {<<a, x>>, <<b, x>>, <<a, y>>}
BothIngestX == {<<a, x>>, <<b, x>>}
BothDial   == {<<a, b>>, <<b, a>>}

\* a and b are in conflict about x; c ingests x whenever it likes.
ThreeIngest == {<<a, x>>, <<b, x>>, <<c, x>>}
ADialsAll   == {<<a, b>>, <<a, c>>}

ADialsB == {<<a, b>>}
=============================================================================
