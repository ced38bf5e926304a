--------------------------- MODULE MCRawSegments ---------------------------
(***************************************************************************)
(* A Postgres adapter (ChooseAdapter(uuid.UUID{}), which also holds the   *)
(* node_aliases table) and a Spanner adapter.  Segment g1 is on node n1   *)
(* and g2 on node n2, so that after a delete-all, whose sequence restart  *)
(* hands alias 1 out again, a second insert reuses an alias for another  *)
(* node.  Batches of one row make a two-segment insert take two batches. *)
(***************************************************************************)
EXTENDS RawSegments

CONSTANTS g1, g2, n1, n2

MCSegIds == {g1, g2}
MCNodes == {n1, n2}
MCSegProject == (g1 :> 1) @@ (g2 :> 2)
MCSegNodes == (g1 :> {n1}) @@ (g2 :> {n2})
MCSegInputs == { <<g1>>, <<g2>>, <<g1, g2>> }
MCImpl == <<"postgres", "spanner">>
MCOwner == [p \in {1, 2} |-> IF p = 1 THEN 2 ELSE 1]

\* Insert, delete, insert again, and read.
MCCallBound == [h \in Helpers |-> IF h = "insert" THEN 2 ELSE 1]

=============================================================================
