---------------------------- MODULE MCMetabase ----------------------------
(***************************************************************************)
(* A Cockroach adapter and a Spanner adapter.  Project 1 lives behind the *)
(* Spanner adapter (db.adapters[2]) and project 2 behind Cockroach        *)
(* (db.adapters[1]), so concatenating adapter results in adapter order    *)
(* is not sorted.  Two streams share bucket <<1, 1>> so that a            *)
(* partitioned query can split one bucket's rows across partitions, and   *)
(* s2 expires at timestamp 2.                                             *)
(***************************************************************************)
EXTENDS Metabase

CONSTANTS s1, s2, s3

MCStreams == {s1, s2, s3}

MCObj ==
    (s1 :> [loc |-> <<1, 1>>, bytes |-> 4, segments |-> 1, meta |-> 1, expires |-> NoExpiry])
 @@ (s2 :> [loc |-> <<1, 1>>, bytes |-> 2, segments |-> 2, meta |-> 0, expires |-> 2])
 @@ (s3 :> [loc |-> <<2, 1>>, bytes |-> 1, segments |-> 1, meta |-> 2, expires |-> NoExpiry])

\* The whole keyspace, one bucket (From = To), a range across projects,
\* and two inverted ranges: by project and by bucket name.
MCRanges ==
    { <<<<1, 1>>, <<2, 2>>>>, <<<<1, 1>>, <<1, 1>>>>, <<<<1, 2>>, <<2, 1>>>>,
      <<<<2, 1>>, <<1, 2>>>>, <<<<1, 2>>, <<1, 1>>>> }

MCAOSIs == {0, -1}

MCImpl == <<"cockroach", "spanner">>

\* Two Spanner adapters, for the snapshot question.
MCImplSpanner == <<"spanner", "spanner">>

MCOwner == [p \in {1, 2} |-> IF p = 1 THEN 2 ELSE 1]

=============================================================================
