--------------------------- MODULE MCMetabaseRaw ---------------------------
(***************************************************************************)
(* Batch inserts, delete-all, the upload path and CollectBucketTallies    *)
(* together over two adapters.  MaxRowsPerCopy is 1 so that a batch of   *)
(* two rows of one adapter type takes two chunks.                         *)
(***************************************************************************)
EXTENDS MetabaseRaw

CONSTANTS s1, s2, s3

MCStreams == {s1, s2, s3}

MCObj ==
    (s1 :> [loc |-> <<1, 1>>, bytes |-> 4, segments |-> 1, meta |-> 1, expires |-> NoExpiry])
 @@ (s2 :> [loc |-> <<1, 1>>, bytes |-> 2, segments |-> 2, meta |-> 0, expires |-> NoExpiry])
 @@ (s3 :> [loc |-> <<2, 1>>, bytes |-> 1, segments |-> 1, meta |-> 2, expires |-> NoExpiry])

\* The whole keyspace only: the range logic is checked by MCMetabase.
MCRanges == { <<<<1, 1>>, <<2, 2>>>> }

\* Strong reads by the direct queries only: read timestamps are the
\* question of MCMetabase.
MCAOSIs == {0}

Row(s) == [s |-> s, pending |-> FALSE]

\* Rows of both projects, and two rows of project 1.
MCBatchInputs == { <<Row(s1), Row(s3)>>, <<Row(s1), Row(s2)>> }

\* Adapters of two Go types: Cockroach and Spanner.
MCImpl == <<"cockroach", "spanner">>

\* Adapters of one Go type: Cockroach and Postgres.
MCImplSameType == <<"cockroach", "postgres">>

MCOwner == [p \in {1, 2} |-> IF p = 1 THEN 2 ELSE 1]

=============================================================================
