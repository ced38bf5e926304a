------------------------------ MODULE Metabase ------------------------------
(***************************************************************************)
(* The metabase DB facade and its backend adapters, as in                 *)
(* satellite/metabase/accounting.go and satellite/metabase/raw.go.        *)
(*                                                                         *)
(* Each adapter is one database.  Its objects table is kept as a history  *)
(* db[a][t]: the rows committed at or before timestamp t, so that reads   *)
(* AS OF SYSTEM TIME, with bounded staleness, or in a batch read-only     *)
(* transaction see the table as it was at the timestamp they read at.     *)
(* Every write commits at a fresh timestamp (now advances), which is what *)
(* makes a timestamp read a stable snapshot.                              *)
(*                                                                         *)
(* An object row is abstracted to its stream id and its pending status;   *)
(* the other columns of a stream are fixed by the constant Obj.           *)
(***************************************************************************)
EXTENDS Integers, Sequences, FiniteSets, SequencesExt, FiniteSetsExt, TLC

CONSTANTS
    Projects,       \* project ids, ordered as integers
    Buckets,        \* bucket names, ordered as integers
    Streams,        \* stream ids of the object versions that may exist
    Obj,            \* [Streams -> [loc, bytes, segments, meta, expires]]
    Adapters,       \* 1..N: db.adapters, in this order
    Impl,           \* [Adapters -> {"postgres", "cockroach", "spanner"}]
    Owner,          \* [Projects -> Adapters]: ChooseAdapter
    MaxTime,        \* last timestamp of the model
    AOSIs,          \* AsOfSystemInterval values a caller passes (<= 0)
    MaxPartitions,  \* most partitions a partitioned query is split into
    Ranges,         \* the <<From, To>> pairs callers pass
    PassAOST,       \* whether callers pass AsOfSystemTime at all
    PartitionFlags, \* the UsePartitionQuery values callers pass
    NoExpiry,       \* expires_at IS NULL
    InvalidRequest, \* the ErrInvalidRequest error
    BackendError,   \* an error a backend call returned
    Nil

ASSUME Adapters = 1..Cardinality(Adapters) /\ Adapters # {}
ASSUME \A a \in Adapters : Impl[a] \in {"postgres", "cockroach", "spanner"}
ASSUME \A d \in AOSIs : d <= 0
ASSUME PassAOST \in BOOLEAN /\ PartitionFlags \subseteq BOOLEAN
ASSUME Ranges \subseteq (Projects \X Buckets) \X (Projects \X Buckets)

VARIABLES
    now,      \* the clock: the latest commit timestamp
    db,       \* db[a][t]: the objects rows of adapter a as of timestamp t
    fpc,      \* the CollectBucketTallies call: "idle", "collecting", "done"
    req,      \* its options, with Now defaulted
    idx,      \* the adapter the loop is at
    acc,      \* result: the tallies appended so far
    part,     \* the partitioned query of a Spanner adapter in progress
    result,   \* what the call returned: a sequence of tallies or an error
    readAt,   \* readAt[a]: the timestamp adapter a read at (ghost)
    calls     \* adapter calls made by the current request (ghost)

vars == <<now, db, fpc, req, idx, acc, part, result, readAt, calls>>

Times == 0..MaxTime
Locations == Projects \X Buckets
NoRead == -1

Loc(r) == Obj[r.s].loc

(***************************************************************************)
(* BucketLocation.Compare: project id first, then bucket name.            *)
(***************************************************************************)
LocLess(l1, l2) ==
    \/ l1[1] < l2[1]
    \/ l1[1] = l2[1] /\ l1[2] < l2[2]

(***************************************************************************)
(* CollectBucketTallies.Verify.                                           *)
(***************************************************************************)
Verify(from, to) ==
    /\ ~(to[1] < from[1])
    /\ ~(to[1] = from[1] /\ to[2] < from[2])

(***************************************************************************)
(* The WHERE clause shared by all three queries: (project_id,             *)
(* bucket_name) BETWEEN From AND To, and not expired as of opts.Now.      *)
(***************************************************************************)
InQueryRange(l, o) == ~LocLess(l, o.from) /\ ~LocLess(o.to, l)

NotExpired(r, o) == Obj[r.s].expires = NoExpiry \/ Obj[r.s].expires > o.now

Selected(rows, o) == {r \in rows : InQueryRange(Loc(r), o) /\ NotExpired(r, o)}

(***************************************************************************)
(* The grouped aggregation of the Postgres and Spanner direct queries:    *)
(* SUM(total_encrypted_size), SUM(segment_count), the metadata length,    *)
(* the row count and the count of pending rows, GROUP BY the location.    *)
(***************************************************************************)
GroupTally(rows, l) ==
    LET g == {r \in rows : Loc(r) = l}
    IN  [loc      |-> l,
         bytes    |-> MapThenSumSet(LAMBDA r : Obj[r.s].bytes, g),
         segments |-> MapThenSumSet(LAMBDA r : Obj[r.s].segments, g),
         meta     |-> MapThenSumSet(LAMBDA r : Obj[r.s].meta, g),
         objects  |-> Cardinality(g),
         pending  |-> Cardinality({r \in g : r.pending})]

TallyLess(x, y) == LocLess(x.loc, y.loc)

\* ... ORDER BY project_id, bucket_name: the rows come back sorted.
GroupedQuery(rows) ==
    SortSeq(SetToSeq({GroupTally(rows, l) : l \in {Loc(r) : r \in rows}}), TallyLess)

(***************************************************************************)
(* The timestamp each adapter reads at.                                   *)
(* PostgresAdapter: LimitedAsOfSystemTime(p.impl, time.Now(), ...).  On   *)
(* Postgres it is no clause at all; on Cockroach it reads AS OF the       *)
(* requested time, or at the interval when that time is older than it.    *)
(***************************************************************************)
PostgresReadTimes(a, o) ==
    IF Impl[a] = "postgres" THEN {now}
    ELSE IF o.aost = 0 THEN {IF o.aosi < 0 THEN Max({0, now + o.aosi}) ELSE now}
    ELSE IF o.aosi < 0 /\ now - o.aost > -o.aosi THEN {Max({0, now + o.aosi})}
    ELSE {o.aost}

\* SpannerAdapter direct query: MaxStalenessFromAOSI(opts.AsOfSystemInterval).
SpannerDirectReadTimes(o) ==
    {t \in Times : now + o.aosi <= t /\ t <= now}

\* Partitioned query: StrongRead, or ReadTimestamp(opts.AsOfSystemTime).
PartitionedReadTime(o) == IF o.aost = 0 THEN now ELSE o.aost

(***************************************************************************)
(* One row of a partition folded into the bucketTallies map.              *)
(***************************************************************************)
AccumulateRow(r, tallies) ==
    LET l    == Loc(r)
        base == IF l \in DOMAIN tallies THEN tallies[l]
                ELSE [loc |-> l, bytes |-> 0, segments |-> 0, meta |-> 0,
                      objects |-> 0, pending |-> 0]
        t    == [base EXCEPT !.bytes    = @ + Obj[r.s].bytes,
                             !.segments = @ + Obj[r.s].segments,
                             !.meta     = @ + Obj[r.s].meta,
                             !.objects  = @ + 1,
                             !.pending  = @ + (IF r.pending THEN 1 ELSE 0)]
    IN  [k \in DOMAIN tallies \cup {l} |-> IF k = l THEN t ELSE tallies[k]]

(***************************************************************************)
(* The ways PartitionQuery may split the selected rows: a sequence of     *)
(* disjoint sets of streams covering them.                                *)
(***************************************************************************)
Partitionings(ss) ==
    UNION {{p \in [1..k -> SUBSET ss] :
                /\ UNION {p[i] : i \in 1..k} = ss
                /\ \A i, j \in 1..k : i # j => p[i] \cap p[j] = {}}
           : k \in 1..MaxPartitions}

-----------------------------------------------------------------------------
(***************************************************************************)
(* The upload path (outside this code) writing objects rows through the   *)
(* adapter that owns the project.  Each write commits at a new timestamp. *)
(***************************************************************************)
Present(s) == \E a \in Adapters : \E r \in db[a][now] : r.s = s

Commit(a, rows) ==
    /\ now < MaxTime
    /\ now' = now + 1
    /\ db' = [db EXCEPT ![a] = [t \in Times |-> IF t > now THEN rows ELSE db[a][t]]]

BeginObject(s) ==
    /\ ~Present(s)
    /\ Commit(Owner[Obj[s].loc[1]],
              db[Owner[Obj[s].loc[1]]][now] \cup {[s |-> s, pending |-> TRUE]})

CommitObject(s) ==
    \E a \in Adapters : \E r \in db[a][now] :
        /\ r.s = s /\ r.pending
        /\ Commit(a, (db[a][now] \ {r}) \cup {[s |-> s, pending |-> FALSE]})

DeleteObject(s) ==
    \E a \in Adapters : \E r \in db[a][now] :
        /\ r.s = s
        /\ Commit(a, db[a][now] \ {r})

\* Time passes without a write.
Tick ==
    /\ now < MaxTime
    /\ now' = now + 1
    /\ db' = db

Write ==
    /\ \/ \E s \in Streams : BeginObject(s) \/ CommitObject(s) \/ DeleteObject(s)
       \/ Tick
    /\ UNCHANGED <<fpc, req, idx, acc, part, result, readAt, calls>>

-----------------------------------------------------------------------------
(***************************************************************************)
(* DB.CollectBucketTallies: Verify, default Now, call every adapter in    *)
(* order and fail on the first error, then sort the concatenation.        *)
(***************************************************************************)
StartCollect ==
    /\ fpc \in {"idle", "done"}
    /\ \E rg \in Ranges, aost \in {0} \cup IF PassAOST THEN 1..now ELSE {},
          aosi \in AOSIs, usePartition \in PartitionFlags :
        /\ req' = [from |-> rg[1], to |-> rg[2], aost |-> aost, aosi |-> aosi,
                   now |-> now, usePartition |-> usePartition]
        /\ IF Verify(rg[1], rg[2])
           THEN /\ fpc' = "collecting"
                /\ result' = Nil
           ELSE /\ fpc' = "done"
                /\ result' = InvalidRequest
    /\ idx' = 1
    /\ acc' = <<>>
    /\ readAt' = [a \in Adapters |-> NoRead]
    /\ calls' = 0
    /\ UNCHANGED <<now, db, part>>

\* An adapter returned an error: return nil, err.
AdapterFailed ==
    /\ fpc' = "done"
    /\ result' = BackendError
    /\ part' = Nil
    /\ UNCHANGED <<idx, acc>>

\* Mutant: the loop bound off by one.
LastAdapterOffByOne(i) == i = Cardinality(Adapters) + 1

\* for _, adapter := range db.adapters: i is the last one.
LastAdapter(i) == i = Cardinality(Adapters)

\* slices.SortFunc(result, BucketLocation.Compare)
SortTallies(tallies) == SortSeq(tallies, TallyLess)

\* An adapter returned tallies: append them; after the last adapter, sort.
AdapterReturned(tallies) ==
    /\ part' = Nil
    /\ IF LastAdapter(idx)
       THEN /\ fpc' = "done"
            /\ result' = SortTallies(acc \o tallies)
            /\ UNCHANGED <<idx, acc>>
       ELSE /\ idx' = idx + 1
            /\ acc' = acc \o tallies
            /\ UNCHANGED <<fpc, result>>

UsesPartitionQuery(a) == Impl[a] = "spanner" /\ req.usePartition

(***************************************************************************)
(* PostgresAdapter.CollectBucketTallies and the direct query of           *)
(* SpannerAdapter.CollectBucketTallies: one grouped query at a timestamp. *)
(***************************************************************************)
DirectQuery ==
    /\ fpc = "collecting"
    /\ ~UsesPartitionQuery(idx)
    /\ calls' = calls + 1
    /\ \/ /\ AdapterFailed
          /\ UNCHANGED readAt
       \/ \E t \in IF Impl[idx] = "spanner" THEN SpannerDirectReadTimes(req)
                   ELSE PostgresReadTimes(idx, req) :
            /\ readAt' = [readAt EXCEPT ![idx] = t]
            /\ AdapterReturned(GroupedQuery(Selected(db[idx][t], req)))
    /\ UNCHANGED <<now, db, req>>

(***************************************************************************)
(* collectBucketTalliesWithPartitionedQuery, first half: open the batch   *)
(* read-only transaction and partition the query.  Either may fail.       *)
(***************************************************************************)
BeginPartitionedQuery ==
    /\ fpc = "collecting"
    /\ UsesPartitionQuery(idx)
    /\ part = Nil
    /\ calls' = calls + 1
    /\ \/ /\ AdapterFailed
          /\ UNCHANGED readAt
       \/ LET ts == PartitionedReadTime(req)
              ss == {r.s : r \in Selected(db[idx][ts], req)}
          IN  \E p \in Partitionings(ss) :
                /\ readAt' = [readAt EXCEPT ![idx] = ts]
                /\ part' = [ts |-> ts, parts |-> p, next |-> 1,
                            tallies |-> [l \in {} |-> 0]]
                /\ UNCHANGED <<fpc, result, idx, acc>>
    /\ UNCHANGED <<now, db, req>>

\* The rows of one partition, read in the transaction's snapshot.
PartitionRows(p) ==
    {r \in Selected(db[idx][p.ts], req) : r.s \in p.parts[p.next]}

\* Mutant: the bucketTallies map made per partition, so a bucket whose
\* rows span partitions keeps only the last partition's share.
FreshTallies(p) == [l \in {} |-> 0]

\* bucketTallies := map[BucketLocation]BucketTally{}, made once before
\* the loop over partitions and carried from one partition to the next.
CarriedTallies(p) == p.tallies

(***************************************************************************)
(* Second half: execute one partition and fold its rows into the map;     *)
(* after the last one, return maps.Values, in no particular order.        *)
(***************************************************************************)
ExecutePartition ==
    /\ fpc = "collecting"
    /\ part # Nil
    /\ \/ AdapterFailed
       \/ LET tallies == FoldSet(AccumulateRow, CarriedTallies(part), PartitionRows(part))
          IN  IF part.next = Len(part.parts)
              THEN \E values \in SetToSeqs({tallies[l] : l \in DOMAIN tallies}) :
                     AdapterReturned(values)
              ELSE /\ part' = [part EXCEPT !.next = @ + 1, !.tallies = tallies]
                   /\ UNCHANGED <<fpc, result, idx, acc>>
    /\ UNCHANGED <<now, db, req, readAt, calls>>

Init ==
    /\ now = 1
    /\ db = [a \in Adapters |-> [t \in Times |-> {}]]
    /\ fpc = "idle"
    /\ req = Nil
    /\ idx = 1
    /\ acc = <<>>
    /\ part = Nil
    /\ result = Nil
    /\ readAt = [a \in Adapters |-> NoRead]
    /\ calls = 0

Next ==
    \/ Write
    \/ StartCollect
    \/ DirectQuery
    \/ BeginPartitionedQuery
    \/ ExecutePartition

Spec == Init /\ [][Next]_vars

-----------------------------------------------------------------------------
(***************************************************************************)
(* Properties.                                                            *)
(***************************************************************************)
TypeOK ==
    /\ now \in 1..MaxTime
    /\ db \in [Adapters -> [Times -> SUBSET [s : Streams, pending : BOOLEAN]]]
    /\ fpc \in {"idle", "collecting", "done"}
    /\ idx \in Adapters
    /\ readAt \in [Adapters -> Times \cup {NoRead}]
    /\ calls \in 0..2 * Cardinality(Adapters)

Returned == fpc = "done" /\ result \notin {Nil, InvalidRequest, BackendError}

\* What the tally of a bucket is, by its definition in the spec: every
\* row of the bucket that has not expired by Now, counted and summed.
ExpectedTallies(rows, o) ==
    LET inRange(l) == /\ \/ o.from[1] < l[1]
                         \/ o.from[1] = l[1] /\ o.from[2] <= l[2]
                      /\ \/ l[1] < o.to[1]
                         \/ l[1] = o.to[1] /\ l[2] <= o.to[2]
        live(l)    == {r \in rows : Loc(r) = l /\ Obj[r.s].expires \notin 0..o.now}
        sum(l, f(_)) == MapThenSumSet(f, live(l))
    IN  {[loc      |-> l,
          bytes    |-> sum(l, LAMBDA r : Obj[r.s].bytes),
          segments |-> sum(l, LAMBDA r : Obj[r.s].segments),
          meta     |-> sum(l, LAMBDA r : Obj[r.s].meta),
          objects  |-> Cardinality(live(l)),
          pending  |-> Cardinality({r \in live(l) : r.pending})]
         : l \in {l \in Locations : inRange(l) /\ live(l) # {}}}

(***************************************************************************)
(* A result CollectBucketTallies returns is strictly ascending by bucket  *)
(* location, with no location twice: the facade's concatenate-then-sort   *)
(* over adapters that own disjoint projects, with the partitioned query's *)
(* unordered map values in between.                                       *)
(***************************************************************************)
TalliesSortedUnique ==
    Returned => \A i \in 1..Len(result) - 1 : LocLess(result[i].loc, result[i + 1].loc)

\* The spec's reading of a range: To is not ordered before From.
SpecValidRange(o) == ~LocLess(o.to, o.from)

\* The oldest snapshot a request allows: its AsOfSystemTime, or Now plus
\* its (non-positive) AsOfSystemInterval, whichever is older.
OldestAllowed(o) ==
    LET interval == Max({0, o.now + o.aosi})
    IN  IF o.aost = 0 THEN interval ELSE Min({o.aost, interval})

TallyRequests ==
    [from : Locations, to : Locations, aost : Times, aosi : AOSIs, now : Times,
     usePartition : BOOLEAN]

Tally == INSTANCE AbstractTally
             WITH Requests <- TallyRequests, ValidRange <- SpecValidRange,
                  Oldest <- OldestAllowed, TallyOf <- ExpectedTallies,
                  Before <- TallyLess

(***************************************************************************)
(* CollectBucketTallies implements AbstractTally: every answer lists,    *)
(* strictly ascending and once each, the spec's tallies of one snapshot  *)
(* per adapter, no older than the request allows and no newer than the   *)
(* answer.  The steps of the loop over adapters, of the direct queries   *)
(* and of the partitions of a partitioned query are invisible to the     *)
(* caller; the per-bucket sums carried across partitions, the final sort *)
(* over adapters and the read timestamp of each strategy are what make  *)
(* the answer one the abstract call may give.                            *)
(***************************************************************************)
TallyRefinement == Tally!TSpec

(***************************************************************************)
(* A request that names AsOfSystemTime gets the tallies of the data as of *)
(* that time, whichever adapter and strategy serves it (spec 4.1, 8).     *)
(***************************************************************************)
SnapshotHonoured ==
    (Returned /\ req.aost # 0) =>
        Range(result) = UNION {ExpectedTallies(db[a][req.aost], req) : a \in Adapters}

=============================================================================
