----------------------------- MODULE MetabaseRaw -----------------------------
(***************************************************************************)
(* The test/ops support of satellite/metabase/raw.go beside the tally     *)
(* facade of Metabase: TestingBatchInsertObjects, which routes rows by    *)
(* the Go type of the adapter ChooseAdapter picks and inserts them in     *)
(* chunks of MaxRowsPerCopy, and TestingDeleteAll.  Both run concurrently *)
(* with CollectBucketTallies and the upload path.                         *)
(***************************************************************************)
EXTENDS Metabase

CONSTANTS
    MaxRowsPerCopy,   \* maxRowsPerCopy / maxRowsPerBatch (250000)
    BatchInputs,      \* the []RawObject a caller passes: sequences of rows
    OK

ASSUME MaxRowsPerCopy \in Nat \ {0}

VARIABLES
    bpc,       \* TestingBatchInsertObjects: "idle", "inserting", "done"
    bInput,    \* its objects argument
    byType,    \* objectsByAdapterType
    bIdx,      \* the adapter of db.adapters the loop is at
    bRem,      \* the rows that adapter has still to insert (Nil: not begun)
    bResult,   \* what it returned
    bCalls,    \* CopyFrom / Apply calls made (ghost)
    bWritten,  \* bWritten[a]: rows those calls committed to adapter a (ghost)
    dpc,       \* TestingDeleteAll: "idle", "deleting", "done"
    dIdx,      \* the adapter it is at
    gpc,       \* TestingGetState: "idle", "reading", "done"
    gIdx,      \* the adapter it is at
    gState,    \* state.Objects: the rows read so far, then the sorted result
    gQuiet     \* nothing committed since TestingGetState was called (ghost)

rawVars == <<bpc, bInput, byType, bIdx, bRem, bResult, bCalls, bWritten, dpc, dIdx,
            gpc, gIdx, gState, gQuiet>>
getVars == <<gpc, gIdx, gState>>
allVars == <<vars, rawVars>>

\* reflect.TypeOf(adapter): Postgres and Cockroach share *PostgresAdapter.
AdapterType(a) == IF Impl[a] = "spanner" THEN "SpannerAdapter" ELSE "PostgresAdapter"
AdapterTypes == {AdapterType(a) : a \in Adapters}

Project(r) == Obj[r.s].loc[1]

-----------------------------------------------------------------------------
(***************************************************************************)
(* DB.TestingBatchInsertObjects: group the rows by adapter type, then     *)
(* give each adapter in db.adapters the rows of its type and delete that  *)
(* type's entry.                                                          *)
(***************************************************************************)
\* Mutant: every row routed to the first adapter's type, as
\* TestingBatchInsertSegments does with ChooseAdapter(uuid.UUID{}).
GroupByFirstAdapter(input) ==
    [ty \in AdapterTypes |-> IF ty = AdapterType(1) THEN input ELSE <<>>]

GroupByAdapterType(input) ==
    [ty \in AdapterTypes |->
        SelectSeq(input, LAMBDA r : AdapterType(Owner[Project(r)]) = ty)]

StartBatchInsert ==
    /\ bpc = "idle"
    /\ \E input \in BatchInputs :
        /\ bInput' = input
        /\ byType' = GroupByAdapterType(input)
    /\ bpc' = "inserting"
    /\ bIdx' = 1
    /\ bRem' = Nil
    /\ bResult' = Nil
    /\ bCalls' = 0
    /\ bWritten' = [a \in Adapters |-> {}]
    /\ UNCHANGED <<vars, dpc, dIdx, getVars>>

\* adapter.TestingBatchInsertObjects(ctx, objectsByAdapterType[adapterType])
BatchAdapterBegin ==
    /\ bpc = "inserting"
    /\ bRem = Nil
    /\ bRem' = byType[AdapterType(bIdx)]
    /\ UNCHANGED <<vars, bpc, bInput, byType, bIdx, bResult, bCalls, bWritten, dpc, dIdx,
                   getVars>>

\* Mutant: the chunk cap left out.
ChunkLenUncapped(n) == n

\* batch = objects; if len(batch) > maxRowsPerCopy { batch = batch[:maxRowsPerCopy] }
ChunkLen(n) == IF n > MaxRowsPerCopy THEN MaxRowsPerCopy ELSE n

(***************************************************************************)
(* One chunk: one CopyFrom (Postgres) or one Apply of Insert mutations    *)
(* (Spanner), committed atomically.  A row whose key the table already    *)
(* holds makes it fail, as any backend error may; the chunks before stay  *)
(* committed and the error is returned.                                   *)
(***************************************************************************)
BatchCopyChunk ==
    /\ bpc = "inserting"
    /\ bRem \notin {Nil, <<>>}
    /\ LET n     == ChunkLen(Len(bRem))
           chunk == Range(SubSeq(bRem, 1, n))
       IN  /\ bCalls' = bCalls + 1
           /\ \/ /\ bpc' = "done"
                 /\ bResult' = BackendError
                 /\ UNCHANGED <<bRem, bWritten, now, db>>
              \/ /\ \A r \in chunk : \A q \in db[bIdx][now] : q.s # r.s
                 /\ Commit(bIdx, db[bIdx][now] \cup chunk)
                 /\ bRem' = SubSeq(bRem, n + 1, Len(bRem))
                 /\ bWritten' = [bWritten EXCEPT ![bIdx] = @ \cup chunk]
                 /\ UNCHANGED <<bpc, bResult>>
    /\ UNCHANGED <<fpc, req, idx, acc, part, result, readAt, calls,
                   bInput, byType, bIdx, dpc, dIdx, getVars>>

\* The adapter returned nil: delete(objectsByAdapterType, adapterType).
BatchAdapterDone ==
    /\ bpc = "inserting"
    /\ bRem = <<>>
    /\ byType' = [byType EXCEPT ![AdapterType(bIdx)] = <<>>]
    /\ bRem' = Nil
    /\ IF LastAdapter(bIdx)
       THEN bpc' = "done" /\ bResult' = OK /\ bIdx' = bIdx
       ELSE bIdx' = bIdx + 1 /\ UNCHANGED <<bpc, bResult>>
    /\ UNCHANGED <<vars, bInput, bCalls, bWritten, dpc, dIdx, getVars>>

(***************************************************************************)
(* DB.TestingDeleteAll: each adapter in turn deletes every row in one     *)
(* statement batch or mutation group; the first error is returned.        *)
(***************************************************************************)
StartDeleteAll ==
    /\ dpc = "idle"
    /\ dpc' = "deleting"
    /\ dIdx' = 1
    /\ UNCHANGED <<vars, bpc, bInput, byType, bIdx, bRem, bResult, bCalls, bWritten,
                   getVars>>

DeleteAllStep ==
    /\ dpc = "deleting"
    /\ \/ /\ dpc' = "done"
          /\ UNCHANGED <<dIdx, now, db>>
       \/ /\ Commit(dIdx, {})
          /\ IF LastAdapter(dIdx)
             THEN dpc' = "done" /\ dIdx' = dIdx
             ELSE dpc' = dpc /\ dIdx' = dIdx + 1
    /\ UNCHANGED <<fpc, req, idx, acc, part, result, readAt, calls,
                   bpc, bInput, byType, bIdx, bRem, bResult, bCalls, bWritten, getVars>>

(***************************************************************************)
(* DB.TestingGetState, objects half: TestingGetAllObjects of each adapter *)
(* in turn, each one query of the current table, then sortRawObjects.  A *)
(* failing query returns the error.                                       *)
(***************************************************************************)
StartGetState ==
    /\ gpc = "idle"
    /\ gpc' = "reading"
    /\ gIdx' = 1
    /\ gState' = <<>>
    /\ UNCHANGED <<vars, bpc, bInput, byType, bIdx, bRem, bResult, bCalls, bWritten,
                   dpc, dIdx>>

\* ObjectStream.Less, abstracted to the stream's location.
RowLess(x, y) == LocLess(Loc(x), Loc(y))

\* PostgresAdapter.TestingGetAllObjects: one strong read of the whole
\* table, ORDER BY the primary key; the row scan is a column-for-column
\* copy, and an empty table returns nil.
TestingGetAllObjects(rows) == SortSeq(SetToSeq(rows), RowLess)

\* Mutant: state.Objects = objects, the earlier adapters' rows dropped.
ReplaceObjects(sofar, objects) == objects

\* state.Objects = append(state.Objects, objects...)
AppendObjects(sofar, objects) == sofar \o objects

\* sortRawObjects(state.Objects)
SortRawObjects(objects) == SortSeq(objects, RowLess)

GetAllObjects ==
    /\ gpc = "reading"
    /\ \/ gpc' = "done" /\ gState' = Nil /\ gIdx' = gIdx
       \/ LET objects == AppendObjects(gState, TestingGetAllObjects(db[gIdx][now]))
          IN  IF LastAdapter(gIdx)
              THEN gpc' = "done" /\ gState' = SortRawObjects(objects) /\ gIdx' = gIdx
              ELSE gpc' = gpc /\ gState' = objects /\ gIdx' = gIdx + 1
    /\ UNCHANGED <<vars, bpc, bInput, byType, bIdx, bRem, bResult, bCalls, bWritten,
                   dpc, dIdx>>

RawInit ==
    /\ Init
    /\ bpc = "idle"
    /\ bInput = <<>>
    /\ byType = [ty \in AdapterTypes |-> <<>>]
    /\ bIdx = 1
    /\ bRem = Nil
    /\ bResult = Nil
    /\ bCalls = 0
    /\ bWritten = [a \in Adapters |-> {}]
    /\ dpc = "idle"
    /\ dIdx = 1
    /\ gpc = "idle"
    /\ gIdx = 1
    /\ gState = <<>>
    /\ gQuiet = FALSE

\* The ghost gQuiet: set when TestingGetState starts, cleared by a commit.
TrackQuiet ==
    gQuiet' = \/ gpc = "idle" /\ gpc' = "reading"
              \/ gQuiet /\ now' = now

RawStep ==
    \/ Next /\ UNCHANGED <<bpc, bInput, byType, bIdx, bRem, bResult, bCalls, bWritten,
                          dpc, dIdx, getVars>>
    \/ StartBatchInsert
    \/ BatchAdapterBegin
    \/ BatchCopyChunk
    \/ BatchAdapterDone
    \/ StartDeleteAll
    \/ DeleteAllStep
    \/ StartGetState
    \/ GetAllObjects

RawNext == RawStep /\ TrackQuiet

RawSpec == RawInit /\ [][RawNext]_allVars

-----------------------------------------------------------------------------

(***************************************************************************)
(* Every objects row, whether the upload path or a batch insert wrote it, *)
(* is stored behind the adapter ChooseAdapter picks for its project: a    *)
(* project's rows are never split across adapters (spec 4.1).             *)
(***************************************************************************)
RowsBehindOwner ==
    \A a \in Adapters : \A r \in db[a][now] : Owner[Project(r)] = a

CeilDiv(n, d) == (n + d - 1) \div d

(***************************************************************************)
(* A batch insert that returned nil committed every row it was given, in  *)
(* exactly ceil(n / maxRowsPerCopy) backend calls for the n rows of each  *)
(* adapter type (spec 4.6 and 8).                                         *)
(***************************************************************************)
BatchInsertChunked ==
    (bpc = "done" /\ bResult = OK) =>
        /\ UNION {bWritten[a] : a \in Adapters} = Range(bInput)
        /\ bCalls = MapThenSumSet(
                        LAMBDA ty : CeilDiv(Len(GroupByAdapterType(bInput)[ty]), MaxRowsPerCopy),
                        AdapterTypes)


(***************************************************************************)
(* A batch insert that failed left committed exactly what the loop got   *)
(* through before the failing call: every row of its type at the         *)
(* adapters before the failing one, an initial run of its type's rows at *)
(* the failing adapter, and nothing at the adapters after it; no row of  *)
(* another project's adapter, no hole in the input order.  (The chunks  *)
(* before a failure are not rolled back: spec 4.6.)                      *)
(***************************************************************************)
PartialBatchIsPrefix ==
    (bpc = "done" /\ bResult = BackendError) =>
        \A a \in Adapters :
            LET mine == SelectSeq(bInput,
                                  LAMBDA r : AdapterType(Owner[Project(r)]) = AdapterType(a))
            IN  CASE a < bIdx -> bWritten[a] = Range(mine)
                  [] a > bIdx -> bWritten[a] = {}
                  [] OTHER    -> \E k \in 0..Len(mine) : bWritten[a] = Range(SubSeq(mine, 1, k))

(***************************************************************************)
(* A TestingGetState that returned nil, with nothing committed since it  *)
(* was called, lists every row of every adapter once, in ObjectStream    *)
(* order: the per-adapter results are appended across the loop and the   *)
(* whole is sorted at the end.  (With writes in between, the adapters are *)
(* read at different times and no such promise is made.)                 *)
(***************************************************************************)
QuiescentDumpExact ==
    (gpc = "done" /\ gState # Nil /\ gQuiet) =>
        LET all == UNION {db[a][now] : a \in Adapters}
        IN  /\ Range(gState) = all
            /\ Len(gState) = Cardinality(all)
            /\ \A k \in 1..Len(gState) - 1 : ~RowLess(gState[k + 1], gState[k])

=============================================================================
