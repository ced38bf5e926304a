----------------------------- MODULE RawSegments -----------------------------
(***************************************************************************)
(* The segments half of satellite/metabase/raw.go: TestingBatchInsertSegments, *)
(* the segments half of TestingGetState, and TestingDeleteAll with its     *)
(* replacement of db.aliasCache.  Segment rows store node aliases, not    *)
(* node ids, so every one of these goes through the node alias cache.     *)
(*                                                                         *)
(* The NodeAliasCache is not under src/: it is modelled from the spec     *)
(* (4.5) as a cache-aside map.  EnsurePiecesToAliases answers from the    *)
(* cache when it knows every node, and otherwise allocates the missing    *)
(* nodes in the node_aliases table (ON CONFLICT DO NOTHING, next value of *)
(* node_alias_seq) and reloads the cache wholesale.  ConvertAliasesToPieces *)
(* reloads on a miss and fails with a data-integrity error when an alias  *)
(* is still unknown.  The cache reads and writes the table of             *)
(* ChooseAdapter(uuid.UUID{}), ZeroOwner.                                  *)
(*                                                                         *)
(* A segment row is [id, aliases]; its node ids are SegNodes[id].         *)
(* db.aliasCache is a generation number: caches[g] is the cache object    *)
(* NewNodeAliasCache created for generation g, and a helper call keeps    *)
(* the generation it read when it was called.                             *)
(***************************************************************************)
EXTENDS Naturals, FiniteSets, Sequences, SequencesExt

CONSTANTS
    Adapters,        \* 1..N: db.adapters, in this order
    Impl,            \* [Adapters -> {"postgres", "cockroach", "spanner"}]
    Owner,           \* [Projects -> Adapters]: ChooseAdapter(projectID)
    ZeroOwner,       \* ChooseAdapter(uuid.UUID{})
    Nodes,           \* storage node ids
    SegIds,          \* (stream_id, position) keys of the segments callers insert
    SegProject,      \* [SegIds -> Projects]: the project of the segment's object
    SegNodes,        \* [SegIds -> SUBSET Nodes]: the nodes of its pieces
    SegInputs,       \* the []RawSegment a caller passes: sequences of SegIds
    MaxRowsPerCopy,  \* maxRowsPerCopy (250000)
    CallBound,       \* [{"insert", "delete", "get"} -> Nat]: calls per helper
    DeleteAloneOnly, \* callers never overlap TestingDeleteAll with the others
    OK, BackendError, DataIntegrityError

ASSUME Adapters = 1..Cardinality(Adapters) /\ ZeroOwner \in Adapters
ASSUME MaxRowsPerCopy \in Nat \ {0} /\ DeleteAloneOnly \in BOOLEAN

Helpers == {"insert", "delete", "get"}

VARIABLES
    segTab,    \* segTab[a]: the segments rows of adapter a
    aliasTab,  \* aliasTab[a]: the node_aliases rows <<node, alias>> of adapter a
    seq,       \* seq[a]: the next value of node_alias_seq
    caches,    \* caches[g]: the <<node, alias>> pairs cache object g holds
    gen,       \* db.aliasCache: the generation of the current cache object
    calls,     \* calls made per helper
    ipc,       \* TestingBatchInsertSegments: "idle", "ensuring", "copying", "done"
    iCache,    \* the aliasCache argument it was called with
    iRem,      \* the segments not yet taken into a batch
    iChunk,    \* the segments of the batch whose aliases are still to ensure
    iRows,     \* the rows of the batch, with their aliases
    iResult,   \* what it returned
    dpc,       \* TestingDeleteAll: "idle", "deleting", "done"
    dIdx,      \* the adapter it is at
    rpc,       \* TestingGetState, segments half: "idle", "reading", "done"
    rCache,    \* the db.aliasCache it passes to the adapters
    rIdx,      \* the adapter it is at
    rRows,     \* state.Segments so far: [id, nodes] records
    rResult    \* what it returned

vars == <<segTab, aliasTab, seq, caches, gen, calls, ipc, iCache, iRem, iChunk,
          iRows, iResult, dpc, dIdx, rpc, rCache, rIdx, rRows, rResult>>
insVars == <<ipc, iCache, iRem, iChunk, iRows, iResult>>
delVars == <<dpc, dIdx>>
getVars == <<rpc, rCache, rIdx, rRows, rResult>>

Running(pc) == pc \notin {"idle", "done"}

\* A helper call may start: its previous call returned, the bound allows
\* another, and (if callers keep TestingDeleteAll apart) no delete runs.
CanStart(h, pc) ==
    /\ ~Running(pc)
    /\ calls[h] < CallBound[h]
    /\ DeleteAloneOnly => ~Running(dpc)

-----------------------------------------------------------------------------
(***************************************************************************)
(* The node alias cache (spec 4.5).                                       *)
(***************************************************************************)
NodesIn(pairs) == {p[1] : p \in pairs}
AliasesIn(pairs) == {p[2] : p \in pairs}
AliasesOf(pairs, ns) == {p[2] : p \in {q \in pairs : q[1] \in ns}}
NodesOf(pairs, as) == {p[1] : p \in {q \in pairs : q[2] \in as}}

\* EnsureNodeAliases: every node without a row gets the next sequence value.
Allocated(tab, s, ns) ==
    LET new == SetToSeq(ns \ NodesIn(tab))
    IN  tab \cup {<<new[k], s + k - 1>> : k \in 1..Len(new)}

\* EnsurePiecesToAliases(pieces) on cache g: its possible outcomes, each
\* the aliases returned (ok) with the table and the cache it leaves.  A
\* cache hit touches no database; a miss calls EnsureNodeAliases, which
\* may fail, and reloads the cache wholesale.
EnsureOutcomes(g, ns) ==
    LET tab == Allocated(aliasTab[ZeroOwner], seq[ZeroOwner], ns)
    IN  IF ns \subseteq NodesIn(caches[g])
        THEN {[ok |-> TRUE, aliases |-> AliasesOf(caches[g], ns),
               tab |-> aliasTab[ZeroOwner], cache |-> caches[g]]}
        ELSE {[ok |-> FALSE, aliases |-> {},
               tab |-> aliasTab[ZeroOwner], cache |-> caches[g]],
              [ok |-> TRUE, aliases |-> AliasesOf(tab, ns),
               tab |-> tab, cache |-> tab]}

\* The table, sequence and cache an outcome of cache g leaves.
ApplyEnsure(g, o) ==
    /\ aliasTab' = [aliasTab EXCEPT ![ZeroOwner] = o.tab]
    /\ seq' = [seq EXCEPT ![ZeroOwner] = @ + Cardinality(o.tab \ aliasTab[ZeroOwner])]
    /\ caches' = [caches EXCEPT ![g] = o.cache]

\* ConvertAliasesToPieces for one row, folded over an adapter's rows in
\* the query's order: a miss reloads the cache from the table; an alias
\* still unknown is a data-integrity error.
ConvertRow(st, row) ==
    IF st.err THEN st
    ELSE LET c == IF row.aliases \subseteq AliasesIn(st.cache) THEN st.cache
                  ELSE aliasTab[ZeroOwner]
         IN  IF row.aliases \subseteq AliasesIn(c)
             THEN [st EXCEPT !.cache = c,
                             !.rows = @ \cup {[id |-> row.id,
                                               nodes |-> NodesOf(c, row.aliases)]}]
             ELSE [st EXCEPT !.cache = c, !.err = TRUE]

-----------------------------------------------------------------------------
(***************************************************************************)
(* DB.TestingBatchInsertSegments: the adapter of ChooseAdapter(uuid.UUID{}) *)
(* with db.aliasCache as it is at the call.  Postgres: per batch of at   *)
(* most maxRowsPerCopy, ensure each segment's aliases, then one CopyFrom  *)
(* (a key already present fails it).  Spanner: ensure every segment, then *)
(* one Apply of InsertOrUpdate mutations.                                 *)
(***************************************************************************)
\* batch := segments; if len(batch) > maxRowsPerCopy { batch = batch[:maxRowsPerCopy] }
SegChunkLen(a, n) ==
    IF Impl[a] # "spanner" /\ n > MaxRowsPerCopy THEN MaxRowsPerCopy ELSE n

TakeBatch(segs) ==
    LET n == SegChunkLen(ZeroOwner, Len(segs))
    IN  /\ iChunk' = SubSeq(segs, 1, n)
        /\ iRem' = SubSeq(segs, n + 1, Len(segs))
        /\ iRows' = {}

StartInsertSegments ==
    /\ CanStart("insert", ipc)
    /\ \E input \in SegInputs : TakeBatch(input)
    /\ calls' = [calls EXCEPT !["insert"] = @ + 1]
    /\ ipc' = "ensuring"
    /\ iCache' = gen
    /\ iResult' = OK
    /\ UNCHANGED <<segTab, aliasTab, seq, caches, gen, delVars, getVars>>

\* aliases[i], err = aliasCache.EnsurePiecesToAliases(ctx, segment.Pieces);
\* an error returns at once.
EnsureSegment ==
    /\ ipc = "ensuring"
    /\ LET id == Head(iChunk) IN
       \E o \in EnsureOutcomes(iCache, SegNodes[id]) :
          /\ ApplyEnsure(iCache, o)
          /\ IF o.ok
             THEN /\ iRows' = iRows \cup {[id |-> id, aliases |-> o.aliases]}
                  /\ iChunk' = Tail(iChunk)
                  /\ ipc' = IF Tail(iChunk) = <<>> THEN "copying" ELSE "ensuring"
                  /\ UNCHANGED iResult
             ELSE ipc' = "done" /\ iResult' = BackendError /\ UNCHANGED <<iChunk, iRows>>
    /\ UNCHANGED <<segTab, gen, calls, iCache, iRem, delVars, getVars>>

\* The table after the batch's write: CopyFrom adds the rows (Postgres);
\* InsertOrUpdate mutations replace a row of the same key (Spanner).
WrittenRows(a, rows, new) ==
    IF Impl[a] = "spanner"
    THEN {r \in rows : r.id \notin {n.id : n \in new}} \cup new
    ELSE rows \cup new

\* CopyFrom (Postgres) or Apply (Spanner) of the batch's rows, one atomic
\* write; an error returns at once.  A Postgres insert of a key already
\* present fails.  Postgres loops to the next batch.
CopySegments ==
    /\ ipc = "copying"
    /\ LET a   == ZeroOwner
           ids == {r.id : r \in iRows}
       IN  \/ /\ ipc' = "done" /\ iResult' = BackendError
              /\ UNCHANGED <<segTab, iRem, iChunk, iRows>>
           \/ /\ segTab' = [segTab EXCEPT ![a] = WrittenRows(a, @, iRows)]
              /\ Impl[a] # "spanner" => \A r \in segTab[a] : r.id \notin ids
              /\ IF iRem = <<>>
                 THEN ipc' = "done" /\ UNCHANGED <<iRem, iChunk, iRows>>
                 ELSE ipc' = "ensuring" /\ TakeBatch(iRem)
              /\ UNCHANGED iResult
    /\ UNCHANGED <<aliasTab, seq, caches, gen, calls, iCache, delVars, getVars>>

-----------------------------------------------------------------------------
\* Mutant: the loop stops one adapter later than the last.
LastOfOffByOne(i) == i = Cardinality(Adapters) + 1

\* for _, a := range db.adapters: i is the last adapter.
LastOf(i) == i = Cardinality(Adapters)

\* Mutant: db.aliasCache left in place by TestingDeleteAll.
KeepAliasCache(c) == c

\* db.aliasCache = NewNodeAliasCache(db): a new, empty cache object.
NewNodeAliasCache(c) == {}

(***************************************************************************)
(* DB.TestingDeleteAll: replace db.aliasCache, then each adapter in turn  *)
(* deletes its objects, segments and node_aliases rows in one statement  *)
(* batch (Postgres, which also restarts node_alias_seq at 1) or one Apply *)
(* (Spanner).  The first error is returned.                               *)
(***************************************************************************)
StartDeleteAll ==
    /\ CanStart("delete", dpc)
    /\ DeleteAloneOnly => ~Running(ipc) /\ ~Running(rpc)
    /\ calls' = [calls EXCEPT !["delete"] = @ + 1]
    /\ gen' = gen + 1
    /\ caches' = caches @@ (gen + 1 :> NewNodeAliasCache(caches[gen]))
    /\ dpc' = "deleting"
    /\ dIdx' = 1
    /\ UNCHANGED <<segTab, aliasTab, seq, insVars, getVars>>

\* Mutant: the node_aliases rows kept while the sequence restarts.
KeepAliases(tab) == tab

\* DELETE FROM node_aliases
DeleteAliases(tab) == {}

DeleteAllStep ==
    /\ dpc = "deleting"
    /\ \/ dpc' = "done" /\ UNCHANGED <<segTab, aliasTab, seq, dIdx>>
       \/ /\ segTab' = [segTab EXCEPT ![dIdx] = {}]
          /\ aliasTab' = [aliasTab EXCEPT ![dIdx] = DeleteAliases(@)]
          /\ seq' = IF Impl[dIdx] = "spanner" THEN seq ELSE [seq EXCEPT ![dIdx] = 1]
          /\ IF LastOf(dIdx)
             THEN dpc' = "done" /\ dIdx' = dIdx
             ELSE dpc' = dpc /\ dIdx' = dIdx + 1
    /\ UNCHANGED <<caches, gen, calls, insVars, getVars>>

-----------------------------------------------------------------------------
(***************************************************************************)
(* DB.TestingGetState, segments half: TestingGetAllSegments of each       *)
(* adapter with db.aliasCache, one query each, every row's alias pieces  *)
(* converted to pieces.  A failing query or conversion returns the error.*)
(***************************************************************************)
StartGetState ==
    /\ CanStart("get", rpc)
    /\ calls' = [calls EXCEPT !["get"] = @ + 1]
    /\ rpc' = "reading"
    /\ rCache' = gen
    /\ rIdx' = 1
    /\ rRows' = {}
    /\ rResult' = OK
    /\ UNCHANGED <<segTab, aliasTab, seq, caches, gen, insVars, delVars>>

GetAllSegments ==
    /\ rpc = "reading"
    /\ \/ /\ rpc' = "done" /\ rResult' = BackendError
          /\ UNCHANGED <<caches, rIdx, rRows>>
       \/ LET st == FoldLeft(ConvertRow,
                             [cache |-> caches[rCache], rows |-> rRows, err |-> FALSE],
                             SetToSeq(segTab[rIdx]))
          IN  /\ caches' = [caches EXCEPT ![rCache] = st.cache]
              /\ rRows' = st.rows
              /\ CASE st.err      -> rpc' = "done" /\ rResult' = DataIntegrityError
                                     /\ rIdx' = rIdx
                   [] LastOf(rIdx) -> rpc' = "done" /\ rIdx' = rIdx /\ UNCHANGED rResult
                   [] OTHER        -> rIdx' = rIdx + 1 /\ UNCHANGED <<rpc, rResult>>
    /\ UNCHANGED <<segTab, aliasTab, seq, gen, calls, rCache, insVars, delVars>>

-----------------------------------------------------------------------------
Init ==
    /\ segTab = [a \in Adapters |-> {}]
    /\ aliasTab = [a \in Adapters |-> {}]
    /\ seq = [a \in Adapters |-> 1]
    /\ caches = (0 :> {})
    /\ gen = 0
    /\ calls = [h \in Helpers |-> 0]
    /\ ipc = "idle" /\ iCache = 0 /\ iRem = <<>> /\ iChunk = <<>> /\ iRows = {}
    /\ iResult = OK
    /\ dpc = "idle" /\ dIdx = 1
    /\ rpc = "idle" /\ rCache = 0 /\ rIdx = 1 /\ rRows = {} /\ rResult = OK

Next ==
    \/ StartInsertSegments
    \/ EnsureSegment
    \/ CopySegments
    \/ StartDeleteAll
    \/ DeleteAllStep
    \/ StartGetState
    \/ GetAllSegments

Spec == Init /\ [][Next]_vars

-----------------------------------------------------------------------------
RawSegmentsTypeOK ==
    /\ ipc \in {"idle", "ensuring", "copying", "done"}
    /\ dpc \in {"idle", "deleting", "done"}
    /\ rpc \in {"idle", "reading", "done"}
    /\ dIdx \in Adapters /\ rIdx \in Adapters
    /\ gen \in DOMAIN caches /\ iCache \in DOMAIN caches /\ rCache \in DOMAIN caches

(***************************************************************************)
(* Every alias a stored segment row carries has a node_aliases row: the  *)
(* cache never hands out an alias whose row TestingDeleteAll removed,    *)
(* which is why TestingDeleteAll replaces db.aliasCache.                  *)
(***************************************************************************)
AliasesResolvable ==
    \A a \in Adapters : \A r \in segTab[a] : r.aliases \subseteq AliasesIn(aliasTab[ZeroOwner])

(***************************************************************************)
(* ConvertAliasesToPieces(EnsurePiecesToAliases(pieces)) = pieces (spec  *)
(* 8): a TestingGetState that returned nil reports every segment with    *)
(* the nodes it was inserted with, across deletes and re-inserts.         *)
(***************************************************************************)
SegmentRoundTrip ==
    (rpc = "done" /\ rResult = OK) => \A r \in rRows : r.nodes = SegNodes[r.id]

(***************************************************************************)
(* A project's rows live behind exactly one adapter (spec 4.1): every    *)
(* segment row is stored behind the adapter that owns its project.        *)
(***************************************************************************)
SegmentsBehindOwner ==
    \A a \in Adapters : \A r \in segTab[a] : Owner[SegProject[r.id]] = a

=============================================================================
