# TLA+ models of the storj metabase accounting path and its neighbours

This directory holds TLA+ specifications of parts of the storj satellite and
storage node that are in `src/`, the MC modules and TLC configurations that
check them, and `PROJECT.json`, which maps every definition to the Go lines it
models and lists runs, mutants, findings and hazards.

## The system, as far as the sources go

| part | source | state | operations | interacts with |
|---|---|---|---|---|
| bucket tallies | `satellite/metabase/accounting.go` | the `objects` table of every adapter | `Verify`, `DB.CollectBucketTallies`, `PostgresAdapter.CollectBucketTallies`, `SpannerAdapter.CollectBucketTallies` (direct), `collectBucketTalliesWithPartitionedQuery` | the upload path writing objects; the adapter list `db.adapters` and `ChooseAdapter` |
| raw testing helpers | `satellite/metabase/raw.go` | the same tables, `db.aliasCache` | `TestingGetState`, `TestingDeleteAll`, `TestingBatchInsertObjects/Segments`, per-adapter copy/insert in chunks of `maxRowsPerCopy` | tallies and uploads running at the same time; the node alias cache |
| upload path | not under `src/` (spec) | objects rows | begin, commit, delete object | every reader above |
| node alias cache | not under `src/` (spec) | alias map, `node_aliases` table, `node_alias_seq` | ensure / convert aliases | `TestingDeleteAll` replaces it; segment inserts and reads go through it |
| mud command runner | `shared/modular/cli/cmdmud.go` | components, context, `done` channel | `Setup`, `Execute` with a deferred shutdown and timeout | every module the command runs |
| blob writer and reader | `storagenode/blobstore/filestore/blob.go` | `closed`, the file handle | `Write`, `Size`, `Cancel`, `Commit`; reader `Size`, `Close` | the filestore directory |
| entitlements command | `cmd/satellite/entitlements.go` | users pages, project entitlements | `processAllUsers`, `processUserEmail`, `processProject`, `processCSVFile` | the console database |
| storjscan client, config generator, checker registration, repair queue test helper | the remaining files | none to speak of | — | — |

The hard behaviours are in the metabase: a tally is assembled from several
adapters queried one after another while uploads commit, each adapter reading
at a timestamp chosen from `AsOfSystemTime`/`AsOfSystemInterval` in a way that
differs per backend and per Spanner strategy; the partitioned strategy folds
rows of several partitions into one map and returns its values unordered; and
the batch-insert helper routes rows by the Go type of the adapter.

## Modules

**Metabase** (`Metabase.tla`, `MCMetabase.tla`). Every adapter's table is a
history `db[a][t]`: a write commits at `now + 1` and fixes the table for all
later times, so a read at `t` sees the snapshot committed by then. The upload
path (`BeginObject`, `CommitObject`, `DeleteObject`, `Tick`) is modelled from
the spec and writes the owner adapter of the project (`Owner`). A tally request
is one process with program counter `fpc`:

* `StartCollect` is `DB.CollectBucketTallies` up to the loop: `Verify`, then
  either fail with `InvalidRequest` or start at the first adapter. `Now`
  defaults to the current time. Requests come from `Ranges`, with
  AsOfSystemTime 0 (unset) or a past time, and interval 0 or -1.
* `DirectQuery` is one grouped query (`GroupedQuery` over `Selected`): Postgres
  and Cockroach read at `PostgresReadTimes`, the Spanner direct query at any
  time within the staleness `MaxStalenessFromAOSI(AsOfSystemInterval)` allows
  (`SpannerDirectReadTimes`). It may fail (`AdapterFailed`).
* `BeginPartitionedQuery` and `ExecutePartition` are the Spanner partitioned
  strategy: one batch read-only transaction at `AsOfSystemTime` or strong
  (`PartitionedReadTime`), any split of the selected rows into at most
  `MaxPartitions` partitions, each folded into the carried map by
  `AccumulateRow`, the result any order of the map's values.
* `AdapterReturned` appends and, after the last adapter, sorts
  (`SortTallies`).

The ghost variable `readAt` records the timestamp each adapter read.

**AbstractTally** (`AbstractTally.tla`) is what `CollectBucketTallies`
promises, whatever adapters and strategies serve it. Each adapter keeps a
history its writes only extend (`TWrite`). An inverted range is refused at
once (`TRequest`). Any other request is answered once (`TAnswer`): by an error,
or by the tallies of one snapshot per adapter, listed strictly ascending and
once each. Each snapshot is taken no earlier than the request allows and no
later than the answer. The oldest allowed snapshot (`OldestAllowed`) is
`Now + AsOfSystemInterval`, or `AsOfSystemTime` when that is older. Metabase
instantiates it as `Tally` with `ExpectedTallies` as the tally of a table.
The variables `now`, `db`, `fpc`, `req` and `result` map to themselves. The
loop over adapters and the partitions are hidden, so their steps are
stuttering steps of the abstract spec.

**MetabaseRaw** (`MetabaseRaw.tla`, `MCMetabaseRaw.tla`) extends Metabase with
three helper processes running beside uploads and tallies:
`TestingBatchInsertObjects` (`StartBatchInsert` groups rows by
`AdapterType`; per adapter `BatchAdapterBegin`, `BatchCopyChunk` per chunk of
`ChunkLen` rows, `BatchAdapterDone`), `TestingDeleteAll` (`DeleteAllStep` per
adapter) and the objects half of `TestingGetState` (`GetAllObjects`, one
`TestingGetAllObjects` query per adapter, its rows appended (`AppendObjects`),
then the sort (`SortRawObjects`)). The ghost `gQuiet` is set when the call
starts and cleared by any commit during it. A chunk
fails if a row's stream already exists (a duplicate key) or on any backend
error; earlier chunks stay committed.

**RawSegments** (`RawSegments.tla`, `MCRawSegments.tla`) is the segments
half of the raw helpers with the node alias cache they go through.
`segTab[a]` and `aliasTab[a]` are the `segments` and `node_aliases` tables,
`seq[a]` is `node_alias_seq`; a segment row holds aliases, not node ids.
`db.aliasCache` is a generation number `gen` and `caches[g]` the cache
object of generation `g`, because a helper call keeps the cache it was
called with. The cache itself is modelled from the spec (4.5), not the code:
`EnsureOutcomes` answers from the cache or allocates missing nodes at the next
sequence values and reloads wholesale (`Allocated`, `ApplyEnsure`);
`ConvertRow` reloads on a miss and fails with a data-integrity error.
Three helpers run beside each other, each called up to `CallBound` times:

* `StartInsertSegments`, `EnsureSegment`, `CopySegments` are
  `TestingBatchInsertSegments` on `ChooseAdapter(uuid.UUID{})`
  (`ZeroOwner`): per batch of `SegChunkLen` rows, ensure every segment's
  aliases, then one `CopyFrom` (a duplicate key fails it). On Spanner it is
  one batch and an `InsertOrUpdate` (`WrittenRows`).
* `StartDeleteAll`, `DeleteAllStep` are `TestingDeleteAll`: a new cache
  (`NewNodeAliasCache`), then per adapter one statement batch deleting
  segments and node aliases and restarting the sequence (Postgres).
* `StartGetState`, `GetAllSegments` are the segments half of
  `TestingGetState`: per adapter one query, each row converted with the
  call's cache.

`DeleteAloneOnly` says that callers never overlap `TestingDeleteAll` with the
other helpers, as test set-up code does.

**BlobWriter** (`BlobWriter.tla`) is the storage node's `blobWriter`. The
bufio.Writer is modelled by what it does (`FileWrite`, `Flush`, and the
RECURSIVE `BufWrite`, which fills the buffer, flushes, or writes straight
through, with any file write able to fail and the error sticky); these model
the Go standard library and have no map entry. `Write`, `Size` (Seek with its
flush), `Cancel` and `Commit` are the four methods, called in any order by one
caller. `Dir.Commit`, outside this repository, closes the handle and renames
the temporary file, or removes it and fails. Ghosts record what each call saw
(`written`, `sizeRet`, `target`) and how often the handle and the leak
tracker were released. The same module holds a `blobReader` of the committed
blob: `ReaderOpen` (`Dir.Open`, outside this repository, then
`newBlobReader`), `ReaderSize` (a Stat, failing once the file is closed) and
`ReaderClose`, which has no closed flag. A second Close runs both closes
again, up to `MaxReaderCloses` calls.

**AbstractBlob** (`AbstractBlob.tla`) is what the writer promises: bytes are
accepted while it is open, and then, once, either a committed blob holding
exactly the bytes accepted before the commit, or nothing. `BlobRefinement`
checks that `BlobWriter` implements it, through `INSTANCE AbstractBlob WITH`.
The mapping: the phase is committed once the temporary file is renamed,
discarded once `closed` is set otherwise, and open before that. The data is
the bytes Writes accepted, and the stored blob is the renamed file's bytes.

**MudCommand** (`MudCommand.tla`, `MCMudCommand.tla`) is `MudCommand.Setup`
followed by `MudCommand.Execute`. The ball is a graph over components 1..N
(`Deps`, each edge from a component to one it depends on, numbered so that
ascending order is the dependency order). A selector is a set of
components, and `Reached` adds all they depend on (the community `Graphs`
module's `Descendants`). `CreateSelectorFromString` is a table `FromString`
from flag values, since `modular` is not in the sources. `SetupSelect`
reads `--components` and composes it with a preset selector
(`ComposeSelector`: the flag's selector if none is preset, their Or if the
flag is non-empty). `SetupInit` creates the config components the selector
reaches (`SetupConfigs`) in order and panics on an error; `SetupBind` binds
each one's instance to flags, once all exist (`ConfigsCreated`), and
Execute's first line defaults the run selector to the selector
(`RunSelectorOf`). In Execute, `InitComponent` (mud's `Init` keeps an
existing instance, `InitDone`, which is modelled from mud's contract since
mud is not in the sources) and `RunComponent` walk `visit`, the components
the run selector reaches, in dependency order, `WaitGroup` is
`eg.Wait`, `GoroutineExit` a run goroutine returning, `CancelCtx` the signal.
The deferred shutdown is a goroutine (`CloseComponent`, walking `CloseOrder`,
where a Close may wait until `closeCtx` is cancelled) raced by the timer
(`ShutdownTimeout`, which calls cancel) and ended by `ShutdownDone`. The mud
iteration is assumed to stop at the first error its callback returns. The
ghost `closeErr` records a Close that failed or was cancelled.

**Entitlements** (`Entitlements.tla`, `MCEntitlements.tla`) starts with
`Validate`, the flag checks of both commands. It rejects `--email` together
with `--csv` and a `--json` that does not parse. For placements it rejects a
placement without self-serve details (`PlacementsArgValid`). For mappings it
rejects an unpriced product or such a placement (`MappingArgValid`). Opening
the database may fail; the mapping command opens it before these checks, the
placements command after them. `DispatchTarget` picks the target. Every path
after a successful open ends with `CloseDatabase`, the deferred `satDB.Close()`.
Its error is lost: `errs.Combine` assigns it to the local `err`, and the
commands' `error` result is unnamed, so the value already returned stands. Then come `processAllUsers` and `processProject`:
`Confirm`, `FetchPage` (GetByStatus
at offset (Page-1)*Limit in id order, an assumption about the database
layer), `ProcessUser` (GetOwnActive and every project, errors collected),
and `ChangeStatus`, another actor deactivating or reactivating a user at any
time. The `--csv` target is `ParseCSV` (the record loop, `ParseRow`, then the
empty-file, invalid-email and no-email checks) followed by `Confirm` and one
`ProcessEmail` per email, errors collected; the `--email` target is a single
`ProcessEmail`, which validates the email, checks the user is active and
stops at the first failing project. `SetEntitlements` is `processProject`
for both actions. The placement-to-product inversion is `InvertInOrder`, a fold over one
iteration order of the Go map, and `InvertedMappings` the set over all orders.

## Runs

| run | cfg | checks | result |
|---|---|---|---|
| metabase | `MCMetabase.cfg` | `TypeOK`, `TallyRefinement` | pass |
| snapshot | `MCMetabaseSnapshot.cfg` | `SnapshotHonoured` with two Spanner adapters | violation |
| raw | `MCMetabaseRaw.cfg` | `RowsBehindOwner`, `BatchInsertChunked`, `PartialBatchIsPrefix`, `QuiescentDumpExact`, `TalliesSortedUnique` | pass |
| sametype | `MCMetabaseRawSameType.cfg` | `TalliesSortedUnique` with a Cockroach and a Postgres adapter | violation |
| blob | `BlobWriter.cfg` | `BlobRefinement`, `SizeReportsWritten`, `ReleasedAtMostOnce` | pass |
| blobleak | `BlobWriterLeak.cfg` | `ClosedWriterReleased` | violation |
| mud | `MudCommand.cfg` | `ClosedInReverseOrder`, `CleanupComplete`, `ReturnsOnceCancelled` | pass |
| entitlements | `MCEntitlements.cfg` | `ErrorsNotLost`, `Terminates`, `CSVAllApplied` | pass |
| entskip | `MCEntitlementsSkip.cfg` | `AllActiveUpdated` | violation |
| entinvert | `MCEntitlementsInvert.cfg` | `PlacementsPreserved` | violation |
| segments | `MCRawSegments.cfg` | `RawSegmentsTypeOK`, `AliasesResolvable`, `SegmentRoundTrip` | pass |
| segowner | `MCRawSegmentsOwner.cfg` | `SegmentsBehindOwner` | violation |

* `TallyRefinement`: Metabase implements `AbstractTally`. The abstract
  answer's tallies come from an independent definition (`ExpectedTallies`).
  The refinement catches these mutants: a per-partition map that loses a
  bucket's earlier partitions, a missing final sort, and a staleness bound
  one timestamp too old. Its request check also covers `Verify`: an
  inverted range is refused, and `From = To` is not.
* `TalliesSortedUnique` (raw run): sorted by bucket location, no location
  twice, which holds only because a project lives behind one adapter.
* `RowsBehindOwner`: every row, from uploads or batch inserts, is in the
  table of the adapter `ChooseAdapter` picks.
* `BatchInsertChunked`: a successful insert wrote every row in exactly
  ceil(n / maxRowsPerCopy) calls per adapter type.
* `PartialBatchIsPrefix`: after a failed insert, each adapter before the
  failing one holds all of its type's rows. The failing one holds an initial
  run of them, and later adapters hold nothing. This is the spec's "earlier
  chunks stay committed", with no hole and no row at a wrong adapter.
* `QuiescentDumpExact` (raw run): a `TestingGetState` with no commit while
  it ran returns exactly the rows of every adapter, each once, sorted. The
  adapters are read one after another (`raw.go:113`), so this fails if a
  later adapter's rows replace the earlier ones rather than being appended.
  With concurrent commits the helper promises no single snapshot, and none
  is checked.
* `CleanupComplete`: on every path past Init, Execute returns only after it
  closed every initialized component it visits. Config components Setup
  created that the run selector does not reach (the `config list` case) are
  neither visited nor closed. This covers eg.Wait, a failing Run and
  a timed-out shutdown. The exceptions are a Close that failed or was
  cancelled, which ends the reverse walk, and an Init error, which returns
  before the deferred shutdown exists (`cmdmud.go:79`).
* `ClosedInReverseOrder`: a component is closed only after every visited
  component that depends on it was closed.
* `BlobRefinement`: the blob writer implements `AbstractBlob`. It catches
  a Commit that skips the flush (a truncated blob), and a Cancel after
  Commit that removes the committed file.
* `AliasesResolvable`: every alias a stored segment carries has a
  `node_aliases` row. Without the cache replacement of `raw.go:133` a cache
  kept across a delete hands out aliases whose rows are gone.
* `SegmentRoundTrip`: a `TestingGetState` that returned nil reports every
  segment with the nodes it was inserted with, across a delete, the sequence
  restart and a second insert that reuses alias 1 for another node.
* `CSVAllApplied`: a confirmed `--csv` run that returned nil reached every
  user the file lists. Only empty records and a first row that is not an
  email are skipped. The latter is the header rule of `entitlements.go:327`,
  which also drops a mistyped first email from a file with no header.
* `SnapshotHonoured`: a result of a request with AsOfSystemTime equals the
  tallies at that time.

**Findings.**

1. The Spanner direct query ignores `AsOfSystemTime`
   (`accounting.go:138`); TLC shows a request pinned at time 1 reading a
   write committed at 2, while the partitioned strategy honours it.
2. `TestingBatchInsertObjects` groups by `reflect.TypeOf(adapter)`
   (`raw.go:296`); with Cockroach and Postgres adapters together every row of
   that type goes to the first, splitting a project and duplicating its tally.
3. `blobWriter.Commit` sets `closed` and then returns on a flush error
   without closing the handle or the leak tracker (`blob.go:134`, the TODO);
   `Cancel` afterwards is a no-op.
4. `processAllUsers` pages by page number; a user deactivated after its page
   shifts the offsets and a user active throughout is skipped, while the
   command returns nil (`entitlements.go:429`).
5. The inversion of a placement-to-product map keeps one placement per
   product, chosen by map order (`entitlements.go:261`).
6. `TestingBatchInsertSegments` writes every segment through
   `ChooseAdapter(uuid.UUID{})` (`raw.go:587`), so a segment of a project
   owned by another adapter is stored apart from its object.

With `DeleteAloneOnly = FALSE`, TLC also violates `AliasesResolvable` in six
states: an insert ensures its aliases, `TestingDeleteAll` deletes the alias
rows, and the insert then copies rows whose aliases nothing resolves. The
helpers are test/ops code that is not run against concurrent writers, so
this is listed as a hazard, not a finding.

**Bounds.** Metabase: two projects, two buckets, three streams (two in one
bucket, one with an expiry at time 2 so the `expires_at > Now` boundary is
crossed), two adapters, times 0..4 (three commits), two partitions (enough to
split a bucket), five ranges including From = To, an inverted bucket and an
inverted project. The raw run uses strong direct reads only and chunks of one
row, so that a two-row input needs two calls per type. Blob writer: a buffer
of 2 and writes of up to 3 bytes, so a write can fit, overflow a partly full
buffer, or go straight to the file; at most 5 bytes; a reader closed at most
twice, so that the close without a closed flag is repeated. Mud: three components,
enough for a middle one to fail, two of them config components, so that
Execute meets both created and fresh components; the service 3 depends on
config 1; the flag is empty (the service) or selects 2 and 3; three commands:
no preset selector, a preset selector {1}, and a config-list-like one that
initializes the whole ball and runs only the service, so that Setup creates
a component Execute never visits. Entitlements: each flag check is given one
failing input (both targets, bad JSON, a placement 7 without self-serve
details, an unpriced product 3), and three users with one project
each, pages of one user, one status change: the smallest setting in which a
change between pages shifts a later user. There are two CSV files: a header,
two users and an empty record; and a user followed by an invalid email. Segments: a Postgres adapter
holding the aliases and a Spanner adapter, two segments on different nodes,
batches of one row, two inserts, one delete and one read: enough for the
sequence restart to reuse an alias. The raw run explores about 3.4 million
states in about a minute; every other run ends sooner.

**Fairness.** The metabase, raw, segments and blob runs check safety only. MudCommand
assumes weak fairness of Execute, of the close goroutine and of the timer,
which the Go scheduler and `time.After` give; a run goroutine is only assumed
to return once ctx is cancelled or its component closed, and the signal is
not assumed. Entitlements assumes weak fairness of the command's own steps,
not of the status changes. The mud, entitlements and segments runs disable the
deadlock check because the program really stops once Execute, the
command or every bounded helper call has returned.

## Not modelled yet, and plan

Left out on purpose:

* The row encoders `copyFromRawObjects`/`copyFromRawSegments` and the Spanner
  column widening. Rows are abstracted to their identity, so these conversions
  have nothing to act on.
* Logging, the wording of the confirmation prompt, and the goroutine dump
  written on a shutdown timeout.
* `TestingGetAllSegments` reads `db.aliasCache` once per call, where
  `raw.go:119` re-reads it for each adapter. The two differ only if a delete
  replaces the cache during a dump, which the segments run's callers
  (`DeleteAloneOnly`) never do.

In order of importance:

1. Concurrent `EnsurePiecesToAliases` callers on the node alias cache
   (spec-modelled), with a refinement to an abstract append-only injective
   map. The raw helpers have only one inserter, so this needs callers from
   outside `src/`.
2. The objects and segments halves of the raw helpers in one module, so that
   `TestingGetState` can be checked against a dump of both tables (the
   objects half is checked by `QuiescentDumpExact`).

The storjscan client, the config generator, the checker's dependency
registration and the repair queue test helper hold no state a model checker
would explore.
