# TLA+ verification of little-big-files

little-big-files stores XML and ZIP packages in append-only segment files. It
deduplicates their contents by hash, keeps metadata in Postgres, and spreads the
load over shards behind a coordinator. The modules here are translated from the
Go sources; `PROJECT.json` maps each definition to the lines it models.

## The system and its parts

A shard (`cmd/server`) takes `POST /v1/packages`. `internal/ingestion` looks the
body's hash up. A known body becomes a *clone* of the package that has it. A new
XML or small ZIP is stored in one transaction, a new large ZIP is stored raw and
unpacked later by `UnpackQueue`, which then completes the clones made meanwhile.
Each content goes through `BlobStore.StoreOrRef`: the dedup index and
`content_blobs` are consulted, and a new content is appended to a segment file
(`SegmentManager`, optionally through `WriteBuffer`), inserted in Postgres, and
entered in the segment's index file. After the commit a snapshot of the package is
appended to the ingest journal. `recovery.Rebuild` restores the tables from index
files and journal.

The coordinator keeps one row per shard (standby, active, sealed). It
proxies a POST to the active shard and enters the package in its global index.
A seal loop, administrators, registering shards and POST requests all change the
rows, with HTTP calls to the shards between their database steps. A replica reads
the same tables and has copies of the segment files, which `cmd/shard-sync` renews
round by round.

| Part | Source | Module |
|---|---|---|
| Segment files, write buffer | `internal/storage/segment.go`, `write_buffer.go`, `record.go` | `Segments` |
| Segment index file | `internal/storage/segment_index.go` | `SegmentIndex` |
| Blobs, reference counts, dedup index | `internal/storage/blob_store.go`, `internal/dedup`, `internal/metadata/repo.go` | `Blobs` |
| Packages, clones, unpack queue | `internal/ingestion`, `internal/metadata/repo.go` | `Packages`, and `PackageTable`, what they promise of the table |
| Rebuild from the journal | `internal/recovery/rebuild.go` | `PackagesRebuild` (extends `Packages`) |
| Journal file | `internal/recovery/journal.go` | `Journal` |
| The two files Rebuild reads, together | `internal/storage/blob_store.go`, `internal/ingestion/package.go` | `Recovery` (composes `SegmentIndex` and `Journal`) |
| Shard registry, seal, promotion, proxying | `internal/coordinator`, `internal/api/shard.go`, `cmd/server/main.go` | `Registry` |
| Global ids | `internal/globalid` | `GlobalIds` |
| Replica: copy loop, `ReadRecord` with its handles | `cmd/shard-sync`, `internal/storage/segment.go`, `internal/api/shard.go` | `Replica` |
| Compression dictionary and its sidecar | `internal/compress` | `Dictionary` |
| Write guard, disk gate | `internal/api/shard.go`, `internal/diskspace`, `cmd/server/main.go` | `Guard` |
| Start and life of a shard server | `cmd/server/main.go` | `Server` (composes `Dictionary` and `Guard`) |

`MCSegments`, `MCBlobs`, `MCPackages`, `MCRegistry`, `MCReplica` and `MCServer` only give
the constants values; `Recovery` is run as it is. `PackagesTable` instantiates
`PackageTable` with the packages of `Packages`. The proofs are in `SegmentsLemmas`
and `SegmentsProofs`, `BlobsProofs`, `PackagesProofs`, `RecoveryProofs`,
`RegistryProofs`, `ReplicaProofs` and `ServerProofs`. Definitions
under a comment `Mutant:` are faulty variants of the definition that follows; no
specification uses them, and `PROJECT.json` names the property each one breaks.

## The modules

**Segments.** A file is a set of items (record, footer, torn bytes) with offsets;
`synced` is the part on stable storage. A flusher (a request that filled the
buffer, the flush loop, Close, or a direct append) goes through Flush by its
`stage`: it waits for the mutex, appends record by record, rotates, opens the
next file, syncs, delivers. Every write, fsync and open may fail; a crash loses or
damages any part of what was not synced. `Open` is `scanValidTail` with the
truncation. A write that fails leaves nothing, or garbage at its offset.

**SegmentIndex.** An entry is two halves and a footer one cell, so that a cut
write leaves a misaligned file. `Append` is `OpenAppend`, then `Truncate` and
`Rewrite` when there is a footer to strip, then `WriteEntry` and `WriteFooter`.

**Blobs.** One ingest transaction per process, each statement a step, with the row
locks of Postgres, its deadlock detection and READ COMMITTED visibility
(external to the repository, modelled as the statements use them). The HotIndex
is two sets: what its store has and what its Bloom filter admits; a restart may
rebuild it, find it as it was, or run without it. `spoiled` and `drift` are history:
ZIP members whose index entry could not be written after their row was.

**Packages.** Each query and each transaction of ingest and of the unpack worker is
a step. `LoadRow` and `LoadFiles` are the two queries of `GetPackage`. Ids are
taken before the commit, so packages become visible in any order; the sequence
ends at `MaxId`, and a request that finds no id left fails. The journal is a sequence
of snapshots.

**PackagesRebuild.** `Run[n]` is what Rebuild has made of the first n entries and whether
it got there, `Rebuilt` the same for the whole journal.

**PackageTable.** One variable, the table. A package is created or cloned from a root,
unpacked once and at once, and a waiting clone is completed once, to what its
canonical package is. `PackagesTable` states that `Packages` implements it, with the
table as its `packages`: everything else of `Packages` is invisible to a reader.

**Journal.** The file as a sequence of lines' texts, cut-off texts and newlines; `Lines`
has the longest pieces without a newline, as pairs of positions. Entries
in `Long` make a line that the scanner of `ReadJournal` does not take.

**Recovery.** `SegmentIndex` and `Journal` as instances: a request journals its package
after its content is in the index, several requests overlap, and a crash interrupts
both files and ends every request.

**Registry.** One process per seal loop, administrator, client and starting shard;
each database transaction, each HTTP call and each lock section is a step.
`readOnly` is the flag in a shard's memory, `state` the row in the registry. A global id
is built with `Encode` of `GlobalIds`, and a proxied GET takes it apart with `Decode`;
the widths are constants.

**Replica.** The segment files of a primary that appends, rotates, syncs and restarts
(with what `scanValidTail` leaves), the rounds of `syncOnce` (list, compare, download, rename, file by
file) and readers in `ReadRecord` with the handles they share. `same` has the
segments whose cached handle passes the test of size and time.

**Dictionary, Guard, Server.** `BootstrapEncoder` step by step with the sidecar's two
files, the table and a replica that trains too; a loss of power may tear the pointer.
The guard with its flag and its reason, the gate that measures and then sets the reason, and
requests that ask for both one after the other. `Server` is `main`: one after the other, with an
end of the process at any step.

## Runs

| Run | States | Checks |
|---|---|---|
| `Segments` | 1,138,478 | Three records, one longer than a segment, buffered or not: `AckedSurvives`, `NoSharedLocation`, `FilesBounded`, `OlderSegmentsFrozen` |
| `SegmentsLive` | 20,338 | `EveryAppendReturns` |
| `Blobs` | 34,338 | Two ZIPs sharing contents: `RefCountAccounted`, `BlobsRecoverable`, `BlobsStable`, `EveryRequestEnds` through deadlocks |
| `Packages` | 265,556 | Two large ZIPs, two workers, a queue of one: `CanonicalIsRoot`, `ClonesEqual`, `PropagateApplies`, `NoConcurrentUnpack`, `ImplementsTable`, `OriginalsUnpacked` |
| `PackagesJournal` | 1,102,275 | Two requests for a large ZIP, a small ZIP or an XML, with the journal: `RowMatchesFiles`, `AckedJournaled`, `JournalSound`, `RebuildSound` |
| `Registry` | 88,512 | Four processes, three shards, a shard that stops: `OneActive`, `SealedIsReadOnly`, `AckedFound`, `SealedDrains`, `ActiveRestored`, `FullSealed` |
| `Recovery` | 169,475 | `IndexExact`, `ReadersSeePrefix`, `JournalComplete`, `RestoredHaveContents` |
| `Replica` | 1,025,247 | Two readers, two segments, two records: `CoveredReadable`, `NoStaleHandle`, `ReplicaConverges` |
| `Server` | 781,047 | Two dictionaries, a request, a disk of four sizes: `SidecarDecodes`, `TableDecodes`, `GateSteady`, `ForbiddenMeansReadOnly`, `AllowedWithSpace`, `ServerStarts`, `GateFollows` |

The type invariants of the modules are theorems (the run `Recovery` checks that of its
module as well); so are `PackagesMonotone`, `StandbyFresh` and `Lifecycle`, which no run repeats. A comment before
each property says what it states.

Three runs state what a document or a comment says of the program, and TLC finds a
behaviour of the code that violates it (`findings` in `PROJECT.json` quotes the lines):

- `SegmentsAckedLost`: Close writes a footer, the next start appends behind it, and the
  start after a crash stops its scan at the footer and cuts the file there. Records
  whose Append had returned are gone.
- `PackagesStuckClone`: a clone that commits behind the propagation stays `raw_large`,
  and the recovery scan does not list clones.
- `RegistryReopened`: the seal loop writes `active` over a shard that was sealed while
  its statistics were fetched.

### What the conditions in the properties stand for

Several passing properties carry a condition because the code does not give more.
Each condition is the exact place where the stronger statement fails:

- `AckedSurvives` and `NoSharedLocation` exempt records behind a footer of their own
  segment (see above; the location of a lost record is given out again).
- `RefCountAccounted` and `BlobsRecoverable` have `drift`: when the segment index or the
  HotIndex fails for a ZIP member, `persistZipMembers` stores an unpack error and
  commits, with a reference counted for a file that does not exist, or with a blob that is
  not in the index (`unpack_large.go:57`, `blob_store.go:117`).
- `RowMatchesFiles` exempts `file_count` of a package with an unpack error, which is
  fixed at 2 (`unpack_large.go:63`), and the error of a small ZIP, which
  `ingestSmallZIP` does not write to the row (`package.go:300`).
- `RebuildSound` speaks of journals that no foreign key refuses: requests journal in any
  order, and a clone may be journaled before its canonical package, or without it
  after a crash, which ends Rebuild (`rebuild.go:85`). It says nothing of the storage
  mode, because a snapshot from before the unpack may be journaled last.
- `IndexExact`, `ReadersSeePrefix` and `RestoredHaveContents` hold until a write to the index
  file is cut short: `openAppend` rewrites the file in place, and an entry written to a
  file without a footer goes to its start (`segment_index.go:137-159`).
- `JournalComplete` holds until an entry is appended to an unfinished line: then
  `ReadJournal` refuses the file (`journal.go:105`). Until then it refuses exactly the
  files with a line that is too long (`journal.go:99`).
- `SealedIsReadOnly` and `SealedDrains` hold until a shard restarts, which forgets its
  seal if the registry was not written yet (`main.go:128`). `SealedDrains` is not
  "gets no more packages": a request past the guard still stores its package.
- `ActiveRestored` speaks of a registry without an active row: an active shard that is
  down is never replaced (`registry.go:330`).
- `FullSealed` exempts a first standby that is down, since `SealAndRotate` tries no other
  (`registry.go:405`).
- `CoveredReadable` and `NoStaleHandle` exempt the records that the primary has lost
  (`lost`), and reads whose handle another reader closed (`segment.go:331`), which fail
  and can be repeated. A restart of the replica takes what it cuts off a copy
  (`segment.go:159`) out of `covered` until the next round has ended.
- `SidecarDecodes` holds as long as the primary has never run without its sidecar: the
  error of `Sidecar.Save` is ignored (`bootstrap.go:35`), a loss of power may take the
  pointer, and the row that is used then may be one that a replica trained
  (`bootstrap.go:50`). `TableDecodes` covers that case while the table has one dictionary.
- `AllowedWithSpace` exempts a server whose first measurement failed (`main.go:185`).
- `ForbiddenMeansReadOnly` exempts a request that the gate overtook: the middleware asks
  for the reason twice (`shard.go:80`).
- `ServerStarts` exempts a `current.json` torn by a loss of power (`sidecar.go:64`).

### Bounds

Records have sizes 1 and 2 in segments of 5 with a footer of 1, so that a segment
can be closed, opened and continued; the third record has size 6 and gets a
segment of its own. Segment ids end at `MaxSegments` = 3, one more than the
records can force. Crashes and
restarts of `Segments` are not bounded: a record is appended once, which makes
the state space finite. `MaxFaults` bounds crashes and failed
jobs of `Packages` and failed calls of `Registry`; one is enough for each
behaviour listed above. `Recovery` has up to four appends and two interrupted calls
per file: one that damages a file and one that builds on it. `MaxPackages` = 1 makes a
shard full after one package. `MaxStops` bounds stops of shards. `Replica` has two
segments and two records, so that one file is rotated away and one grows; two faults
let a restart of the primary and one of the replica, or a failed round, follow each
other. `Server` has two dictionaries, one for the primary and one that a replica
trains, a disk of 0 to 3 with `MinFree` 1 and `Hysteresis` 2, and one failed step,
crash or loss of power. Symmetry is
used only among requests with the same body and never for liveness. Deadlock
checking is off where requests are finite and the system may come to rest.

### Fairness

- `Segments`: the ticker fires, goroutines inside Flush and Close go on. Nothing is
  assumed of clients, crashes or starts.
- `Blobs`: a transaction that has begun goes on, and Postgres breaks deadlocks.
- `Packages`: workers and the recovery loop run. Requests may stop anywhere.
- `Registry`: operations that have begun go on (each HTTP call has a timeout), and the
  seal loop ticks. Clients, administrators and shards need not act.
- `Replica`: shard-sync goes on with its rounds. The primary, its restarts and the readers
  need not act.
- `Server`: the start goes on and the ticker of the gate fires.

All fairness is weak.

## Theorems

Each theorem holds for every value of the constants; the assumptions are the named
ASSUMEs of the modules (sizes are positive, limits are numbers, model values are
distinct), which TLC evaluates in the runs.
A leaf that names no prover is left to Zenon (`USE ZenonT(30)` opens each module of proofs); those
about numbers, sequences or EXCEPT name the SMT solver, and the last step of a temporal theorem names PTL.

**Segments** (`SegmentsLemmas`, `SegmentsProofs`): `TypeCorrect`,
`Durability` (`AckedSurvives`), `Locations` (`NoSharedLocation`), `Untouched`
(`OlderSegmentsFrozen`), `Bounded` (`FilesBounded`).
`AckedSurvives` is not inductive: it says nothing of the records that will be
acknowledged next, of what is synced, or of where the next write goes. The
invariant `IInv == TypeOK /\ QInv /\ Durable` adds

- `Queued`, `Mutex`, `Holding`: a request is in one place at a time, one flusher has
  the mutex, and an unfinished flush means a running process;
- `Active`, `Files`: the write position lies in the newest file; in each file the
  synced items come before the others and before garbage, items do not
  overlap the write position, no two start at one offset, and any set of them has a
  first one (`Ordered`);
- `AckedSafe`, `BatchSafe`, `DirectWritten`: an acknowledged record, or a footer before
  it, is synced and out of reach of the next write; a record that is about to be
  acknowledged is so too, or is written and its batch still holds the mutex.

The proof follows the layers. `SegmentsLemmas` has the lemmas about one file
(`WrittenShape`, `FailedShape`, `CutKeeps`, `CutShape`, `CrashShape`) and shows
that every step keeps `TypeOK` and `QInv`, and that rotation and appends keep `Durable`;
`SegmentsProofs` has the other actions, one lemma each, then `IInvStep` and the theorems. `CutKeeps` is the heart: truncation at the end that `scanValidTail` finds
removes no synced item before the first footer.
`HolderStep` is the frame that rotations, writes and syncs share: a step of the flusher
that changes the active file only, as `ActsOn` says, keeps what the invariant says of the others.

`Untouched` needs that an older file is on stable storage, all of it, and holds something (`Older`):
then a crash takes neither the file nor anything in it. `Bounded` follows
from where a footer may lie (`Placed`): the first one of a file where the size test left room
for it, a later one where a start stopped at an earlier one, or garbage. The write
position is always such a place (`Sized`), also after a write that failed, a crash and
the cut of `scanValidTail`.

**Blobs** (`BlobsProofs`): `Types`, `Accounted` (`RefCountAccounted`), `Recoverable`
(`BlobsRecoverable`), `Stable` (`BlobsStable`). The tables change at a commit only, so the
invariant has to say what every open transaction is about to commit: what it
has added to `ref_count` is what it wrote to `package_files`, the item it is at and the member it
spoiled (`Balanced`, `Late`); it refers to rows that it sees (`Sees`); a row it has inserted is
locked by it, is not committed, has its record and, unless it is being written or was spoiled, its
index entry (`Owns`, `Points`). `OthersKeep` is the frame: a step of one transaction
keeps this for the others, because the locks keep them apart.

**Packages** (`PackagesProofs`): `Types`, `CanonicalRoots`, `EqualClones`,
`Applies`, `OneUnpack`, `Sound`, `Monotone`, `Rows`, `Acked`, `Rebuilds` prove the invariants of
the runs and `PackagesMonotone`; `Refines` proves `ImplementsTable`: an initial state maps to one, and
each step to `Create`, `Clone`, `Unpack`, `Complete` or a stutter. The invariants speak of what a
request or a worker holds between two queries: a snapshot is no more than the
package was then and all of it once it is unpacked.

`Rebuilds` (`RebuildSound`) is about a loop over a journal of any length. The prover has no
induction over sequences, and none is needed: the journal grows by one entry at a time, so
the run of Rebuild is followed from state to state (`Running`). There is a function
that satisfies the equation of `Run`, and every such function ends in rows that hold each entry
of the journal and nothing that the packages lack (`Restores`). An `Append` adds one application of
`restoreJournalEntry` (`Restoring`, `RunGrows`); other steps only add to the packages (`RunKept`).

**Recovery** (`RecoveryProofs`): `Typed`, `Exact` (`IndexExact`), `Prefixes` (`ReadersSeePrefix`),
`Complete` (`JournalComplete`), `Restored` (`RestoredHaveContents`), for any number of appends,
interruptions and overlapping requests. The invariant has a part per file and one that
joins them:

- `IndexTypes`, `IndexInv`: at each step of `Append` the index file is, cell by cell, the first
  entries and what this step has written or cut off, as long as no write was cut short;
  `kept` has what the rewriting still needs;
- `LogTypes`, `LogInv`: the journal is texts and newlines with a newline behind every text
  that is followed by another one, and the text of each acknowledged entry is a line of its own;
- `Behind`: what is in the journal, or about to be, was in the index before.

What `ReadIndexFile` and `ReadJournal` return then follows from the form of the file: the number
of its cells and its last cell for the index, the maximal pieces without a newline for the journal.

**Registry** (`RegistryProofs`): `Types`, `Single`, `Fresh`, `ReadOnly`, `Stages`, `Drains`, `Routed`,
and `RoundTrip` of `GlobalIds`. The invariant says what an operation has read and may rely
on between its transactions, under `rotationMu` or without it. `Routed` is `AckedFound` as long as ids fit their
widths; beyond them `Encode` is not injective.

**Replica** (`ReplicaProofs`): `Typed`, `Covered` (`CoveredReadable`), `Fresh` (`NoStaleHandle`).
The two properties speak of a reader that has failed; the invariant says why none
does. The primary has at its location just each record that it has not lost (`Primary`); what was
committed when a round began was in its listing and is in every copy that the round has passed
(`Round`), and what is about to be renamed has all that the copy has (`Coming`), so a copy is
never replaced by less (`Covers`). One reader at a time opens a file, and a cached handle
that passes the test of size and time is one of the copy that is there (`Handles`). A
record that is still to be written is in no file, so a location that is used again confuses nobody.

**Server** (`ServerProofs`): `Typed`, `Steady`, `Forbidden`, `Space`, `Sidecar`, `Table`. Each time the gate
has moved, the disk has been beyond one of its two thresholds (`DiskInv`). While the primary has its
sidecar, every record was compressed with the dictionary that the pointer names (`SidecarInv`);
every dictionary in use has a row (`TableInv`).

Only model-checked: liveness (`EveryAppendReturns`, `EveryRequestEnds`, `OriginalsUnpacked`,
`ActiveRestored`, `FullSealed`, `ReplicaConverges`, `ServerStarts`, `GateFollows`), since the prover
has neither fairness nor ENABLED. Every invariant and action property of a passing run, and
the refinement, is a theorem.

## Not modelled

- The codec and the training of `internal/compress`, which are a library.
- Read handlers of the API, reads from replicas by the coordinator's choice of URL.
- Ingest without an unpack queue, supplier statistics, ZIP parsing, configuration,
  metrics, command-line tools, the Python clients.
- Registration of two new shards at the same time, and the index files that shard-sync
  copies next to the segments.

## Plan

1. The unpack queue on a sealed shard, which composes `Packages` with `Registry`.
2. Abstract specifications: an append-only log for `Segments`, a counted set for `Blobs`, a
   single-writer register for `Registry`.
