# TLA+ verification of fossil-core

fossil-core keeps reviewed engineering knowledge as immutable events in packs,
projects the events into a graph that can be thrown away and rebuilt, and hands
coding tasks to local agents through a GitHub issue. This directory holds TLA+
models of the parts of it where order, failure and concurrency matter, TLC
configurations that check them on small instances, and TLAPS proofs of the
results that matter most for every size.

Paths below are relative to the repository's `src/fossil_core/` unless they
begin with `scripts/` or `docs/`.

## 1. The system

### Components, state, operations

| component | state | operations | modules |
|---|---|---|---|
| filesystem event store (`adapters/filesystem/event_store.py`, `io.py`) | one file per event, one tombstone file per redacted event | `commit`, `redact`, `get`, `iter_events`, `iter_redactions`; `publish_immutable` | `DurableEventStore`, `EventContract` |
| S3 stores (`adapters/s3/storage.py`) | objects of one bucket | `put_immutable`, `commit`, `redact`, paged `iter_events` | `S3Storage`, `EventContract` |
| artifact store, sources, redaction policy (`adapters/filesystem/artifact_store.py`, `source.py`) | blob, manifest and tombstone per artifact; snapshots | `put_bytes`, `redact`; `put_snapshot`, `create_citation`, `resolve_citation`, `event_visible`, `export_snapshot` | `ArtifactStore`, `SourceStore` |
| event contracts, ontology, lifecycle, promotion (`domain/*`) | the durable log and what it means | the commit gate, event builders, `replay`, `mark_dependents_stale` | `Ontology`, `EventGate`, `Lifecycle` |
| node: agents, ingest route, readiness (`agent.py`, `adapters/mcp`, `runtime/network.py`, `application/ingest/reviewed_evidence.py`) | log, stored snapshots, requests under way | `commit`, `propose_promotion`, `ingest`, erasure, readiness probe | `KnowledgeNode`, `ProjectionOps` |
| pack audit and corpus (`pack_fixture.py`, `application/rebuild/pack_corpus.py`) | none | audit of a pack set, documents as of a moment | `PackCorpus` |
| projector (`runtime/projector.py`, `projection/graphiti.py`, `projection/ledger.py`) | ledger records per build, the external graph | `run_once_async`, `run_forever`, apply, remove, purge, sweep, `rebuild_async` | `Projector` |
| projection migration (`projection/migration.py`) | append-only switch records | compare, `record_switch`, `active_slot`; `destructive_rebuild` | `ProjectionOps`; `Projector` |
| shared chats and conversations (`application/ingest/shared_chat_capture.py`, `scripts/ingest_shared_chat_reconstructions.py`, `conversation.py`) | receipts, envelopes, lineages, events | build and validate receipts, import, span resolution, `commit`, lineage queries | `CaptureGraph`, `SharedChatIngest`, `Conversation` |
| pack set lock (`domain/packset.py`, `application/ingest/pack_validation.py`) | a catalog of manifests, a lock file | dependency law, `build_packset_lock`, `validate_packset_lock` | `PackSet` |
| queries (`application/query/*`) | one query, its receipt, a kept receipt | retrieve, canonicalize, expand, run the model, record, compare | `Query` |
| agent reads and proposals (`agent.py`, `domain/pack.py`) | the event log as sessions see it | `search`, `context`, `read`, `lineage`, `propose`, `validate`, `commit` | `AgentReads` |
| trusted local broker (`trusted_local_*.py`, `scripts/run_trusted_local_broker.py`) | comments of one GitHub issue, draft pull requests, the broker's locals | `run_once` request by request | `TrustedLocalBroker` |
| privileged verifier (`privileged_local_verifier.py`, `scripts/run_privileged_local_verifier.py`) | the same issue, child processes | `run_once`, `run_verified_action`, `closeout` | `PrivilegedVerifier` |
| broker supervisor (`trusted_local_supervisor.py`, `scripts/run_trusted_local_broker_supervisor.py`) | the broker's container, release directives | one pass of `main`; `apply_release` | `BrokerSupervisor` |
| retrieval, providers, evaluation, engineering checks, proof scripts | none, or one process's locals | scoring, HTTP calls, reports | not modelled |

### How they interact

Writers (the ingest route, agents, imports) call `commit` and `redact` of the
event store from any number of processes; the files are the only shared state.
The projector reads the store with `iter_redactions` and `iter_events`, calls
the graph client, and writes its ledger, which the readiness probe reads. A
rebuild replaces graph and ledger build together; a migration switches readers
from one build to another. Sources live in the artifact store, and the redaction
policy hides events whose cited source is redacted. Queries and agents read what
was committed, within the packs they mount. Brokers, verifiers and the
supervisor never talk to each other: all read the comments of one issue, the
first two append to it, and the supervisor replaces the container the broker
runs in.

### What is hard

- Calls are cut by other processes, crashes and power losses between any two
  system calls: existence test, link, directory fsync, unlink.
- An `await` of the graph client can fail after it took effect, and the process
  can die before the ledger record that should follow.
- Brokers act on readings of the issue that are old by the time they act; claims
  expire; a request can land although it reported an error.
- A reviewed batch, an import and a snapshot are each several publications: a
  crash leaves a part, and the retry meets it.
- Locks, receipts, spans and retrieved items are what somebody else wrote: they
  are checked later, after catalog, corpus or artifacts have changed.
- The supervisor's swap is a list of docker commands with a rollback in the
  middle; a failing inspection reads as "not there".

`PROJECT.json` lists each hazard at its line with the property that would catch
it, or the reason why there is none.

## 2. The modules

### `EventContract` and `DurableEventStore`

`EventContract` is the promise to a reader: each deterministic identity is a
register written at most once and then perhaps erased for ever, and an
acknowledgement is given only for what the register holds.

`DurableEventStore` cuts `commit` and `redact` at their system calls. `event`
and `tombstone` are the files other processes see; `eventDisk` and
`tombstoneDisk` what a power loss would leave. `acked`, `ackedSynced` and
`erased` remember what callers were told.

| action | code |
|---|---|
| `CommitBegin` | `commit` up to the `is_redacted` test |
| `CommitPublish`, `CommitFsync` | `publish_immutable`: link, directory fsync |
| `CommitCompare` | the comparison with the file that was there first |
| `RedactBegin` | `redact` up to the existing-tombstone branch |
| `RedactRead`, `RedactPublish`, `RedactFsync`, `RedactUnlink` | hash, tombstone, fsync, unlink |
| `Crash`, `WriteBack`, `PowerLoss` | process death; kernel write-back; power failure |

`fsync_directory` is best effort (`io.py`, lines 8 to 18): when the directory
cannot be opened it returns silently, and the publication reports success. So
`CommitFsync` and `RedactFsync` each have a second way to go on, without anything
on disk; `unsynced` remembers the identities whose redaction went on like that, and
`ackedSynced` leaves such commits out. `PowerSpec` is the one specification:
callers, deaths, the kernel writing files back when it likes, and at most
`MaxOutages` power losses, counted by `outages`. A parent directory that `mkdir`
makes is taken to be durable with its first entry, which nothing in the code
syncs. Validation comes before the first of these
steps and changes nothing, so callers commit valid events; the identity is a
function of pack and idempotency key, so events sharing a key are different
contents under one identity. Exceptions end the call and leave the files alone.

### `Projector`

One coroutine works on the projection at a time (`worker`), in one of three
modes: a projector cycle, a `rebuild_async`, or a `purge_redacted_async` sweep.
Store actions (`CommitEvent`, `PublishTombstone`, `UnlinkEvent`, `HideEvent`)
are the visible file steps of the store module and may come between any two of
its steps. Each client call is a step with three outcomes: success, failure
without effect, failure with effect; `Crash` may cut it off either way. An event
is its position in `canonical_event_order`. The ledger's failure records are
written and never read, and are left out. `UuidMayLack` says whether the client
may answer without an episode uuid.

### `TrustedLocalBroker`

The issue is kept as what its readers derive from it (`ready`, `claims`,
`latest`, `ended`), each broker as the position and locals of `run_once`. Every
HTTP request is one step; `Land` is what the request under way does if it
reaches GitHub, so that `RequestFails` and `Crash` may happen with or without
effect.

- A claim leaves the set when it is released or expires. That loses nothing:
  the readers know renewals, and nothing sends one.
- Reading the issue and deciding on it is one step; what may happen afterwards
  comes before the next step.
- Which READY task a poll takes is left open (the code takes the oldest
  without a claim).
- Authors are trusted ones; PASS and BLOCKED results close a task alike.
- Time is `Tick`: it takes one unit from every lease and deadline. With
  `Prompt`, no time passes between a broker's poll and its launch.

### `PrivilegedVerifier`

The second lane over the issue. The issue is again what its readers derive, but
each comment goes through the readers' own loops (`parse_broker_ledger`): the
claims stay in the order they were posted, and a directive carries the number of
its comment, so that a poll takes the oldest and a repeated directive is a new
one. Every comment is a step, and
so is every reading. A coordinator that dies leaves its claim, its order and
perhaps a running child (`OrphanEnds`). Deadlines and leases are compared with
one clock (`PassTime`). `CANCEL` lines are left out because this lane's reader
skips them; so are `RENEW` lines, which nobody posts. `MCLocalLanes` runs the two
lanes over tasks of their own, one lane at a time.

### `BrokerSupervisor`

Revisions are numbered in the order they reach `origin/main`, images named by
revision, `Base` being the first installation. Each docker command of
`apply_release` is a step. `CommandFails` splits failing commands into the ones
whose error leaves `apply_release` (`CommandRaises`) and the ones the code reads
as an answer or catches (`CommandMisleads`). A revision's `quality` is chosen at
the start: not buildable, buildable but unhealthy, good. Assumed: `main` only
advances, a successful check stays successful, the bootstrap left a running
broker, and the host service starts a dead supervisor again. `Build` takes its
source from a local clone that the supervisor never fetches: `cloned` is the
newest revision the clone has, and `Fetch`, which is external, is somebody
fetching it by hand. A build of a newer revision raises.

### `S3Storage`

Every call is cut at its requests over one bucket: conditional put, get, delete,
and the pages of a listing. A request whose client gave up stays in the air and
may be applied later or never. The event part implements `EventContract`, like
the filesystem store.

### `ArtifactStore`, `SourceStore`

`put_bytes` and `redact` step by step: test, blob, manifest, tombstone, unlink,
with crashes between. `overlapped` marks artifacts whose redaction ran beside a
put, since that put may write the blob again. `SourceStore` adds snapshots,
derivations, citations and the visibility of events over it; the snapshot
identity is what the code hashes, so two puts can disagree on the rest.

### `Ontology`, `EventGate`, `Lifecycle`, `PackCorpus`, `KnowledgeNode`, `ProjectionOps`

A chain of extensions. `Ontology` and `EventGate` are the tables and conditions
of the commit gate: types, states, endpoints, actors, evidence, the promotion's
pin. `Lifecycle` is the replay of a set of events in canonical order as a recursive
function, with `raised` for a `LifecycleError`. `PackCorpus` is the audit and the documents
of a cutoff. `KnowledgeNode` has the actors: agents that offer events, requests of
the ingest route (source, validation of the whole batch, one commit per step,
answer), erasure, crashes. The log is the store's contract, not its files. A draft
whose text is in `Unencodable` (a lone surrogate, which JSON can escape) passes
validation and makes its own commit raise: the batch is refused as invalid with
the drafts before it in the log. `ProjectionOps` adds the readiness probe around
its await, which remembers whom the node had told "created" by then (`created`),
and operators that compare and switch projections. A switch carries the time its
operator's clock shows, any number up to `MaxStamp`; `seen` is the records the
operator had read and `from` the slot they gave.

### `CaptureGraph`, `SharedChatIngest`, `Conversation`

`CaptureGraph` is the receipt of a crawled page as pure operators, compared with
a reference definition of a complete forest. `SharedChatIngest` is the import
script publication by publication: receipt, source, envelope, lineage, event,
with two runs over different manifests. `Conversation` builds envelopes from
spans and messages, right and wrong, commits them and opens lineages over them
while artifacts are erased; bytes are symbols and one character has two. Its
breadth-first search is a recursive function of the rounds, each of which takes
the first path of the queue.

### `PackSet`

Manifests are published and withdrawn, locks built, edited and validated. The
depth-first search for cycles is the code's recursion as a function of its
depth: a call is what it leaves of the search, and calls no deeper than there are
packs, and one, suffice because a pack is on the stack once. It is compared with
what is upstream of a pack: what every set has that is closed under naming.

`Ordering` is `sorted()` for `PackSet`, `Conversation` and `AgentReads`: a member's
place is the number of keys up to its own.

### `Query`, `AgentReads`

`Query` is one run of `execute_query_with_receipt` and a second one compared with
it: what the retriever returns and the model says are inputs, also forged ones,
and so are the services named in a receipt (the reranker only when there was
something to rank, the model only when one ran). An output is its outcome,
claims, confidence and the text of the answer, which no receipt records. A digest is what it digests. `AgentReads` is the boundary's reading side: sessions
with mounts and skills, a retriever that may answer anything, other writers.

## 3. The runs

| run | specification and bounds | checks |
|---|---|---|
| `event_store` | `PowerSpec`; 3 callers, 1 identity, 2 contents, 2 requests, 2 power losses | `TypeOK`, `AcknowledgementsHold`, `SyncedAckSurvivesPowerLoss`, `ImplementsContract`, `DeletesWhatTheTombstoneNames`, `DiskTombstoneIsFinal` |
| `projector_safety` | `Spec`; 2 events, 1 crash, 1 client failure, 1 rebuild, policy, answers without uuid | `AppliedIsMaterialized`, `DuplicatesNeedInterruptions`, `UninterruptedPurgeIsClean`, `NeverAdvancesPastPending` |
| `projector_live` | `FairSpec`; the same bounds without policy, uuids always given | `EventuallyProjected`, `EventuallyPurged` |
| `broker_pair` | `LanesSpec`; 2 brokers, 1 task announced twice, 1 crash, lease 2, deadline 1, requests of any duration; or 2 verifiers, 2 comments of the owner out of a good, an unreviewed and an untrusted directive and a cancellation, 1 interruption, clock to 2 | `ExclusiveExecution`, `LiveOrderIsNewest`, `DuplicatePRsNeedInterruptions`, `OneVerificationPerOrder` |
| `broker_live` | `FairSpec`; 2 brokers, 1 task, 1 crash, 1 failed request, prompt requests | `ReadyIsResolved` |
| `supervisor_safe` | `FairSpec`; 2 revisions, 2 directives, 1 failing command, 1 crash, a clone that may be fetched at any time or never | `OnlyReviewedRuns`, `UninterruptedBrokerRuns`, `SoleReleaseTakesEffect` |
| `s3_objects` | `MCSpec` of `S3Storage`; 2 clients, 2 events or 1 artifact, 2 contents, media types and requests, 1 request applied late, pages of one key | `ObjectsKeepTheirWord`, `ScanIsComplete`, `ImplementsContract` |
| `sources` | `SourceStore` over `ArtifactStore`; 2 callers, 2 artifacts, 1 source, 2 media types and requests, 1 parent, 1 citation | `ArtifactsKeepTheirWord`, `EvidenceIsStable`, `HiddenStaysHidden` |
| `knowledge` | `MCKnowledge`; 2 packs, 13 events that agents may offer, 6 requests, 1 erasure, 1 crash, 2 operators, 3 switches, 2 clock readings, lag 1; one of seven groups of clients is active | `AnswersMatchTheLog`, `EventsKeepTheirAuthority`, `ReplayIsSound`, `PastIsReconstructable`, `ProjectionsAreServedRight`, `ServedRequestsAreAnswered` |
| `reading` | `MCReading`; one of five parts is active: 2 imports of 2 conversations, an envelope of up to 3 spans and 3 messages with every lineage over 4 positions, 3 packs with a lock edited once, a query or a query and its replay over 2 revisions, 4 sessions over 3 events | `CaptureIsHonest`, `ImportsAreSound`, `EnvelopeIsFaithful`, `LineageAnswersAreRight`, `PackSetIsExact`, `AnswersRestOnTheCorpus`, `ReceiptTellsTheRun`, `AgentsStayInTheirPacks` |

Two more runs end in a violation, each of what a document says of the code:

| run | specification and bounds | violated |
|---|---|---|
| `supervisor_second` | `FairSpec`; 2 revisions, 2 directives, no failing command, no crash | `ReleaseTakesEffect` |
| `supervisor_clone` | `FairSpec`; 1 revision, 1 directive, no failing command, no crash | `SoleReleaseIsHandsOff` |

`supervisor_second`: a directive for an older revision ends every pass before a
newer one is read. `supervisor_clone`: a release that stands alone never takes
effect as long as nobody fetches the local clone, so releases are not "hands-off".
Both are described under "findings" in `PROJECT.json`. `SoleReleaseTakesEffect`
holds because it asks for a revision that is in the clone.

`knowledge` and `reading` check several parts that share no state in one run: an
initial choice says which actors take steps, and the others stay where they
start.

Where several promises of one part belong together they are checked as one
property, whose conjuncts are defined and explained one by one in its module:

| property | conjuncts |
|---|---|
| `AcknowledgementsHold` | `AckedContentIsPermanent`, `AckedErasureIsPermanent` |
| `OneVerificationPerOrder` | `ExclusiveVerification`, `GenerationsTellAttemptsApart`, `DirectivesRunOnce` |
| `ObjectsKeepTheirWord` | `TypeOK`, `StoredIsReadable`, `ErasedStaysGone`, `DeletesOnlyBehindTombstones` |
| `ArtifactsKeepTheirWord` | `ArtifactTypeOK`, `StoredIsReadable`, `ErasedStaysGone` |
| `EvidenceIsStable` | `TypeOK`, `SnapshotHasEvidence`, `DerivationIsGrounded`, `CitationIsStable` |
| `AnswersMatchTheLog` | `KnowledgeTypeOK`, `ReceiptIsBacked`, `RefusedBatchLeavesNothing`, `EvidencePrecedesClaim` |
| `EventsKeepTheirAuthority` | `AgentEventsAreAttributed`, `PromotionMeaningIsFixed` |
| `ReplayIsSound` | `ActiveRelationIsLegal`, `DependentsAwaitReview` |
| `ProjectionsAreServedRight` | `ReadyServesTheCreated`, `SwitchesFormAChain` |
| `CaptureIsHonest` | `CompleteMeansWhole`, `BuiltReceiptIsValid` |
| `ImportsAreSound` | `IngestTypeOK`, `IngestedIsBacked`, `RerunsSucceed` |
| `EnvelopeIsFaithful` | `VerbatimIsQuoted`, `RepliesFollowTheirParents`, `OccurrencesAreDisjoint` |
| `LineageAnswersAreRight` | `PathIsShortest`, `BenchmarkMeansQueryable` |
| `PackSetIsExact` | `GraphLawIsExact`, `LockFreezesMeaning`, `ValidLockIsARebuild` |
| `AnswersRestOnTheCorpus` | `ContextIsDurableOrData`, `AnswerIsGrounded` |
| `ReceiptTellsTheRun` | `ReceiptNamesTheContext`, `ReceiptHoldsNoSecret`, `UnchangedReplayAgrees` |
| `AgentsStayInTheirPacks` | `RepliesStayInScope`, `ProposalsBindTheirActor`, `SearchSkipsNothing` |

The type invariants of `Projector`, `TrustedLocalBroker` and `BrokerSupervisor`
are theorems (section 4) and no run repeats them.

### Known gaps

Behaviours the models have, that a reader of the code should know of, and that
the properties above are therefore careful to allow:

- A crash between tombstone and unlink leaves the bytes of an erased event on
  disk and in `iter_events`; the retry of `redact` returns the tombstone and
  unlinks nothing. The S3 store does the same when its delete request failed.
- A `commit` that tested `is_redacted` before a tombstone was published can
  publish its event file after the unlink. `get` hides it; `iter_events` lists it.
- A crash between `add_episode` and `record_applied` leaves an episode that no
  later purge removes.
- A task cancelled between a broker's poll and its authorization is launched.
  The privileged lane does not read task cancellations at all.
- A verifier whose order was made late may run past its lease; a dead
  coordinator's child goes on. `ExclusiveVerification` names both.
- The acceptance of a relation is checked against its own endpoints, replay keeps
  those of the proposal. `ActiveRelationIsLegal` exempts them.
- A log may hold events that make its replay raise: nothing looks at claim states
  before a commit.
- A broker whose lease runs out while it publishes may still open its pull
  request beside that of a newer generation; publication has no time limit.
- An applied record without an episode uuid can never be purged, and then every
  cycle ends before its scan.
- An event hidden by policy after it was applied leaves the graph only by a
  sweep, which nothing schedules.
- Where a directory cannot be opened, nothing is synced and the call still reports
  success: a power loss may then take an acknowledged event, or an event together
  with the tombstone it was erased under. `SyncedAckSurvivesPowerLoss` and
  `DeletesWhatTheTombstoneNames` name that case. Nothing syncs the parents of a
  new directory either; the model takes them to be durable.
- A release of a revision that the supervisor's clone does not have raises on
  every pass until somebody fetches it (`supervisor_clone`).
- A batch with a text that cannot be encoded is answered 422 `invalid_ingest`
  after its earlier drafts were committed. `RefusedBatchLeavesNothing` allows the
  drafts before such a text and nothing else.
- `switched_at` comes from the caller or from any host's clock, and the active
  slot is that of the latest stamp: a switch stamped earlier than one its operator
  had read reports success and never prevails, and two operators who read the
  same records both succeed. `SwitchesFormAChain` exempts the first and allows
  the second only to operators who had not seen each other's record.
- The probe counts an event as served once its erasure is recorded, whether or
  not the projection has purged it.
- When nothing was given to the model, the receipt's context lists the candidates
  that security removed (`receipt.py`, lines 295 to 303), although
  `docs/implementation/2026-08-10-post-gate2-query-execution-receipt-proof.md`
  (line 55) calls it the "final model-bound context IDs".
  `ReceiptNamesTheContext` says which ids stand there in either case.
- The text of the answer is in no receipt: two replays that differ in nothing
  else compare as unchanged. `UnchangedReplayAgrees` speaks of outcome, claims and
  confidence.

### Why the bounds are enough to be interesting

Three callers give two racing writers and a redactor, or two redactors and a
writer, of one identity; identities share no file, and two power losses can take
first what a commit and then what a redaction left unsynced. Two events are what order needs, and one of them can be
blocked by the other. One crash and one client failure can fall on the same
event at different awaits, and a rebuild can follow either. With two brokers and
a lease of two ticks, a claim can expire before its order, during the work and
after the reconciliation, and both brokers can be past authorization together; a
second READY can come in the middle of an attempt. `MaxAttempts = 5` is never
reached in `broker_live`, so it cannot hide a stuck task there; in
`broker_pair`, where requests may outlast any lease, attempts can go on for ever
and five are more than two brokers need to overtake each other. Two revisions
let an older directive stand beside a newer one and a rollback return to a
non-initial image, and let the clone lag behind either. Three switches by two
operators with two clock readings let a record be published behind, beside and
before the ones it follows. With leases of 2, orders of 1 and a clock to 2, an order can
expire under a live claim, a claim can expire before, during and after its
action, and the next verifier can start beside an action whose order was made
late; leaving out either exception of `ExclusiveVerification` refutes it in this
instance. The offered events of `knowledge` hold a dependency with right and
wrong endpoints, states changed before and after it, a supersession, a second
content of one identity and two promotions, one of them illegal; every subset in
every order is a log. The inputs of `reading` hold for each check at least one
input that it must refuse. In the safety proofs none of the bounds plays a role:
they are arbitrary natural numbers.

Brokers may stop for good once no task is READY, an import ends, and everything
offered may be committed: these configurations switch deadlock checking off.

### Fairness

- `MCKnowledge`: weak fairness of each request's own steps, because the server
  runs a request it has accepted to its answer; after a crash the client posts
  again. Nothing is assumed of agents, erasures and operators.
- `Projector`: weak fairness of the worker's steps, because `run_forever` calls
  `run_once_async` in a loop and every client call returns or raises; and of
  `Restart`, because the node is run under a restarting service. Nothing is
  assumed of writers, sweeps and rebuilds. Failures are bounded in number.
- `TrustedLocalBroker`: weak fairness of each broker's steps (the polling loop
  of `main`), of `Restart` (the container's `--restart unless-stopped`) and of
  time. `Prompt` is needed here and only here: if every attempt's requests took
  longer than its 120-minute lease, no attempt could ever be authorized.
- `BrokerSupervisor`: weak fairness of the polling loop's steps and of
  `Restart`, the host service of the boundary document. Nobody is obliged to
  fetch the clone.

## 4. The proofs

Each `*_proofs` module proves, for every value of the constants allowed by the
`ASSUME`s of its model, an inductive invariant step by step and derives the
theorems from it.

| module | theorem | statement |
|---|---|---|
| `DurableEventStore_proofs` | `Types` | `PowerSpec => []TypeOK` |
| | `PowerSafety` | `PowerSpec => [](TypeOK /\ SyncedAckSurvivesPowerLoss)` |
| | `DiskTombstoneFinal` | `PowerSpec => DiskTombstoneIsFinal` |
| | `TombstoneBeforeDelete` | `PowerSpec => DeletesWhatTheTombstoneNames` |
| | `Refinement` | `PowerSpec => ImplementsContract` |
| | `AckedPermanent` | `PowerSpec => [](outages = 0 => AckedContentIsPermanent)` |
| | `AckedErasurePermanent` | `PowerSpec => [](outages = 0 => AckedErasureIsPermanent)` |
| | `Acknowledged` | `PowerSpec => [](TypeOK /\ AcknowledgementsHold)` |
| `Projector_proofs` | `AppliedSafety` | `Spec => [](TypeOK /\ AppliedIsMaterialized)` |
| | `BoundedDuplication` | `Spec => []DuplicatesNeedInterruptions` |
| | `OrderedProjection` | `Spec => NeverAdvancesPastPending` |
| | `CleanPurge` | `Spec => []UninterruptedPurgeIsClean` |
| `LocalLanes_proofs` | `ExclusiveSafety` | `Spec => [](TypeOK /\ ExclusiveExecution)` |
| | `LiveOrderNewest` | `Spec => []LiveOrderIsNewest` |
| | `FewPullRequests` | `Spec => []DuplicatePRsNeedInterruptions` |
| | `OneVerification` | `VerifierSpec => []OneVerificationPerOrder` |
| `BrokerSupervisor_proofs` | `ReviewedSafety` | `Spec => [](TypeOK /\ OnlyReviewedRuns)` |
| | `RollbackSafety` | `Spec => []UninterruptedBrokerRuns` |
| `S3Storage_proofs` | `CompleteScan` | `Spec => []ScanIsComplete` |
| | `ObjectsKept` | `Spec => ObjectsKeepTheirWord` |
| | `Refinement` | `Spec => ImplementsContract` |
| `SourceStore_proofs` | `ArtifactsKept` | `Spec => []ArtifactsKeepTheirWord` |
| | `EvidenceStable` | `Spec => []EvidenceIsStable` |
| | `HiddenStays` | `Spec => HiddenStaysHidden` |
| `Reading_proofs` | `SoundImports` | `IngestSpec => []ImportsAreSound` |
| | `HonestCaptures` | `IngestSpec => []CaptureIsHonest` |
| | `AgentBoundary` | `AgentSpec => AgentsStayInTheirPacks` |
| | `GroundedAnswers` | `QuerySpec => []AnswersRestOnTheCorpus` |
| | `TrueReceipts` | `QuerySpec => []ReceiptTellsTheRun` |
| | `FaithfulEnvelopes` | `ConversationSpec => []EnvelopeIsFaithful` |
| | `RightLineage` | `ConversationSpec => []LineageAnswersAreRight` |
| | `OnePackSet` | `PackSpec => []PackSetIsExact` |
| `ProjectionOps_proofs` | `HonestAnswers` | `OpsSpec => []AnswersMatchTheLog` |
| | `KeptAuthority` | `OpsSpec => []EventsKeepTheirAuthority` |
| | `ServedRight` | `OpsSpec => []ProjectionsAreServedRight` |
| | `SoundReplay` | `OpsSpec => []ReplayIsSound` |
| | `PastRebuilt` | `OpsSpec => []PastIsReconstructable` |

`IngestSpec`, `AgentSpec`, `QuerySpec`, `ConversationSpec`, `PackSpec` and `OpsSpec`
are the specifications that no run takes whole: `reading` and `knowledge` start one
group of actors at a time. Every step of those runs that touches this state is a
step of that part's next-state relation (`IngestNext` and so on), so the theorems
cover the runs; for `OpsSpec`, beyond them, all groups acting together. `Spec`
and `VerifierSpec` of the two lanes are taken by `broker_pair`, which chooses the
lane at the start.

**`StoreInv`.** The properties alone are not inductive. What is added: at each
position of a call, what it has read is still what it assumes (`CallInv`); at
most one caller is past a tombstone's publication for one identity
(`OneRedactor`), since the link admits one; and a tombstone on disk is the visible
one, while a synced commit's bytes are visible, or were erased under a tombstone
that is on disk or that its redaction could not sync (`DiskInv`). What readers are
promised holds until the first power loss (`outages = 0`), what the disk is
promised over any number of them. The refinement maps each identity to what `get` returns: the link is `Accept`, the
tombstone's link is `Erase`, the return of `commit` is `Acknowledge`, every
other step a stutter.

**`ProjectorInv`.** `WorkerInv` ties the coroutine's locals to the ledger (what
is being added has no applied record; what is being removed has a tombstone or
is hidden). `ScanInv` says that what a scan has passed is applied or redacted,
which is the order property one step early. `EpisodeInv` counts: an event has at
most the one episode its ledger record, made or about to be made, accounts for,
plus one per interruption.

**`CleanInv`**, on top of it: as long as nothing has crashed or failed, an event
has no episode before its record is made and afterwards only the recorded one
(`LedgerTells`), also in the middle of an add; so the one `remove_episode` of a
purge empties it, and nothing that is purged is ever added again.

**`BrokerInv`.** `ClaimInv` orders the claims of a task strictly and gives an
agent one per task; `HoldInv` says that a broker past its confirmation whose
claim still lives is the winner, because claims only arrive behind it and only
leave; `GenInv` bounds the generations that other brokers may still post by that
of the live holder.

**`PRInv`** is a count: the pull requests an agent has opened for a task, and
the one it may still open (`Due`: it is working on the task, or the task is READY
and it is not about to close it), are no more than the READY directives, crashes
and failed requests so far. Closing a task ends its directive, and that is the
step the property needs.

**`VerifierInv`** is the same argument for the privileged lane, on the readers'
own data: a list of claims in which a release removes the newest of its agent's
and time silences the rest. `LeaseInv` gives an agent at most claims of one lease
per task, so that a verifier past its second reading keeps winning until that
lease runs out. `GenerationInv` says that what a live claim holder is making is
newer than everything launched or about to be, and that two verifiers about to
launch differ; it needs the winner, because the generation alone is compared with
the newest order the ledger shows and not with the orders still to be posted.
`AttemptInv` ties each launch to its verifier while that lives. `OnceInv` counts,
per verifier and directive, the launches and the one that is still to come
(`Pending`); the directive's DONE or BLOCKED, posted before the release, is the
step after which none is.

**`SupInv`.** `PassInv` keeps the approval of the directive being applied,
`RollbackInv` that the captured image was itself reviewed, `SwapInv` what each
position of an undisturbed swap leaves of container and captured image.

**`BucketInv`.** A write promises the same whether its client still waits or has
given up (`WriteInv`): it deletes only behind a tombstone and publishes a
manifest or a tombstone only behind the bytes. These promises survive every
change an object can undergo (`ObjectStep`), so an abandoned request may be
applied at any later time. `ErasedInv` adds that no put of an erased key is
outstanding unless it overlapped the erasure; `ScanInv` that an enumeration has
everything due up to its continuation token, because tokens are keys and not
positions. The refinement is the filesystem store's with the object of an event
for its file.

**`SourceInv`.** `CallInv`, `ManifestInv` and `ErasedInv` are the same argument
for `put_bytes` and `redact`. `SnapshotInv` says that a snapshot is published
behind a manifest and after its parents; `WellFounded`, that every set of
published snapshots has one that is not derived from the set, which rules out
cycles without an induction over chains; `CitedInv` ties each citation to the
passage of the span it was made from. `HiddenStays` follows from what no step
takes back: the first tombstone and the first snapshot.

**`IngestInv`.** A name, once published, keeps its version. So what a run has
compared with its own version on the way stays equal to it (`Progress`), and a
run reaches the event only past the comparison of receipt, envelope and lineage.
`RerunInv` keeps that while only one version exists nothing can differ.
`HonestCaptures` needs only that what is crawled is a finite graph (`IsGraph`): the
rest is about every such graph. A chain of parents longer than the graph repeats a
node (pigeonhole), what lies between is a set the roots do not reach
(`ReachAvoids`), and so nothing is unresolved exactly for a forest
(`ForestIsResolved`).

**`AgentInv`** is short, since an answer is checked where it is made: ids tell the
events apart and a proposal carries its actor. The work is in what a scan
computes: an event's place is the number of ids up to its own, which is a
bijection (`Places`, `InOrderLists`), so a scan holds every event in order and its first
part leaves out only later ones (`SearchIsComplete`).

**`QueryInv`.** What the passes over a sequence compute for every length: each is
a recursive function on the positions `0..Len(s)`, its existence and the invariant
it keeps (`IsSecured` for the items so far) are shown by
`Upwards`, an induction by least counterexample that `WFMin` gives. Security
leaves documents once and data (`IsSecured`), lineage appends documents that a
relation before them names (`ContextIsGrounded`), and an output none of whose
claims is invalid resolves as a whole (`NothingInvalid`). When the model is given
nothing, every candidate was removed on the way (`NothingHandedOn`), so the ids in
the receipt are theirs. Two receipts with the
same dimensions then name the same ids, and an id names one document in the same
mounted revision.

**`EnvelopeInv`** keeps what `commit` and the lineage's reader checked (`Quoted`,
`Threaded`, `Grounded`). Under it lie two results about the model's functions: the
search for a text finds its occurrences one behind the other (`Searching`), and
the order of the announced ids puts every message behind its parent.

**`LineageInv`** is what was checked when the lineage was read; the work is in the
breadth-first search. `Frontier` is its invariant: the queued paths have no
detours and their lengths differ by one at most, everything no further than the
first of them is marked, and a marked node is the end of a queued path or all it
leads to is marked. A round keeps it (`FrontierGrows`, `FrontierMoves`), so a path that is found is as
short as any walk, and an empty queue means that the marked nodes are closed and
hold no end (`FrontierEnds`).

**`PacksInv`** ties a lock nobody edited to what was frozen with it and says that an
edited one still consists of records. The graph law rests on the depth-first
search: the packs on the stack lead to the one being visited, the packs done name
only packs done and none of them leads to itself (`Sound`, `Ready`), and stack and
calls left add up to the number of packs and one, so the recursion ends
(`VisitIsRight`, `HasCycle`). A lock is compared with a rebuilt one as a list: the
list of a finite set in the order of its keys is unique (`ListsIsInOrder`), so
records that agree one by one are the same lock (`LockIsTheBuilt`).

**`NodeInv`.** An identity is never used for a second content, not even after an
erasure, and the gate's verdict on a proposal does not depend on the log
(`DraftVerdict`), so a batch that was validated as a whole is refused halfway only
for a text that cannot be encoded: `ProgressInv` says of every request what it has `Reached` and what its
answer means. `PinInv` keeps the source of each promotion in the history.
`ProbeInv` says that what the probe read holds every proposal of the batches it
knows to be created, unless erased. `SwitchInv` and `OperatorInv` say that an
operator's slot `from` is the one the latest record among those it has `seen`
switches to (`Follows`), which later records with other stamps do not disturb,
because a record never changes and no two are alike.

**`GateInv`** is all that replay needs of the protocol: the log is finite and
every event in it has passed the gate, so a proposed relation is only proposed
and an acceptance joins resolved endpoints of legal kinds. The rest is about the
replay of any sequence. `OneEvent` says what one event may do to a state
(`Advance`); `ReplayJourney` carries it along the states after 0, 1, .. N events,
which are a recursive function whose existence and invariants follow by `Onwards`.
`JourneyOrigins` finds the event that proposed a claim or made a relation active,
`QuietClaim` and `QuietRelation` say what stays while no event is about it. For
the past, `EarlierProperties` shows that an event's place in the canonical order,
the number of earlier events, is a bijection; so the events up to a time are the
first of the order (`FirstOfOrder`), their replay is a state on the way of the
whole (`EarlierState`), and histories only grow (`JourneyContinues`).

### Assumptions on the constants

Every theorem holds for any sets of callers, events, agents, tasks, artifacts,
conversations and so on. The `ASSUME`s say three kinds of things only: the
markers of the models (`None`, `Redacted`, `"missing"`) are not contents,
numbers or names; bounds are natural numbers and a page, a lease and a deadline
are not zero; and what the code's types say of its inputs (events have a total
order, by time and then by an identity no two share; a document of a corpus is a
claim or a relation with a name of its own, no placeholder's; the keys of a
listing are finitely many, numbered in the order the bucket lists them; artifact
bytes, texts and a draft's claims are finite sequences; message and edge numbers
and pack ids have an order; a lineage and a catalog are finite; a span is not the
marker of none; the node's own actor name is not
an agent's; `None` as a parent is not a node). `ChatAssumption` also asks for the first
conversation, which the script always imports. TLC evaluates all of them in the
runs.

### Only model-checked

- Liveness (`EventuallyProjected`, `EventuallyPurged`, `ReadyIsResolved`,
  `SoleReleaseTakesEffect`, `ServedRequestsAreAnswered`) and the refutations
  `ReleaseTakesEffect` and `SoleReleaseIsHandsOff`: the prover has no reasoning about fairness.

Every other property of the runs is a theorem. For that, the searches of
`Conversation` and `PackSet` and the replay of `Lifecycle` are recursive functions
of their rounds, depth and position: in a module with recursive operators the
prover has no SMT backend.

## 5. What is not modelled

- Retrieval and its ranking (`services.py`, `semantic_retriever.py`, adapters):
  floating point. Queries take what a retriever returns as an input.
- Model providers: one HTTP call each.
- Answer pipeline, evaluation, benchmarks, poisoning evaluation, engineering
  checks: sequential, offline and without shared state.
- JSON schema syntax, rendering, HTTP routing, the MCP server process, skill
  discovery: no state of the system depends on them.
- Proof and bake-off scripts: drivers against live services.
- Of what is modelled: entries of parent directories after a power loss, the text
  of timestamps, the author filter of the issue's readers, and what Codex or a
  verifier's action does while it runs.

## 6. Plan

What is left to state: an exclusive task lease as the abstract specification of
both lanes of the issue. What is left to prove is liveness, which has to wait for
the prover.
