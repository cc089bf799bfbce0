# Config and artifact plugin: verification project

TLA+ models of `meridian_storage.plugins.config_artifact` (under `src/src/`), the TLC
configurations that check them, and theorems about them that TLAPS checks.

The package publishes immutable *configurations* (a metadata row with an inline payload)
and *artifacts* (an Object plus a metadata row), points named *channels* at them, and
resolves them for consumers. It holds no locks and keeps no state between calls: all of
its state is in two Catalogs of the Meridian runtime, structured records and Objects, which
any number of processes use at once. So everything that is hard about it lies in the order
of a few remote operations: what another process did in between, what an answer that was
lost had done, and what is left behind when a call stops half way.

## Inventory

Paths are below `src/src/meridian_storage/plugins/config_artifact/`.

| component | state it keeps | operations | what makes it correct |
|---|---|---|---|
| artifact publication, `artifact/repository.py` | Objects under `artifacts/`, rows of stored-resources, provenance, orphan-candidates | `publish`, `deprecate`, `promote` | one identity is one immutable version; metadata only over its Object; what a call returns or raises is what happened; a publication that stopped half way can be found and finished |
| configuration publication, `configuration/repository.py` | rows of stored-resources, provenance | `publish`, `deprecate`, `promote` | the same, in one transaction |
| artifact consumption, `artifact/repository.py` | none (payload registrations while a read is open; orphan-candidates) | `exact`, `latest`, `channel`, `list_resources`, `stat`, `open`, `read`, `range_read`, `discover_orphans` | bytes match the row they were resolved from; registrations are released; a sweep finds every Object without metadata |
| configuration consumption, `configuration/repository.py` | none | `exact`, `latest`, `channel`, `list_resources`, `payload` | what is resolved is of the right profile and belongs together |
| channels, `channels/repository.py` | append-only pointer rows | `get`, `promote` | a linearizable compare-and-set per channel |
| metadata repository, `repositories/metadata.py` | the four structured tables | put, get, list, deprecate, transaction | `if_absent` writes, conflict handling, answers checked against what was asked |
| object repository, `repositories/object.py` | Objects | put, stat, get, read_range, list | create-only |
| models, `models/` | row formats, identities and ids | validation, to and from records | equal identities have equal ids; rows that are not well-formed are refused |
| payload registration, `artifact/payloads.py` | process-local registry | register, release | released once by its owner |
| store, `store.py`, `publisher.py`, `consumer.py` | wiring | delegation | |
| canonical values, validation, schemas, errors, runtime protocols, plugin, contracts | none | pure functions and constants | |

How they interact: publishers and consumers call the two repositories, which call the
runtime's Catalogs. A publisher's transaction spans two tables. `publish` with a channel and
`promote` go to the channel repository, which reads stored-resources and writes pointers.
Processes share nothing but the Catalogs.

What is hard, with the properties that look at it, is listed under `hazards` in
`PROJECT.json`.

## Modules

| module | what it is |
|---|---|
| `WriteOnce` | abstract: registers that are written at most once, which publication and deprecation implement |
| `CasRegister` | abstract: one compare-and-set register per channel |
| `Publication` | publication of artifacts and configurations, orphan candidates, and the sweep that discovers orphans; the mapping to `WriteOnce` |
| `Channels` | promotion and channel resolution, and the mapping to `CasRegister` |
| `Deprecation` | `deprecate` and the conditional patch under it, and the mappings to `WriteOnce` and to `Channels` |
| `Consumption` | `stat`, `open`, `read`, `range_read`, and the payload registry they share with `publish` |
| `ResourceStore` | extends `Channels`: publish with a channel, the publication composed with the promotion that follows it, beside the promotions, publications and deprecations of others; the mapping to `Channels` |
| `Resolution` | `exact`, `latest` and `list_resources` over a table that changes |
| `Composition` | extends `Publication`: what `ResourceStore` sees of it, and that it is the first half of its publish call |
| `Identities` | extends `Publication`: the keys of identities, channel rows and orphan candidates, escaped and joined; that they are distinct, and lookups by them are the lookups of `Publication` |
| `PublicationMC`, `ChannelsMC`, `ConsumptionMC`, `ResourceStoreMC`, `ResolutionMC` | their instances for TLC (`Deprecation` needs none; `PublicationMC` is of `Composition` and `Identities` as well) |
| `Publication_proofs`, `Channels_proofs`, `Deprecation_proofs`, `Consumption_proofs`, `ResourceStore_proofs`, `Resolution_proofs`, `Composition_proofs`, `Identities_proofs` | their theorems |

In every module a step is one remote operation with the local computation that follows it:
nothing local is visible to anybody else. `Publication` has the inside of a publication;
where another module needs publications only as what goes on around it (`Publish(id)` of
`Channels` and `Deprecation`, `Commit` of `ResourceStore` and `Resolution`), they are the
commit of its transaction; `Composition` shows for `ResourceStore` that nothing is lost by
that. Operators marked as a *faulty variant* are mistakes that could be
made in the code; no specification uses them, and each makes one property fail in its run.

### Publication

| in the module | in the code |
|---|---|
| `metadata`, `provenance`, `orphans`, `objects` | tables stored-resources, provenance, orphan-candidates, and the Object store; a row keeps the fields its readers tell apart |
| `call[p]` | the locals of one `publish`, `pc` naming the remote operation about to be executed |
| `Begin`, `Enter`, `Retry` | entry of `publish`; a configuration validates everything before its first remote operation, an artifact does not |
| `Lookup` | `get_resource(required=False)` and the comparison with what is there |
| `PutObject`, `StatObject` | `_put_object`, with its `except` branch and `_verify_object_metadata` |
| `BuildCandidate` | `_candidate`, which validates the document |
| `PutResource`, `PutProvenance`, `Commit` | the transaction |
| `Winner` | the look for a winner after a conflict |
| `FailSecondPhase`, `RecordOrphan` | the two branches that record an orphan and raise `IncompletePublication`; a configuration re-raises |
| `DiscoverPage`, `Inspect`, `RecordSuspect` | `discover_orphans`: list, `get_resource` per item, `put_orphan` |
| `RemoteFailure`, `LostPutObject`, `LostCommit`, `SpuriousConflict`, `MismatchedPut`, `Crash`, `SweepFails` | what a Catalog or a process can do to a call |

A step is one remote operation with the local computation that follows it: nothing local is
visible to anybody else. Digest, byte length and media type are one `content`, which decides
whether Objects are the same; labels, annotations, provenance, supersedes and version order
are one `document`, which only the full comparison of publications looks at. `created`
stands for `created_by` and `created_at`: it tells whose attempt wrote a row. The code
compares neither, and the mapping of actors to attempts only serves the properties.

The Catalogs are external. Assumed of them is what this package relies on: `if_absent` and
`create_only` refuse an existing key, and a transaction commits whole or not at all
(`schemas/provider.py` requires transactional bindings for the structured tables). Whether a
duplicate key is noticed at the put or at the commit is left open: both happen.

### Channels

| in the module | in the code |
|---|---|
| `resources`, `pointers` | tables stored-resources and resource-channels |
| `Publish`, `Deprecate` | the commits of the transactions that change a resource |
| `Begin`, `Held` | entry of `promote` with one of its three forms of target: a row the caller holds, a reference, an identity |
| `ResolveTarget`, `Admission` | the lookup and the checks, in their order |
| `ReadPointer`, `ObservedVersion` | `get` of the latest row and the comparison with the expected version |
| `Successor`, `Taken`, `PutChannel` | the row, its deterministic id, and `put_channel` |
| `GetPointer`, `GetResource` | `channel` of a consumer |
| `PromoteFails`, `LostPutChannel`, `SpuriousConflict`, `ReadFails` | what a Catalog or a process can do to a call |

`Channels` implements `CasRegister`: `version` is the highest pointer version, `value` its
target, and `op[c]` hides what a call has read. The linearization point of a promotion that
wins is its insert. One that loses is refused at the read or at the insert, where the
register has in fact gone on.

### Deprecation

| in the module | in the code |
|---|---|
| `resources` | stored-resources; `digest` is everything a patch must leave alone, `version` the recordVersion |
| `Begin`, `Retry` | entry of `deprecate` of a publisher of profile `wanted`; the same call again after a failure |
| `GetResource`, `Consider` | `get_resource`, the profile check, the early return for a row that is deprecated already |
| `Patch`, `Unmoved`, `Patched` | the patch with `expected_version`, staged in the open transaction |
| `Accepted`, `PatchMisanswered`, `NoRecordVersion` | `_deprecation_result` and the refusals around it, which roll the transaction back |
| `Commit`, `Transition` | the end of the transaction; another may have committed first |
| `Winner` | the second look after a conflict |
| `RemoteFailure`, `SpuriousConflict`, `LostCommit`, `Crash` | what a Catalog or a process can do to a call |

`Accepted` compares everything but the recordVersion, of which the code only asks that it
has changed; that is why an answer with a wrong recordVersion passes, and `AnswerIsStored`
allows for it after a fault. `Deprecation` implements `WriteOnce`: the register under an
identity holds a mark once its row is deprecated. It also implements `Channels`, where a deprecation
is the one step `Deprecate` (`DeprecationIsChannels`; `VersionRows` are the rows without their
recordVersion). `transitions` is a history variable.

### Consumption

| in the module | in the code |
|---|---|
| `rows`, `objects` | the content each published row names; the Object under `artifacts/<id>` with its bytes and its `ObjectMetadata` |
| `registry`, `Live` | the PayloadRegistry that the Object Adapter and the publisher register in |
| `call[t].held`, `owned` | the payload of an answer, or the `RegisteredPayload` of a publish and whether it is the package's to release |
| `Consume` | entry of `stat`, `open`/`read`, `range_read` with a row resolved now or before |
| `Stat`, `Get`, `GetRange`, `Receive`, `NotThere` | the operation of the object repository, `MissingObject`, and the comparison of the answer's metadata with the row |
| `Read`, `Leave`, `BodyRaises` | the body of the `with` statement, its normal end (`verify`) and an exception in it |
| `ReadSlice` | the reading of a range and the check of its length |
| `PublishBytes`, `PublishReference`, `RegisterReference`, `ReleaseReference` | `register_payload` in its forms, and a caller's own registrations |
| `Lookup`, `PutObject`, `CommitRow` | `publish`, as far as it uses the registry |
| `End`, `Released` | the `finally` clauses |
| `Rot`, `RemoteFailure`, `Garble`, `Misanswered` | an Object lost or damaged, an operation or a stream that raises, a stream that goes wrong, an answer that `_read` refuses |

A content is a sequence of blocks; a digest with its length tells contents apart, so the
digest comparison is one of contents. Two assumptions about callers are in the guards: a
caller releases its own reference only when no call uses it, and a range lies within the
byte length of the row (`ByteRange.resolve`, which is external, raises otherwise).

### ResourceStore

| in the module | in the code |
|---|---|
| `BeginPublish`, `Repeat`, `Reread` | `publish` with or without `channel` and `expected_pointer_version`; the same call again, with the pointer version it had or one read anew (`docs/operations.md`, "Channel retry") |
| `Lookup`, `Commit`, `Winner`, `SettleOn` | the publication, up to the row that its receipt is about |
| `Start`, `Refuse` | a document that is refused: on entry (configurations), or by `_candidate` once the Object is there (artifacts); an Object that is another's, `_verify_object_metadata` |
| `Finish` | `_promote` with neither argument, or with a pair that it refuses |
| `PromoteHeld` | `_promote` calling `ChannelRepository.promote` with the stored row and the publisher's profile |
| `Receipt` | the receipt, or what the promotion raised |
| the actions of `Channels` | the promotion itself, and what everybody else does |
| `PublishFails`, `LostCommit`, `SpuriousPublishConflict`, `LapseElsewhere` | what a Catalog or a process can do to the first half, of this call or of another |

The two halves are two transactions: what ends the call in between leaves the first one
committed. The composition is a behaviour of `Channels` (`StoreIsChannels`), so that what is
proved there holds of it. Objects and documents are not in it: `Refuse` may refuse any
artifact, and `Start` any configuration. That every way in which they do so is one of these,
and that nothing else of `Publication` shows, is `Composition`.

### Composition

| in the module | in the code |
|---|---|
| `Stored`, `StoredRows` | a row of stored-resources without `created_by` and `created_at`; content and document are its digest |
| `Asked` | the request, with the `channel` and the pointer version that `Publication` leaves out |
| `Progress`, `Answered`, `HalfOf` | the locals of `publish`: from its lookup to its commit nothing shows in any table; a receipt is the row to promote; `IncompletePublication`, an error and a crash are the failures that the caller retries |
| `NoPromotions`, `NoReads`, `Channel` | no promotion has begun: that is the second half |

The steps before the transaction, the puts inside it and the records of orphans are stutters
of `ResourceStore`; the commit is its `Commit`.

### Identities

| in the module | in the code |
|---|---|
| `Escape`, `Escaped` | `_escaped`: `quote` with `safe=""` |
| `Canonical`, `ChannelVersionId`, `OrphanCandidateId` | the texts whose uuid5 are resource ids (and Object ids), the ids of channel rows and of orphan candidates |
| `RowsUnder` | what a lookup by resource id finds, which `LookupsFindTheirOwn` compares with the `RowsOf` of `Publication` |
| `Plain` | the pointer version, which is written without escaping |

A text is a sequence of marks: a delimiter, an unreserved character, or a character that is
escaped. How percent-encoding spells one of the latter is left out; since `%` itself is
always escaped and UTF-8 is prefix-free, the spelling of a sequence of marks is its own.

### Resolution

| in the module | in the code |
|---|---|
| `resources` | stored-resources; `order` is version_order, empty when it is None, `created` is createdAt |
| `BeginPublish`, `Commit`, `Deprecate`, `PublishFails` | the versions of a name as they come and go; a candidate is stamped with its publisher's own clock before it commits |
| `BeginFind`, `Questions` | a lookup of a consumer with the filters of its mode |
| `Matching`, `Precedes`, `Pages` | `where`, `order_by` and `limit` of `list_resources` |
| `Exact`, `Latest`, `List`, `AnswerRequired` | the lookups, with `_require_artifact` and `_require_configuration` on a single row |
| `FindFails` | a query that fails, or whose result is refused |

What is picked among rows of equal rank is the Catalog's (any of them), and so is what a
cursor stands for; a listing is its first page. `last` and `settled` are history: the answer
to the same question before, and the receipts that were out when the lookup began.

## Runs

| run | result | shows |
|---|---|---|
| `pub_faults` | holds, 197,859 states | safety of two publishers and a sweep under every pair of requests, two faults and one retry each; refinement of `WriteOnce`, and of the first half of `ResourceStore` |
| `pub_liveness` | holds, 218,239 states | every Object is accounted for; retries settle; lookups by resource id find their own |
| `pub_lost_race` | violated | an Object that no sweep records |
| `pub_malformed` | violated | a refused artifact leaves no evidence |
| `chan_cas` | holds, 413,073 states | contention, history, truth of answers, refinement of `CasRegister`; some contender advances |
| `chan_resolve` | holds, 1,384,809 states | every form of target, two families, a reader |
| `chan_deprecated` | violated | a deprecated resource becomes a channel's target |
| `deprecation` | holds, 9,165 states | two callers race to deprecate, two faults, three attempts each; refinement of `WriteOnce` and of `Channels`; retries end with the version deprecated |
| `consumption` | holds, 724,585 states (symmetry) | two threads of two calls each read and publish over one registry, with one fault |
| `con_leak` | violated | a read whose answer is refused leaves a registration behind |
| `store` | holds, 304,976 states | a publisher with a channel beside a direct promoter, two faults in the promotions and one in the publication; refinement of `Channels`; retries reach the channel |
| `resolution` | holds, 2,577,314 states (symmetry) | every lookup over two versions of one name that rank apart or alike, with one fault |

Bounds, and why they are enough:

- *Two publishers, promoters, callers, threads.* A call meets another at most through one
  winner of its identity, its channel or its row. What a third could add, two losers that
  meet, is covered by the theorems, which hold for any number.
- *Requests.* `OneIdentity` has each way in which two publications of an identity can agree
  or differ (profile, content, document, provenance), `WithMalformed` adds refused documents.
  Different identities meet only in a sweep's pages, so a second one is in `pub_liveness`,
  and in the rank of versions, so that `resolution` has two.
- *`MaxAttempts`* is 2 for the safety of publication: a first attempt and one that finds what
  it left. It is 3 where liveness is checked, one more than `MaxFaults`, so that retries
  outlast the faults. In `store` retries are not bounded.
- *`MaxFaults`* is 2 for publication and deprecation: the one exception in
  `IncompleteLeavesEvidence` takes two. `MaxLapses` counts the faults of the first half.
- *`PageLimit`* is 1 with two Objects: a sweep needs its cursor.
- *`MaxVersion`* is 2: a first promotion, which has no predecessor row, and a later one.
- *Readers* and several forms of target are in `chan_resolve` with one promoter, two promoters
  in `chan_cas` by identity: what a promoter brought as its target makes no difference after
  `ResolveTarget`, and a reader none to a promoter.
- *`Contents`* of `consumption` are of one and two blocks, one a prefix of another and one
  with the blocks swapped: a short read, a wrong order and a wrong end all differ. `MaxCalls`
  is 2: a registration and a call that uses it, or a publication and a read of it.
- *`MaxOrder`* 0 and *`MaxTime`* 1: a version has an order or lacks one, and clocks agree or
  differ; `Precedes` looks at one only when the other ties. *`MaxLimit`* is 2: a full page
  of all rows, and one that leaves a row out.
- *`Parts`* has a text with each of the delimiters that could be mistaken (`/` in a name, `@`
  in a version or a channel, `|` in an id), all made of one letter, so that without escaping
  they would run into one another; the two identities of `pub_liveness` differ only in where
  the slash in them belongs.

The theorems below need none of these bounds.

Deadlock is checked, and never reported, in all runs but three: in `deprecation`,
`consumption` and `con_leak` the number of calls is bounded, and the system really stops when
all of them have been made.

### Fairness

Liveness is checked under weak fairness of `PublishStep(p)`, `Retry(p)` and `SweepStep(s)`,
of `PromoteStep(p)` and `ReadStep(r)`, and of `DeprecateStep(p)` and `Retry(p)`. A call is
sequential code that runs to its end unless it fails, which is what the steps say. Weak
fairness of `Retry` is the advice of `docs/operations.md` ("retry the same publication
identity and content", "re-read the resource and repeat the same public call") and that of
`SweepStep` its advice to use `discover_orphans()` along its cursor. No fault is fair, nor is
the beginning of a call. Nothing is assumed of which contender goes first, and accordingly
`SomebodyAdvances` promises that some promotion succeeds, not each one.

`RetriesReachTheChannel` needs strong fairness of `Reread(p)`: a caller whose promotion was
refused as stale retries, again and again, and every so often with the pointer version that
it reads then ("Channel retry: re-read the pointer and provide its exact version"). It may
not be able to at each moment, and weak fairness would let it repeat a stale version for ever.

## Disagreements with the documentation

- A publisher that lost the race for its identity to a configuration leaves its Object
  without evidence, for ever (`pub_lost_race`): `IdentityConflict` is raised without an
  orphan candidate, and `discover_orphans` clears the Object because the identity has
  metadata, if of the other profile. The public contract says that partial publication
  produces orphan evidence.
- A document the row refuses is refused after the Object was created, outside the block that
  records an orphan (`pub_malformed`). A later sweep does record this one (`pub_liveness`,
  whose requests include a refused document).
- A resource that is deprecated between the check and the insert, or a row the caller has
  held since before, is promoted although only a published one may be (`chan_deprecated`).
- `_read` of the object repository parses the answer of a read after the Adapter has
  registered its payload. When it refuses the answer, nobody has the token to release the
  registration by (`con_leak`), while `docs/operations.md` says that consumer reads release
  these registrations on every exit path. `Accounted` counts them apart, as `unread`.

Seen while modelling, and not claimed by any document to be otherwise:

- `_record_orphan` swallows a failure of `put_orphan`, so `IncompletePublication` can come
  without a recorded candidate. A put whose answer is lost raises without one too.
- Orphan candidates are never resolved: nothing sets `RESOLVED`, and one that was recorded
  for a lost commit, or before a retry that succeeded, stays beside the published metadata.
- If the look for a winner fails, the call raises that error, without an orphan candidate.
- Two receipts for one artifact may both say idempotent, none that it was published: the
  writer of the metadata row did find its Object there already.
- A retry of a promotion whose answer was lost is told that its pointer is stale.
- Channels are shared by both profiles: promoting a configuration makes
  `ArtifactConsumer.channel` raise `IncompatibleProfile` where it had resolved an artifact.
- `publish` with a channel and without a pointer version, or the other way round, is refused
  only after the publication has committed.
- A range is checked by its length alone: bytes that rotted within it are handed out
  (`RangeIsWhole` promises the content only without faults).
- A body that is left early still reads the stream to its end and verifies all of it.

## Proofs

Every safety invariant, action property and refinement that a passing run checks is also
proved, for every number of processes, identities, documents and blocks and for all values
of the bounds, from the named assumptions of the modules alone (that `Requests` is a
non-empty set of requests, that `FamilyOf` is a function, that contents are sequences of
blocks, and so on). Proved and in no run are that neither a publication nor a deprecation
fails for having raced (`RacesSettle`, `RacesConverge`), that no refused document is stored
(`RefusedNeverStored`), that a row only moves forward, by one recordVersion
(`LifecycleForward`), and that all kinds of keys are distinct (`KeysDistinct`). Of
publications that raced `PublicationIsStore` says the same, as the store has no failure
without a fault. Each proof module states its inductive invariant first, then has one lemma
or step per action, and its theorems at the end.

`Publication_proofs`: `IInv == TypeOK /\ TablesAgree /\ InStep /\ CallsSound`.
`TablesAgree` is what the tables are to each other (unique identities, artifacts with their
Objects, provenance exactly that of the metadata, orphan candidates over Objects);
`CallsSound` is what finished calls report. Neither is inductive: a commit keeps
`ArtifactHasObject` only because a call that has reached its transaction has an Object with
its content, and a receipt stays true only because a call's stamp is on no row before it
commits. That is `InStep`: for each `pc`, what the earlier operations of the call
established and other processes cannot undo. Two facts carry it, that no table ever shrinks
(`Immutability`), and that rows are added only under free keys. `PublicationsWriteOnce` maps
each step to a step or a stutter of `WriteOnce`; a commit is the write.

`Channels_proofs`: `IInv == TypeOK /\ InStep /\ NumberedWithoutGaps /\ PointersResolve`.
`InStep` says that a promotion about to insert version n + 1 has row n beneath it (or n is 0)
and expects n. The refinement of `CasRegister` needs the current version to exist and to be
unique: existence is the maximum of a channel's versions, obtained as a well-founded minimum,
uniqueness follows from `NumberedWithoutGaps`. From these, an insert under a free version
lands on top of the latest row (`InsertsAboveLatest`), and so swaps the register, while a
taken one shows that the register has gone on.

`Deprecation_proofs`: `IInv` is `TypeOK`, `InStep` (what a call holds is the row as it was,
and the row is the same while its recordVersion is), and the safety properties themselves.
That a row is moved once follows from its recordVersion being that of its state.
`DeprecationsAreChannels` uses that no two rows share an id, so that a transition replaces one row.

`ResourceStore_proofs`: `StoreSpec => Spec` of `Channels` is proved from an invariant of its
own, `SInv == IInv /\ StoreTypeOK /\ OneRowEach /\ \A p : HandOver(p)`, where `HandOver` is
what the first half hands to the second and others cannot undo: the row that was settled on
is stored, but for its deprecation, and the promotion that runs is of this row, for this
channel and version. Every step of the store is a step or a stutter of `Channels`; its
theorems then say what a promotion's answer means, and `ReceiptIsWhole` and `RefusalsAreTrue`
follow.

`Consumption_proofs`: `IInv == TypeOK /\ TokensOK /\ EachHanded /\ (faults = 0 => Stored /\
EachFaithful)`. `Accounted` alone is not inductive: an end could release somebody else's
registration. `OwnTokens` is why it does not: what a call owns bears its own token, a token
that no caller and no other call has. `EachHanded` says what was handed out at each `pc`, and
the last conjunct what is there as long as nothing has gone wrong.

`Resolution_proofs`: `IInv == TypeOK /\ TableOK /\ ReceiptsKept /\ \A r : ReaderOK(r) /\
AnswerOK(r)`. Whatever anybody has seen is kept, but for its deprecation; a page of a finite
set either has all of it or is full of rows that rank no lower (`PageHolds`, from the
theorems on cardinality). That a rank never changes then gives `LatestNeverGoesBack`.

`Composition_proofs`: `Spec => PublicationIsStore` is a simulation over the invariant of
`Publication` and two more, `Validated` (a call within its transaction, or a configuration
past its entry, has a document that is accepted) and `Unbegun`. `Validated` is what lets the
winner that is found after a conflict only be the same publication or another: the store has
no refusal there. Each step is mapped by what it does to `HalfOf` of its call (`HalfMoves`),
and then by one of three: it advances, settles on a row or returns. `OnlyAccepted` follows
from the same invariant (`RefusedNeverStored`): a refused document is never in the table,
although that of an artifact is looked at only after its Object is there.

`Identities_proofs`: an escaped text has no delimiter, and a text is divided in one way at the
first of its delimiters; so each key is taken apart from the left, its parts are equal one by
one, and escaping is injective. This needs of the alphabet only that no delimiter is
unreserved, and of names and versions nothing. `LookupsOwn` adds that every row is of one of
`Resources`, each of which stands for an identity of its own.

Only model-checked: the liveness properties `ObjectsAccountedFor`, `RetriesSettle`,
`SomebodyAdvances`, `RetriesDeprecate` and `RetriesReachTheChannel`, since liveness under
fairness is beyond the prover, and the four violated properties. No recursive definition is
used anywhere.

## Assumptions about what is outside

- `if_absent` and `create_only` refuse an existing key; a transaction commits whole or not at
  all; a patch with an expected version conflicts when another commit has advanced it. That a
  Catalog may report a conflict nobody caused, or lose an answer, is modelled as a fault.
- The Adapter registers the payload of a read before it answers, and a registration is read
  by its token; releasing a token that is gone has no effect.
- Clocks of publishers are their own: `created` is any value.

## Not modelled

- *Canonical values* (`_canonical.py`), *payload validation* (`validation.py`): functions of
  strings and documents without state. The models use identities, contents and documents as
  values; whether a document is accepted is the constant `Rejected`. That uuid5 has no
  collisions is assumed; that the texts it is taken of are distinct is proved (`Identities`).
- *Reading rows back* (`from_record`): which documents a row refuses is in `Publication`, the
  parsing of its fields is not.
- *Schemas*: static documents. *Errors*: their codes decide control flow and are the outcomes
  of calls; wording and details are left out. Hashing: a digest stands for its bytes.
- *Typing protocols, plugin entry point, contracts, packaging, scripts, evidence*: no
  behaviour of the running package.
- `DRAFT` is a state no operation of the package sets. Cursors of listings are opaque to the
  package and passed through; the cursor of a sweep is modelled, since the package asks for
  its pages one after another.

What could be taken further: abstract specifications of what a read and a lookup promise,
which `Consumption` and `Resolution` would implement.
