------------------------------ MODULE Publication ------------------------------
(***************************************************************************)
(* Publication of immutable resource versions, and the records that        *)
(* account for a publication which stopped half way.                       *)
(*                                                                         *)
(*   - ArtifactPublisher.publish: an Object is created first, a metadata   *)
(*     row (and its provenance row) second, in one transaction;            *)
(*   - ConfigurationPublisher.publish: the metadata row carries the        *)
(*     payload, so there is one transaction and no Object;                 *)
(*   - ArtifactConsumer.discover_orphans: a sweep of the Objects that      *)
(*     records those without structured metadata.                          *)
(*                                                                         *)
(* All three run in different processes against the two Catalogs of the    *)
(* Meridian runtime.  The Catalogs are external; they are modelled from    *)
(* how this package uses them: every table is a set of rows, a write with  *)
(* mode if_absent refuses a key that is already there, and a transaction's *)
(* rows become visible together at commit or not at all.  The rows a       *)
(* transaction has staged are implied by the program counter of the call   *)
(* that staged them.  Calls here name no channel; Channels models promote. *)
(***************************************************************************)
EXTENDS Naturals, FiniteSets

CONSTANTS
    Publishers,      \* each carries one publication, with its retries
    Sweepers,        \* processes that call discover_orphans
    Resources,       \* resource identities (namespace, kind, name, version)
    Contents,        \* digest, byte length and media type of a payload
    Documents,       \* labels, annotations, provenance, supersedes, order
    Rejected,        \* documents that StoredResourceV1 refuses
    WithProvenance,  \* documents that carry a provenance
    Requests,        \* the publications that may be asked for
    PageLimit,       \* bound on a page of discover_orphans
    MaxAttempts,     \* bound on the attempts of one publication
    MaxFaults        \* bound on remote faults and crashes in a behaviour

Profiles == {"ARTIFACT", "CONFIGURATION"}

Request == [profile : Profiles, id : Resources,
            content : Contents, document : Documents]

ASSUME DocumentsAssumption == /\ Rejected \subseteq Documents
                              /\ WithProvenance \subseteq Documents
ASSUME RequestsAssumption == Requests \subseteq Request /\ Requests # {}
ASSUME BoundsAssumption == /\ PageLimit \in Nat \ {0}
                           /\ MaxAttempts \in Nat \ {0}
                           /\ MaxFaults \in Nat

VARIABLES
    metadata,    \* table of resource versions
    provenance,  \* table of provenance documents
    orphans,     \* table of orphan candidates
    objects,     \* the Object store, under the prefix "artifacts/"
    call,        \* call[p]: the publish call of publisher p
    sweep,       \* sweep[s]: the discover_orphans call of sweeper s
    faults       \* remote faults and crashes so far

vars == <<metadata, provenance, orphans, objects, call, sweep, faults>>
tables == <<metadata, provenance, orphans>>
stores == <<metadata, provenance, orphans, objects>>

--------------------------------------------------------------------------------
(* Types.  "created" stands for created_by and created_at: who wrote a row, *)
(* and in which attempt.                                                    *)

Stamps == Publishers \X (1 .. MaxAttempts)

MetadataRows == [profile : Profiles, id : Resources, content : Contents,
                 document : Documents, created : Stamps]
ProvenanceRows == [id : Resources, document : Documents, created : Stamps]
ObjectRows == [id : Resources, content : Contents]
OrphanStates == {"DISCOVERED", "RECORDED"}
OrphanRows == [id : Resources, content : Contents, state : OrphanStates]

\* Where a call stands: idle, or about to execute the named remote operation.
Steps == {"idle", "lookup", "put_object", "stat", "put_resource",
          "put_provenance", "commit", "winner", "record_orphan"}

Succeeded == {"published", "idempotent"}
Retryable == {"incomplete", "error", "crashed"}
Outcomes == {"none", "identity_conflict", "rejected"} \union Succeeded \union Retryable

Calls == [pc : Steps, req : Requests, attempt : 0 .. MaxAttempts,
          outcome : Outcomes, created : BOOLEAN, receipt : SUBSET MetadataRows]

Sweeps == [listed : SUBSET ObjectRows, page : SUBSET ObjectRows,
           suspect : SUBSET ObjectRows]

TypeOK ==
    /\ metadata \subseteq MetadataRows
    /\ provenance \subseteq ProvenanceRows
    /\ orphans \subseteq OrphanRows
    /\ objects \subseteq ObjectRows
    /\ call \in [Publishers -> Calls]
    /\ \A p \in Publishers : call[p].pc # "idle" => call[p].attempt # 0
    /\ sweep \in [Sweepers -> Sweeps]
    /\ faults \in 0 .. MaxFaults

--------------------------------------------------------------------------------
(* The data of a publication. *)

RowsOf(table, id) == {row \in table : row.id = id}

\* The row _candidate builds for attempt n of publisher p.
Candidate(p) ==
    LET c == call[p]
    IN  [profile |-> c.req.profile, id |-> c.req.id, content |-> c.req.content,
         document |-> c.req.document, created |-> <<p, c.attempt>>]

ProvenanceRecords(row) ==
    IF row.document \in WithProvenance
    THEN {[id |-> row.id, document |-> row.document, created |-> row.created]}
    ELSE {}

\* The content test of publish, and then of _same_publication, against a row
\* that is already stored under the identity.  Creation and state are not compared.
SameContent(req, row) == row.profile = req.profile /\ row.content = req.content
SamePublicationByContent(req, row) == SameContent(req, row)
SamePublication(req, row) == SameContent(req, row) /\ row.document = req.document

\* How a call ends that found a row under its identity.  The document of a
\* configuration was accepted before, so the second case is never one of those.
SettleOn(req, row) ==
    CASE SamePublication(req, row) /\ req.document \notin Rejected -> "idempotent"
      [] SameContent(req, row) /\ req.document \in Rejected        -> "rejected"
      [] OTHER                                                     -> "identity_conflict"

CandidateOrphan(req, state) ==
    [id |-> req.id, content |-> req.content, state |-> state]

\* put_orphan: a row under the same candidate id (identity and digest) stays.
PutOrphan(req, state) ==
    IF \E row \in orphans : row.id = req.id /\ row.content = req.content
    THEN orphans
    ELSE orphans \union {CandidateOrphan(req, state)}

--------------------------------------------------------------------------------
(* Moves of one call. *)

At(p, step) == call[p].pc = step

GoTo(p, step) == call' = [call EXCEPT ![p].pc = step]

Return(p, outcome, receipt) ==
    call' = [call EXCEPT ![p].pc = "idle", ![p].outcome = outcome,
                         ![p].receipt = receipt]

Raise(p, outcome) == Return(p, outcome, {})

\* The transaction failed for a reason other than a conflict that a winner
\* explains: an artifact accounts for its Object, a configuration reports.
FailSecondPhase(p) ==
    IF call[p].req.profile = "ARTIFACT"
    THEN GoTo(p, "record_orphan")
    ELSE Raise(p, "error")

\* The Object is proved; _candidate now validates the document.
BuildCandidate(p, created) ==
    IF call[p].req.document \in Rejected
    THEN call' = [call EXCEPT ![p].pc = "idle", ![p].outcome = "rejected",
                              ![p].created = created]
    ELSE call' = [call EXCEPT ![p].pc = "put_resource", ![p].created = created]

--------------------------------------------------------------------------------
(* publish, one action per remote operation. *)

\* A configuration is validated whole before the first remote operation.
Enter(p, req, attempt) ==
    /\ LET refused == req.profile = "CONFIGURATION" /\ req.document \in Rejected
       IN  call' = [call EXCEPT ![p] =
               [pc |-> IF refused THEN "idle" ELSE "lookup", req |-> req,
                attempt |-> attempt, outcome |-> IF refused THEN "rejected" ELSE "none",
                created |-> FALSE, receipt |-> {}]]
    /\ UNCHANGED <<stores, sweep, faults>>

Begin(p) ==
    /\ At(p, "idle") /\ call[p].attempt = 0
    /\ \E req \in Requests : Enter(p, req, 1)

\* The same identity and content once more, after a failure.
Retry(p) ==
    /\ At(p, "idle") /\ call[p].outcome \in Retryable
    /\ call[p].attempt < MaxAttempts
    /\ Enter(p, call[p].req, call[p].attempt + 1)

SettleOnFound(p, found) ==
    \E row \in found :
        LET outcome == SettleOn(call[p].req, row)
        IN  Return(p, outcome, IF outcome = "idempotent" THEN {row} ELSE {})

Lookup(p) ==
    /\ At(p, "lookup")
    /\ LET found == RowsOf(metadata, call[p].req.id)
       IN  IF found # {}
           THEN SettleOnFound(p, found)
           ELSE GoTo(p, IF call[p].req.profile = "ARTIFACT"
                        THEN "put_object" ELSE "put_resource")
    /\ UNCHANGED <<stores, sweep, faults>>

ObjectOf(req) == [id |-> req.id, content |-> req.content]

\* (a faulty variant: the conflict of create_only is not caught)
PutObjectStrict(p) ==
    /\ At(p, "put_object")
    /\ IF RowsOf(objects, call[p].req.id) = {}
       THEN /\ objects' = objects \union {ObjectOf(call[p].req)}
            /\ BuildCandidate(p, TRUE)
       ELSE Raise(p, "error") /\ UNCHANGED objects
    /\ UNCHANGED <<tables, sweep, faults>>

\* create_only, publish_once.
PutObject(p) ==
    /\ At(p, "put_object")
    /\ IF RowsOf(objects, call[p].req.id) = {}
       THEN /\ objects' = objects \union {ObjectOf(call[p].req)}
            /\ BuildCandidate(p, TRUE)
       ELSE /\ GoTo(p, "stat")
            /\ UNCHANGED objects
    /\ UNCHANGED <<tables, sweep, faults>>

\* (a faulty variant: any Object under the identity is taken for this one)
StatObjectUnverified(p) ==
    /\ At(p, "stat")
    /\ BuildCandidate(p, FALSE)
    /\ UNCHANGED <<stores, sweep, faults>>

\* The Object was there already: stat, and _verify_object_metadata.
StatObject(p) ==
    /\ At(p, "stat")
    /\ IF ObjectOf(call[p].req) \in objects
       THEN BuildCandidate(p, FALSE)
       ELSE Raise(p, "identity_conflict")
    /\ UNCHANGED <<stores, sweep, faults>>

\* (a faulty variant: the put is outside the transaction)
PutResourceAutocommit(p) ==
    /\ At(p, "put_resource")
    /\ IF RowsOf(metadata, call[p].req.id) # {}
       THEN GoTo(p, "winner") /\ UNCHANGED metadata
       ELSE /\ metadata' = metadata \union {Candidate(p)}
            /\ GoTo(p, "put_provenance")
    /\ UNCHANGED <<provenance, orphans, objects, sweep, faults>>

\* The transaction opens and stages the metadata row.
PutResource(p) ==
    /\ At(p, "put_resource")
    /\ GoTo(p, CASE RowsOf(metadata, call[p].req.id) # {}     -> "winner"
                 [] /\ RowsOf(metadata, call[p].req.id) = {}
                    /\ ProvenanceRecords(Candidate(p)) # {}   -> "put_provenance"
                 [] OTHER                                     -> "commit")
    /\ UNCHANGED <<stores, sweep, faults>>

PutProvenance(p) ==
    /\ At(p, "put_provenance")
    /\ GoTo(p, IF RowsOf(provenance, call[p].req.id) # {} THEN "winner" ELSE "commit")
    /\ UNCHANGED <<stores, sweep, faults>>

\* Another transaction may have committed the keys since they were staged.
CommitConflicts(p) ==
    \/ RowsOf(metadata, call[p].req.id) # {}
    \/ /\ ProvenanceRecords(Candidate(p)) # {}
       /\ RowsOf(provenance, call[p].req.id) # {}

CommitRows(p) ==
    /\ metadata' = metadata \union {Candidate(p)}
    /\ provenance' = provenance \union ProvenanceRecords(Candidate(p))

\* A receipt for an Object that was there already is idempotent.
Commit(p) ==
    /\ At(p, "commit")
    /\ IF CommitConflicts(p)
       THEN GoTo(p, "winner") /\ UNCHANGED <<metadata, provenance>>
       ELSE /\ CommitRows(p)
            /\ Return(p, IF call[p].req.profile = "ARTIFACT" /\ ~ call[p].created
                         THEN "idempotent" ELSE "published", {Candidate(p)})
    /\ UNCHANGED <<orphans, objects, sweep, faults>>

\* (faulty variants: the winner is not compared, is taken for this call's own
\* row, or is looked up among the rows of the same profile only)
WinnerNotCompared(p) ==
    /\ At(p, "winner")
    /\ IF RowsOf(metadata, call[p].req.id) # {}
       THEN Raise(p, "identity_conflict") ELSE FailSecondPhase(p)
    /\ UNCHANGED <<stores, sweep, faults>>

WinnerClaimed(p) ==
    /\ At(p, "winner")
    /\ LET found == {row \in RowsOf(metadata, call[p].req.id) :
                       SettleOn(call[p].req, row) = "idempotent"}
       IN  IF found # {} THEN Return(p, "published", found) ELSE FailSecondPhase(p)
    /\ UNCHANGED <<stores, sweep, faults>>

WinnerOfProfile(p) ==
    /\ At(p, "winner")
    /\ LET found == {row \in RowsOf(metadata, call[p].req.id) :
                       row.profile = call[p].req.profile}
       IN  IF found # {} THEN SettleOnFound(p, found) ELSE FailSecondPhase(p)
    /\ UNCHANGED <<stores, sweep, faults>>

\* After a conflict: who holds the identity?
Winner(p) ==
    /\ At(p, "winner")
    /\ LET found == RowsOf(metadata, call[p].req.id)
       IN  IF found # {} THEN SettleOnFound(p, found) ELSE FailSecondPhase(p)
    /\ UNCHANGED <<stores, sweep, faults>>

\* (a faulty variant: only the call that created the Object records it)
RecordOrphanOfCreator(p) ==
    /\ At(p, "record_orphan")
    /\ orphans' = IF call[p].created THEN PutOrphan(call[p].req, "RECORDED") ELSE orphans
    /\ Raise(p, "incomplete")
    /\ UNCHANGED <<metadata, provenance, objects, sweep, faults>>

RecordOrphan(p) ==
    /\ At(p, "record_orphan")
    /\ orphans' = PutOrphan(call[p].req, "RECORDED")
    /\ Raise(p, "incomplete")
    /\ UNCHANGED <<metadata, provenance, objects, sweep, faults>>

PublishStep(p) ==
    \/ Lookup(p)       \/ PutObject(p)     \/ StatObject(p)
    \/ PutResource(p)  \/ PutProvenance(p) \/ Commit(p)
    \/ Winner(p)       \/ RecordOrphan(p)

--------------------------------------------------------------------------------
(* What can go wrong in a call.  Each costs one of MaxFaults. *)

Fault == faults < MaxFaults /\ faults' = faults + 1

\* The remote operation raises and has had no effect.  A transaction is rolled
\* back; a failed put_orphan is swallowed.
RemoteFailure(p) ==
    /\ Fault
    /\ \/ /\ call[p].pc \in {"lookup", "put_object", "stat", "winner"}
          /\ Raise(p, "error")
       \/ /\ call[p].pc \in {"put_resource", "put_provenance", "commit"}
          /\ FailSecondPhase(p)
       \/ /\ At(p, "record_orphan")
          /\ Raise(p, "incomplete")
    /\ UNCHANGED <<stores, sweep>>

\* The Object is created and the answer is lost, or does not describe it.
LostPutObject(p) ==
    /\ Fault
    /\ At(p, "put_object") /\ RowsOf(objects, call[p].req.id) = {}
    /\ objects' = objects \union {ObjectOf(call[p].req)}
    /\ \/ Raise(p, "error")
       \/ Raise(p, "identity_conflict")
    /\ UNCHANGED <<tables, sweep>>

\* The transaction commits and the answer is lost.
LostCommit(p) ==
    /\ Fault
    /\ At(p, "commit") /\ ~ CommitConflicts(p)
    /\ CommitRows(p)
    /\ FailSecondPhase(p)
    /\ UNCHANGED <<orphans, objects, sweep>>

\* The Catalog reports a conflict that no committed row explains, or (when a
\* configuration raises IdentityConflict itself) put_resource answers with a
\* row that is not the one it was given.
SpuriousConflict(p) ==
    /\ Fault
    /\ call[p].pc \in {"put_resource", "put_provenance", "commit"}
    /\ GoTo(p, "winner")
    /\ UNCHANGED <<stores, sweep>>

\* The same answer to an artifact, which re-raises IdentityConflict at once.
MismatchedPut(p) ==
    /\ Fault
    /\ At(p, "put_resource") /\ call[p].req.profile = "ARTIFACT"
    /\ Raise(p, "identity_conflict")
    /\ UNCHANGED <<stores, sweep>>

\* The publishing process dies; its transaction is rolled back.
Crash(p) ==
    /\ Fault
    /\ ~ At(p, "idle")
    /\ Raise(p, "crashed")
    /\ UNCHANGED <<stores, sweep>>

PublishFault(p) ==
    \/ RemoteFailure(p)     \/ LostPutObject(p) \/ LostCommit(p)
    \/ SpuriousConflict(p)  \/ MismatchedPut(p) \/ Crash(p)

--------------------------------------------------------------------------------
(* discover_orphans(record=True), called again and again along its cursor. *)

SmallerOf(m, n) == IF m < n THEN m ELSE n

\* (a faulty variant: the page comes without its cursor)
DiscoverPageNoCursor(s) ==
    /\ sweep[s].page = {} /\ sweep[s].suspect = {}
    /\ \E page \in SUBSET objects :
           /\ Cardinality(page) = SmallerOf(PageLimit, Cardinality(objects))
           /\ sweep' = [sweep EXCEPT ![s].page = page]
    /\ UNCHANGED <<stores, call, faults>>

\* One page of Objects that this pass has not listed; the order is the store's.
DiscoverPage(s) ==
    /\ sweep[s].page = {} /\ sweep[s].suspect = {}
    /\ LET left == objects \ sweep[s].listed
       IN  \E page \in SUBSET left :
               /\ Cardinality(page) = SmallerOf(PageLimit, Cardinality(left))
               /\ sweep' = [sweep EXCEPT ![s] =
                      [listed  |-> IF page = left THEN {}
                                   ELSE sweep[s].listed \union page,
                       page    |-> page,
                       suspect |-> {}]]
    /\ UNCHANGED <<stores, call, faults>>

\* get_resource for one item: metadata of either profile clears it.
Inspect(s) ==
    /\ sweep[s].suspect = {}
    /\ \E item \in sweep[s].page :
           sweep' = [sweep EXCEPT
               ![s].page = @ \ {item},
               ![s].suspect = IF RowsOf(metadata, item.id) = {} THEN {item} ELSE {}]
    /\ UNCHANGED <<stores, call, faults>>

RecordSuspect(s) ==
    /\ \E item \in sweep[s].suspect : orphans' = PutOrphan(item, "DISCOVERED")
    /\ sweep' = [sweep EXCEPT ![s].suspect = {}]
    /\ UNCHANGED <<metadata, provenance, objects, call, faults>>

\* A remote operation of the page raises: its cursor is lost, the pass restarts.
SweepFails(s) ==
    /\ Fault
    /\ sweep' = [sweep EXCEPT ![s] = [listed |-> {}, page |-> {}, suspect |-> {}]]
    /\ UNCHANGED <<stores, call>>

SweepStep(s) == DiscoverPage(s) \/ Inspect(s) \/ RecordSuspect(s)

--------------------------------------------------------------------------------

Init ==
    /\ metadata = {} /\ provenance = {} /\ orphans = {} /\ objects = {}
    /\ call = [p \in Publishers |->
           [pc |-> "idle", req |-> CHOOSE req \in Requests : TRUE, attempt |-> 0,
            outcome |-> "none", created |-> FALSE, receipt |-> {}]]
    /\ sweep = [s \in Sweepers |-> [listed |-> {}, page |-> {}, suspect |-> {}]]
    /\ faults = 0

Next ==
    \/ \E p \in Publishers : Begin(p) \/ Retry(p) \/ PublishStep(p) \/ PublishFault(p)
    \/ \E s \in Sweepers : SweepStep(s) \/ SweepFails(s)

Spec == Init /\ [][Next]_vars

\* A call that runs goes on to its end; a call that failed is made again, as
\* operations.md asks; discover_orphans is called again and again.
Fairness ==
    /\ \A p \in Publishers : WF_vars(PublishStep(p)) /\ WF_vars(Retry(p))
    /\ \A s \in Sweepers : WF_vars(SweepStep(s))

FairSpec == Spec /\ Fairness

--------------------------------------------------------------------------------
(* Safety. *)

\* A logical identity names one version, whatever the profile and whoever races
\* for it: no table ever holds two rows under one identity.
UniqueIdentity ==
    \A table \in {metadata, provenance, objects} :
        \A left, right \in table : left.id = right.id => left = right

\* An artifact's metadata is committed only over an Object with those bytes.
ArtifactHasObject ==
    \A row \in metadata : row.profile = "ARTIFACT" =>
        [id |-> row.id, content |-> row.content] \in objects

\* Metadata and provenance are one transaction: the provenance rows are
\* exactly those the metadata rows call for, from the same attempt.
ProvenanceAtomic ==
    provenance = UNION {ProvenanceRecords(row) : row \in metadata}

\* What a row says was asked for.
Requested(row) == [profile |-> row.profile, id |-> row.id,
                   content |-> row.content, document |-> row.document]

\* A receipt shows a committed row that is what the call asked for.
ReceiptTruthful ==
    \A p \in Publishers :
        /\ call[p].outcome \in Succeeded => call[p].receipt # {}
        /\ \A row \in call[p].receipt : row \in metadata /\ Requested(row) = call[p].req

\* Only the attempt that wrote the row says so: of all the calls that publish
\* one identity, at most one returns a receipt that is not idempotent.
OnlyTheWriterPublishes ==
    \A p \in Publishers : call[p].outcome = "published" =>
        call[p].receipt = {row \in metadata : row.created = <<p, call[p].attempt>>}

\* IdentityConflict is raised over a publication or an Object that does differ.
\* Only an artifact call that met a corrupt answer can raise it over nothing.
ConflictIsReal ==
    \A p \in Publishers : call[p].outcome = "identity_conflict" =>
        LET req == call[p].req
        IN  \/ \E row \in RowsOf(metadata, req.id) : Requested(row) # req
            \/ /\ req.profile = "ARTIFACT"
               /\ \/ \E object \in RowsOf(objects, req.id) : object.content # req.content
                  \/ faults >= 1

\* Racing publishers alone make no call fail: whoever loses finds the winner.
FailuresNeedFaults ==
    \A p \in Publishers : call[p].outcome \in Retryable => faults >= 1

HasOrphanRow(object) ==
    \E row \in orphans : row.id = object.id /\ row.content = object.content

\* IncompletePublication comes with an orphan candidate; it takes a second
\* fault, in put_orphan itself, to raise it without one.
IncompleteLeavesEvidence ==
    \A p \in Publishers : call[p].outcome = "incomplete" =>
        HasOrphanRow(ObjectOf(call[p].req)) \/ faults >= 2

\* An orphan candidate names an Object that exists, with its digest.
OrphanNamesObject ==
    \A row \in orphans : [id |-> row.id, content |-> row.content] \in objects

\* Action property: committed rows and Objects are never changed or removed, by
\* a retry, a loser of a race, or a sweep that meets a recorded candidate.
NothingRewritten ==
    [][/\ metadata \subseteq metadata'  /\ provenance \subseteq provenance'
       /\ objects \subseteq objects'    /\ orphans \subseteq orphans']_vars

\* What a call relies on between two remote operations stays true while other
\* calls go on ...
CallInStep(p) ==
    LET c == call[p]
    IN  /\ c.pc # "idle" => c.outcome = "none" /\ c.receipt = {}
        /\ c.pc \in {"put_object", "stat", "record_orphan"} => c.req.profile = "ARTIFACT"
        /\ c.pc = "stat" => RowsOf(objects, c.req.id) # {}
        /\ /\ c.pc \in {"put_resource", "put_provenance", "commit", "winner", "record_orphan"}
           /\ c.req.profile = "ARTIFACT"
           => ObjectOf(c.req) \in objects
        /\ c.pc = "winner" => RowsOf(metadata, c.req.id) # {} \/ faults >= 1
        /\ c.pc = "record_orphan" => faults >= 1
        /\ c.pc \in {"lookup", "put_object", "stat",
                     "put_resource", "put_provenance", "commit", "winner"} =>
               \A row \in metadata : row.created # <<p, c.attempt>>
        /\ \A row \in metadata : row.created[1] = p => row.created[2] <= c.attempt

\* ... and what a sweep has listed stays there.
SweepInStep(s) == sweep[s].page \subseteq objects /\ sweep[s].suspect \subseteq objects

InStep == /\ \A p \in Publishers : CallInStep(p)
          /\ \A s \in Sweepers : SweepInStep(s)

\* Whatever fails or dies half way, the tables agree with one another, and with
\* what each running call and sweep has seen of them.
Consistent == /\ TypeOK /\ InStep /\ UniqueIdentity /\ ArtifactHasObject
              /\ ProvenanceAtomic /\ OrphanNamesObject

--------------------------------------------------------------------------------
(* Under each identity, a register that is written once. *)

PhaseOf(p) ==
    IF call[p].pc # "idle"
    THEN IF \E row \in metadata : row.created = <<p, call[p].attempt>>
         THEN "in doubt" ELSE "pending"
    ELSE CASE call[p].outcome \in Succeeded                       -> "stored"
           [] call[p].outcome \in {"identity_conflict", "rejected"} -> "declined"
           [] call[p].outcome \in Retryable                       -> "unknown"
           [] OTHER                                               -> "new"

PublishedUnder(id) == {Requested(row) : row \in RowsOf(metadata, id)}

PublishOp(p) == [key |-> call[p].req.id, value |-> call[p].req, phase |-> PhaseOf(p)]

Registers == INSTANCE WriteOnce WITH
    Clients <- Publishers, Keys <- Resources, Values <- Requests,
    MaxDisturbances <- MaxFaults, disturbances <- faults,
    holds <- [id \in Resources |-> PublishedUnder(id)],
    op <- [p \in Publishers |-> PublishOp(p)]

\* "namespace plus kind plus name plus version plus digest is immutable", and a
\* receipt is for what is there: for all its remote operations, publish takes
\* effect in one step, and an answer that it did not is never wrong.
PublicationIsWriteOnce == Registers!Spec

--------------------------------------------------------------------------------
(* Liveness. *)

\* With sweeps going on, every Object comes to be known: there is metadata
\* under its identity or an orphan candidate for it.
ObjectsAccountedFor ==
    \A object \in ObjectRows :
        object \in objects ~> RowsOf(metadata, object.id) # {} \/ HasOrphanRow(object)

\* A failed publication that is made again, with the same identity and
\* content, is settled once the faults are over.
RetriesSettle ==
    \A p \in Publishers :
        call[p].outcome \in Retryable ~>
            call[p].outcome \in Succeeded \union {"identity_conflict", "rejected"}

--------------------------------------------------------------------------------
(* What the contract says of partial publication, and the code does not do. *)

\* A call that created an Object and failed leaves the artifact's metadata or
\* an orphan candidate behind, when no remote operation has failed.
PartialPublicationHasEvidence ==
    \A p \in Publishers :
        /\ call[p].created /\ At(p, "idle") /\ call[p].outcome \notin Succeeded
        /\ faults = 0
        => \/ \E row \in RowsOf(metadata, call[p].req.id) : row.profile = "ARTIFACT"
           \/ HasOrphanRow(ObjectOf(call[p].req))

\* Under sweeps that go on, every Object whose publication is over comes to be
\* an artifact's or an orphan candidate's.
OrphansDiscovered ==
    \A object \in ObjectRows :
        object \in objects ~>
            \/ \E row \in RowsOf(metadata, object.id) : row.profile = "ARTIFACT"
            \/ HasOrphanRow(object)
================================================================================
