----------------------------- MODULE ResourceStore -----------------------------
(***************************************************************************)
(* The two halves of a publish call that is given a channel: the           *)
(* publication of the resource, then the promotion of what it published or *)
(* found, by the channel repository that Channels describes.               *)
(*                                                                         *)
(* The halves are two transactions.  Whatever ends the call in between or  *)
(* in the second half (arguments that do not go together, a deprecation, a *)
(* lost race for the channel, a failure, a crash) leaves the first half    *)
(* committed; the caller retries.  Publication has the inside of the first *)
(* half, its Objects and documents; here its commit is one step, and what  *)
(* they decide is left open.  Composition shows that the one implements    *)
(* the other.                                                              *)
(*                                                                         *)
(* Publications, deprecations and promotions by others go on as in         *)
(* Channels, and the store is shown to be one of its behaviours.  Readers  *)
(* change nothing that a publish call looks at, and are left to Channels.  *)
(***************************************************************************)
EXTENDS Channels

CONSTANTS
    Publishers,    \* the promoters that publish with a channel
    MaxLapses      \* bound on faults of the publications in a behaviour

ASSUME PublishersAssumption == Publishers \subseteq Promoters
ASSUME OwnAsksAssumption == [form : {"snapshot"}, wanted : Profiles] \subseteq Asks
ASSUME LapsesAssumption == MaxLapses \in Nat

VARIABLES
    publish,       \* publish[p]: the publish call of p
    lapses         \* faults of publications so far

storeVars == <<resources, pointers, call, read, faults, publish, lapses>>

\* channel and expected_pointer_version: neither, both, or a pair that _promote
\* or promote refuses with ValueError.
Pairings == {"neither", "both", "malformed"}

PublishRequests == [id : Resources, profile : Profiles, digest : Digests,
                    pairing : Pairings, name : Names, expected : 0 .. MaxVersion - 1]

Unpublished == {"none", "rejected", "identity_conflict", "failed"}
Unpromoted == {"bad_arguments", "stale", "error", "incompatible"}
Verdicts == Unpublished \union Unpromoted \union {"published"}

\* held is the row the call settled on, {} before it has.
PublishCalls == [pc : {"idle", "lookup", "commit", "winner", "settled", "promoting"},
                 req : PublishRequests, held : SUBSET ResourceRows, outcome : Verdicts]

StoreTypeOK ==
    /\ TypeOK
    /\ publish \in [Publishers -> PublishCalls]
    /\ lapses \in 0 .. MaxLapses

--------------------------------------------------------------------------------

Candidate(req) == [id |-> req.id, profile |-> req.profile, digest |-> req.digest,
                   state |-> "PUBLISHED"]

\* (a faulty variant: a row is matched by its identity)
SamePublicationById(req, row) == row.id = req.id

\* Everything immutable is compared; a row deprecated since is the same publication.
SamePublication(req, row) ==
    row.id = req.id /\ row.profile = req.profile /\ row.digest = req.digest

Is(p, step) == publish[p].pc = step
ChannelOf(req) == <<FamilyOf[req.id], req.name>>

Advance(p, step) == publish' = [publish EXCEPT ![p].pc = step]
Return(p, outcome) ==
    publish' = [publish EXCEPT ![p].pc = "idle", ![p].outcome = outcome]

\* _existing_receipt: the row found is the one to promote, or another's.
SettleOn(p, row) ==
    IF SamePublication(publish[p].req, row)
    THEN publish' = [publish EXCEPT ![p].pc = "settled", ![p].held = {row}]
    ELSE Return(p, "identity_conflict")

--------------------------------------------------------------------------------
(* publish, up to the row it settles on *)

\* The document of a configuration is validated on entry.
Start(p, req) ==
    \E outcome \in IF req.profile = "CONFIGURATION" THEN {"none", "rejected"} ELSE {"none"} :
        publish' = [publish EXCEPT ![p] =
            [pc |-> IF outcome = "none" THEN "lookup" ELSE "idle", req |-> req,
             held |-> {}, outcome |-> outcome]]

BeginPublish(p) ==
    /\ Is(p, "idle") /\ publish[p].outcome = "none"
    /\ \E req \in PublishRequests : Start(p, req)
    /\ UNCHANGED <<resources, pointers, call, read, faults, lapses>>

\* The same call again, with the pointer version it had or the one read now.
RetryWith(p, expected) ==
    /\ Is(p, "idle") /\ publish[p].outcome \in {"failed", "error", "stale"}
    /\ Start(p, [publish[p].req EXCEPT !.expected = expected])
    /\ UNCHANGED <<resources, pointers, call, read, faults, lapses>>

Repeat(p) == RetryWith(p, publish[p].req.expected)

Reread(p) == /\ CurrentVersion(ChannelOf(publish[p].req)) < MaxVersion
             /\ RetryWith(p, CurrentVersion(ChannelOf(publish[p].req)))

\* (a faulty variant: whatever is there already is a conflict)
LookupStrict(p) ==
    /\ Is(p, "lookup")
    /\ \/ ById(publish[p].req.id) = {} /\ Advance(p, "commit")
       \/ ById(publish[p].req.id) # {} /\ Return(p, "identity_conflict")
    /\ UNCHANGED <<resources, pointers, call, read, faults, lapses>>

Lookup(p) ==
    /\ Is(p, "lookup")
    /\ LET found == ById(publish[p].req.id)
       IN  \/ found = {} /\ Advance(p, "commit")
           \/ \E row \in found : SettleOn(p, row)
    /\ UNCHANGED <<resources, pointers, call, read, faults, lapses>>

\* (a faulty variant: the pairing is checked inside the transaction, which rolls back)
CommitInOne(p) ==
    /\ Is(p, "commit")
    /\ LET req == publish[p].req
       IN  IF req.pairing = "malformed"
           THEN Return(p, "bad_arguments") /\ UNCHANGED resources
           ELSE IF ById(req.id) = {}
           THEN /\ resources' = resources \union {Candidate(req)}
                /\ publish' = [publish EXCEPT ![p].pc = "settled", ![p].held = {Candidate(req)}]
           ELSE Advance(p, "winner") /\ UNCHANGED resources
    /\ UNCHANGED <<pointers, call, read, faults, lapses>>

\* (a faulty variant: the caller's promotion starts before the row is inserted)
CommitDeferred(p) ==
    /\ Is(p, "commit")
    /\ IF ById(publish[p].req.id) = {}
       THEN publish' = [publish EXCEPT ![p].pc = "settled",
                                       ![p].held = {Candidate(publish[p].req)}]
       ELSE Advance(p, "winner")
    /\ UNCHANGED <<resources, pointers, call, read, faults, lapses>>

\* put_resource with mode if_absent, in its transaction.
Commit(p) ==
    /\ Is(p, "commit")
    /\ LET req == publish[p].req
       IN  IF ById(req.id) = {}
           THEN /\ resources' = resources \union {Candidate(req)}
                /\ publish' = [publish EXCEPT ![p].pc = "settled", ![p].held = {Candidate(req)}]
           ELSE Advance(p, "winner") /\ UNCHANGED resources
    /\ UNCHANGED <<pointers, call, read, faults, lapses>>

\* After a conflict: the row of whoever won, or the conflict itself when no row
\* explains it.
Winner(p) ==
    /\ Is(p, "winner")
    /\ LET found == ById(publish[p].req.id)
       IN  \/ found = {} /\ Return(p, "failed")
           \/ \E row \in found : SettleOn(p, row)
    /\ UNCHANGED <<resources, pointers, call, read, faults, lapses>>

\* The document of an artifact is validated once its content is there; the Object
\* under its identity may be another's.
Refuse(p) ==
    /\ publish[p].req.profile = "ARTIFACT"
    /\ \/ publish[p].pc \in {"lookup", "commit"} /\ Return(p, "rejected")
       \/ Is(p, "commit") /\ Return(p, "identity_conflict")
    /\ UNCHANGED <<resources, pointers, call, read, faults, lapses>>

--------------------------------------------------------------------------------
(* publish, the promotion of that row *)

\* _promote, when there is nothing to promote or no way to.
Finish(p) ==
    /\ Is(p, "settled")
    /\ \/ publish[p].req.pairing = "neither" /\ Return(p, "published")
       \/ publish[p].req.pairing = "malformed" /\ Return(p, "bad_arguments")
    /\ UNCHANGED <<resources, pointers, call, read, faults, lapses>>

PromoteCall(req, held, wanted) ==
    [pc |-> "resolve", ask |-> [form |-> "snapshot", wanted |-> wanted],
     target |-> req.id, held |-> held, name |-> req.name, expected |-> req.expected,
     observed |-> 0, outcome |-> "none"]

\* (a faulty variant: the promotion goes straight to its insertion)
PromoteHeldBlindly(p) ==
    /\ Is(p, "settled") /\ publish[p].req.pairing = "both"
    /\ call' = [call EXCEPT ![p] =
           [PromoteCall(publish[p].req, publish[p].held, publish[p].req.profile) EXCEPT
                !.pc = "put_channel", !.observed = publish[p].req.expected]]
    /\ Advance(p, "promoting")
    /\ UNCHANGED <<resources, pointers, read, faults, lapses>>

PromoteHeld(p) ==
    /\ Is(p, "settled") /\ publish[p].req.pairing = "both"
    /\ call' = [call EXCEPT ![p] =
           PromoteCall(publish[p].req, publish[p].held, publish[p].req.profile)]
    /\ Advance(p, "promoting")
    /\ UNCHANGED <<resources, pointers, read, faults, lapses>>

\* (a faulty variant: the receipt does not wait for what the promotion answers)
ReceiptRegardless(p) ==
    /\ Is(p, "promoting") /\ At(p, "idle")
    /\ Return(p, "published")
    /\ UNCHANGED <<resources, pointers, call, read, faults, lapses>>

\* The receipt, or what the promotion raised.
Receipt(p) ==
    /\ Is(p, "promoting") /\ At(p, "idle")
    /\ Return(p, IF call[p].outcome = "promoted" THEN "published" ELSE call[p].outcome)
    /\ UNCHANGED <<resources, pointers, call, read, faults, lapses>>

PublishStep(p) == \/ Lookup(p) \/ Commit(p)      \/ Winner(p) \/ Refuse(p)
                  \/ Finish(p) \/ PromoteHeld(p) \/ Receipt(p)

--------------------------------------------------------------------------------
(* What can go wrong in the first half.  Each costs one of MaxLapses. *)

Lapse == lapses < MaxLapses /\ lapses' = lapses + 1

\* A remote operation raises without effect, or the process dies.  The first half
\* may be committed by then, and the caller is not told.  A wrong answer about an
\* artifact is raised as a conflict.
PublishFails(p) ==
    /\ Lapse
    /\ \/ /\ publish[p].pc \in {"lookup", "commit", "winner", "settled"}
          /\ Return(p, "failed")
       \/ /\ Is(p, "commit") /\ publish[p].req.profile = "ARTIFACT"
          /\ Return(p, "identity_conflict")
    /\ UNCHANGED <<resources, pointers, call, read, faults>>

\* The transaction commits and its answer is lost.
LostCommit(p) ==
    /\ Lapse
    /\ Is(p, "commit") /\ ById(publish[p].req.id) = {}
    /\ resources' = resources \union {Candidate(publish[p].req)}
    /\ Return(p, "failed")
    /\ UNCHANGED <<pointers, call, read, faults>>

\* A conflict that no row explains.
SpuriousPublishConflict(p) ==
    /\ Lapse
    /\ Is(p, "commit")
    /\ Advance(p, "winner")
    /\ UNCHANGED <<resources, pointers, call, read, faults>>

\* A fault of somebody who publishes nothing, or has failed already.
LapseElsewhere == Lapse /\ UNCHANGED <<resources, pointers, call, read, faults, publish>>

--------------------------------------------------------------------------------

StoreInit ==
    /\ Init
    /\ publish \in [Publishers ->
           {c \in PublishCalls : c.pc = "idle" /\ c.held = {} /\ c.outcome = "none"}]
    /\ lapses = 0

\* The steps of Channels that the store leaves as they are: those of others, and
\* the promotions once begun.
ChannelsStep ==
    \/ \E id \in Resources : Publish(id) \/ Deprecate(id)
    \/ \E p \in Promoters \ Publishers : Begin(p)
    \/ \E p \in Promoters : PromoteStep(p) \/ PromoteFails(p)
                            \/ LostPutChannel(p) \/ SpuriousConflict(p)

StoreNext ==
    \/ ChannelsStep /\ UNCHANGED <<publish, lapses>>
    \/ \E p \in Publishers : BeginPublish(p) \/ Repeat(p) \/ Reread(p) \/ PublishStep(p)
                             \/ PublishFails(p) \/ LostCommit(p)
                             \/ SpuriousPublishConflict(p)
    \/ LapseElsewhere

StoreSpec == StoreInit /\ [][StoreNext]_storeVars

\* A call that runs goes on to its end; a caller whose call failed makes it
\* again, now and then with the version of the pointer that it reads anew.
StoreFairness ==
    /\ \A p \in Promoters : WF_storeVars(PromoteStep(p) /\ UNCHANGED <<publish, lapses>>)
    /\ \A p \in Publishers : WF_storeVars(PublishStep(p)) /\ SF_storeVars(Reread(p))

StoreFairSpec == StoreSpec /\ StoreFairness

--------------------------------------------------------------------------------
(* Safety. *)

\* The row has what the request asked to publish, deprecated since or not.
Carries(row, req) == [row EXCEPT !.state = "PUBLISHED"] = Candidate(req)
Published(req) == \E row \in resources : Carries(row, req)

\* A receipt is whole: its resource is stored with what the caller published, and
\* when a channel was asked for, the pointer row that the caller expected to write
\* is there too, written by this caller.
ReceiptIsWhole ==
    \A p \in Publishers : publish[p].outcome = "published" =>
        LET req == publish[p].req
        IN  /\ Published(req)
            /\ req.pairing = "both" =>
                   [key |-> ChannelOf(req), version |-> req.expected + 1,
                    target |-> req.id, actor |-> p] \in pointers

\* A refusal says what is so.  Nothing that goes wrong after the commit takes the
\* resource back.  A publisher, which promotes under the profile that it published,
\* is told of an incompatible one only when its resource is deprecated.  The
\* identity conflict of a configuration is always with another's content: the
\* second half, which has the same error for a reference that does not match,
\* never raises it here.  (That of an artifact is the subject of ConflictIsReal
\* of Publication, which has the Objects.)
RefusalsAreTrue ==
    \A p \in Publishers :
        LET req == publish[p].req
            outcome == publish[p].outcome
        IN  /\ outcome \in Unpromoted => Published(req)
            /\ outcome = "incompatible" =>
                   \E row \in resources : Carries(row, req) /\ row.state = "DEPRECATED"
            /\ outcome = "identity_conflict" /\ req.profile = "CONFIGURATION" =>
                   ById(req.id) # {} /\ ~ Published(req)

\* Action property: a pointer that a publish call moves goes to the resource that
\* this call asked to publish, with its content, and from the version it expected.
PromotesOwnContent ==
    [][\A row \in pointers' \ pointers : row.actor \in Publishers =>
           LET c == publish[row.actor]
           IN  /\ c.pc = "promoting" /\ c.req.pairing = "both"
               /\ row.target = c.req.id /\ row.version = c.req.expected + 1
               /\ Published(c.req)]_storeVars

\* d is the promotion that the publish call c began, however far it has got.
PromotesFor(c, d) ==
    /\ d.ask = [form |-> "snapshot", wanted |-> c.req.profile]
    /\ d.target = c.req.id /\ d.held = c.held
    /\ d.name = c.req.name /\ d.expected = c.req.expected

\* What the two halves hand to each other stays true while others go on.
HandOver(p) ==
    LET c == publish[p]
    IN  /\ c.pc # "promoting" => At(p, "idle")
        /\ c.pc \in {"settled", "promoting"} =>
               /\ Published(c.req)
               /\ \E row \in c.held : /\ c.held = {row} /\ Carries(row, c.req)
                                      /\ row \in resources \/ row.state = "PUBLISHED"
        /\ c.pc = "promoting" =>
               /\ c.req.pairing = "both"
               /\ PromotesFor(c, call[p])
               /\ At(p, "idle") => call[p].outcome \in {"promoted"} \union Unpromoted
               /\ call[p].outcome = "incompatible" =>
                      \A row \in c.held : row.state = "DEPRECATED"

\* Rows, calls and answers are well typed, and the two halves fit together.
StoreConsistent == StoreTypeOK /\ \A p \in Publishers : HandOver(p)

--------------------------------------------------------------------------------
(* Composition and liveness. *)

\* What a store does to channels is a behaviour of Channels: a publish call is a
\* publication and a promotion of a snapshot, each made as anybody makes it.
StoreIsChannels == Spec

\* A publish call that failed or went stale ends, made again as the operations
\* guide says, with its pointer written; or it is refused, or finds its resource
\* deprecated, its identity taken, or the channel at the bound of the model.
RetriesReachTheChannel ==
    \A p \in Publishers :
        publish[p].outcome \in {"failed", "error", "stale"} ~>
            \/ publish[p].outcome \in {"published", "bad_arguments", "rejected"}
            \/ publish[p].outcome = "identity_conflict" /\ publish[p].req.profile = "ARTIFACT"
            \/ \E row \in ById(publish[p].req.id) :
                   row.state = "DEPRECATED" \/ ~ Carries(row, publish[p].req)
            \/ CurrentVersion(ChannelOf(publish[p].req)) = MaxVersion
================================================================================
