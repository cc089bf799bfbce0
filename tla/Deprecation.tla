------------------------------ MODULE Deprecation ------------------------------
(***************************************************************************)
(* Deprecation of a published version: deprecate of both publishers, and   *)
(* MetadataRepository.deprecate_resource under it.                         *)
(*                                                                         *)
(* The call reads the row, patches its state on the condition that the     *)
(* recordVersion has not moved, checks the answer of the patch while the   *)
(* transaction is still open, and commits.  A conflict, noticed by the     *)
(* patch or by the commit, makes it read the row once more.                *)
(*                                                                         *)
(* The Catalog is external: a patch takes effect when its transaction      *)
(* commits, advances the recordVersion, and conflicts if another commit    *)
(* has advanced it since it was read.                                      *)
(***************************************************************************)
EXTENDS Naturals, FiniteSets

CONSTANTS
    Callers,       \* processes that deprecate
    Resources,     \* resource identities
    Digests,       \* everything else that a row says and a patch must leave
    MaxAttempts,   \* bound on the attempts of one caller
    MaxFaults      \* bound on remote faults and crashes in a behaviour

Profiles == {"ARTIFACT", "CONFIGURATION"}
States == {"PUBLISHED", "DEPRECATED"}

ASSUME NonEmptyAssumption == Resources # {} /\ Digests # {}
ASSUME BoundsAssumption == MaxAttempts \in Nat \ {0} /\ MaxFaults \in Nat

VARIABLES
    resources,     \* table of resource versions
    call,          \* call[p]: the deprecate call of p
    transitions,   \* history: which attempt of whom moved which row
    faults         \* remote faults and crashes so far

vars == <<resources, call, transitions, faults>>

--------------------------------------------------------------------------------

\* A row is inserted with recordVersion 0; one more value than two states need,
\* for answers that are wrong.
RecordVersions == 0 .. 2

ResourceRows == [id : Resources, profile : Profiles, digest : Digests,
                 state : States, version : RecordVersions]

Attempts == 1 .. MaxAttempts

\* "invalid": InvalidRepositoryResult over what the patch answered or lacked.
\* "conflict": the conflict is raised again.
Refused == {"not_found", "incompatible"}
Failed == {"invalid", "conflict", "error", "crashed"}

\* held is the row as it was read, answer the row that the call hands out.
Calls == [pc : {"idle", "get", "patch", "commit", "winner"},
          id : Resources, wanted : Profiles, attempt : 0 .. MaxAttempts,
          held : SUBSET ResourceRows, answer : SUBSET ResourceRows,
          outcome : {"none", "deprecated"} \union Refused \union Failed]

TypeOK ==
    /\ resources \subseteq ResourceRows
    /\ call \in [Callers -> Calls]
    /\ \A p \in Callers : call[p].pc # "idle" => call[p].attempt # 0
    /\ transitions \subseteq Resources \X Callers \X Attempts
    /\ faults \in 0 .. MaxFaults

--------------------------------------------------------------------------------

ById(id) == {row \in resources : row.id = id}
At(p, step) == call[p].pc = step

GoTo(p, step) == call' = [call EXCEPT ![p].pc = step]

Return(p, row) ==
    call' = [call EXCEPT ![p].pc = "idle", ![p].outcome = "deprecated",
                         ![p].answer = {row}]

Raise(p, outcome) ==
    call' = [call EXCEPT ![p].pc = "idle", ![p].outcome = outcome,
                         ![p].answer = {}]

\* What the patch makes of a row.
Patched(row) == [row EXCEPT !.state = "DEPRECATED", !.version = row.version + 1]

--------------------------------------------------------------------------------

\* publish, around the deprecations.
Publish(id) ==
    /\ ById(id) = {}
    /\ \E profile \in Profiles, digest \in Digests :
           resources' = resources \union
               {[id |-> id, profile |-> profile, digest |-> digest,
                 state |-> "PUBLISHED", version |-> 0]}
    /\ UNCHANGED <<call, transitions, faults>>

Enter(p, id, wanted, attempt) ==
    /\ call' = [call EXCEPT ![p] =
           [pc |-> "get", id |-> id, wanted |-> wanted, attempt |-> attempt,
            held |-> {}, answer |-> {}, outcome |-> "none"]]
    /\ UNCHANGED <<resources, transitions, faults>>

\* wanted is the profile of the publisher that is called.
Begin(p) ==
    /\ At(p, "idle") /\ call[p].attempt = 0
    /\ \E id \in Resources, wanted \in Profiles : Enter(p, id, wanted, 1)

\* "re-read the resource and repeat the same public call"
Retry(p) ==
    /\ At(p, "idle") /\ call[p].outcome \in Failed
    /\ call[p].attempt < MaxAttempts
    /\ Enter(p, call[p].id, call[p].wanted, call[p].attempt + 1)

\* (a faulty variant: a row that is deprecated already is refused)
ConsiderStrict(p, row) ==
    IF row.profile = call[p].wanted /\ row.state = "PUBLISHED"
    THEN call' = [call EXCEPT ![p].pc = "patch", ![p].held = {row}]
    ELSE Raise(p, "incompatible")

\* What deprecate does with the row it has read.
Consider(p, row) ==
    \/ row.profile # call[p].wanted /\ Raise(p, "incompatible")
    \/ /\ row.profile = call[p].wanted
       /\ \/ row.state = "DEPRECATED" /\ Return(p, row)
          \/ /\ row.state = "PUBLISHED"
             /\ call' = [call EXCEPT ![p].pc = "patch", ![p].held = {row}]

GetResource(p) ==
    /\ At(p, "get")
    /\ \/ ById(call[p].id) = {} /\ Raise(p, "not_found")
       \/ \E row \in ById(call[p].id) : Consider(p, row)
    /\ UNCHANGED <<resources, transitions, faults>>

\* (a faulty variant: the patch carries no expected_version)
UnmovedUnchecked(p) == {row \in resources : \E held \in call[p].held : row.id = held.id}

\* The row, if its recordVersion is still the one that was read.
Unmoved(p) ==
    {row \in resources : \E held \in call[p].held :
                             row.id = held.id /\ row.version = held.version}

\* The transaction opens; the patch is staged and answers with the new row.
Patch(p) ==
    /\ At(p, "patch")
    /\ \/ Unmoved(p) = {} /\ GoTo(p, "winner")
       \/ \E row \in Unmoved(p) :
              call' = [call EXCEPT ![p].pc = "commit", ![p].answer = {Patched(row)}]
    /\ UNCHANGED <<resources, transitions, faults>>

\* (a faulty variant: the row that was patched stays beside its successor)
TransitionInserted(p, row) ==
    /\ resources' = resources \union {Patched(row)}
    /\ transitions' = transitions \union {<<row.id, p, call[p].attempt>>}

Transition(p, row) ==
    /\ resources' = (resources \ {row}) \union {Patched(row)}
    /\ transitions' = transitions \union {<<row.id, p, call[p].attempt>>}

\* Another transaction may have committed the row since it was patched.
Commit(p) ==
    /\ At(p, "commit")
    /\ \/ Unmoved(p) = {} /\ GoTo(p, "winner") /\ UNCHANGED <<resources, transitions>>
       \/ \E row \in Unmoved(p) :
              /\ Transition(p, row)
              /\ call' = [call EXCEPT ![p].pc = "idle", ![p].outcome = "deprecated"]
    /\ UNCHANGED faults

\* (faulty variants: the conflict is raised without another look; the winner's
\* state is not looked at)
WinnerNotRead(p) ==
    /\ At(p, "winner")
    /\ Raise(p, "conflict")
    /\ UNCHANGED <<resources, transitions, faults>>

WinnerUnchecked(p) ==
    /\ At(p, "winner")
    /\ \E row \in ById(call[p].id) : Return(p, row)
    /\ UNCHANGED <<resources, transitions, faults>>

\* After a conflict: is the row deprecated by now?
Winner(p) ==
    /\ At(p, "winner")
    /\ \/ ById(call[p].id) = {} /\ Raise(p, "not_found")
       \/ \E row \in ById(call[p].id) :
              \/ row.state = "DEPRECATED" /\ Return(p, row)
              \/ row.state = "PUBLISHED" /\ Raise(p, "conflict")
    /\ UNCHANGED <<resources, transitions, faults>>

DeprecateStep(p) == GetResource(p) \/ Patch(p) \/ Commit(p) \/ Winner(p)

--------------------------------------------------------------------------------
(* What can go wrong.  Each costs one of MaxFaults. *)

Fault == faults < MaxFaults /\ faults' = faults + 1

\* A remote operation raises without effect, or its answer cannot be parsed; an
\* open transaction is rolled back.
RemoteFailure(p) ==
    /\ Fault
    /\ ~ At(p, "idle")
    /\ Raise(p, "error")
    /\ UNCHANGED <<resources, transitions>>

\* The row that was read says nothing of its recordVersion.
NoRecordVersion(p) ==
    /\ Fault
    /\ At(p, "get")
    /\ \E row \in ById(call[p].id) : row.state = "PUBLISHED" /\ row.profile = call[p].wanted
    /\ Raise(p, "invalid")
    /\ UNCHANGED <<resources, transitions>>

\* (a faulty variant: only the state is looked at)
AcceptedByState(held, row) == row.state = "DEPRECATED"

\* _deprecation_result accepts one Record, of the same identity and the same
\* immutable fields, that is deprecated and has another recordVersion.
Accepted(held, row) ==
    /\ row = [held EXCEPT !.state = "DEPRECATED", !.version = row.version]
    /\ row.version # held.version

\* (a faulty variant: the answer is checked after the transaction)
PatchMisansweredLate(p) ==
    /\ Fault
    /\ At(p, "patch")
    /\ \E row \in Unmoved(p) : Transition(p, row)
    /\ Raise(p, "invalid")

\* The patch is staged, but answers with another row or with none: unless that
\* passes for the patched row, the transaction is rolled back.
PatchMisanswered(p) ==
    /\ Fault
    /\ At(p, "patch") /\ Unmoved(p) # {}
    /\ \/ Raise(p, "invalid")
       \/ \E held \in call[p].held, row \in ResourceRows :
              /\ Accepted(held, row)
              /\ call' = [call EXCEPT ![p].pc = "commit", ![p].answer = {row}]
    /\ UNCHANGED <<resources, transitions>>

\* The Catalog reports a conflict that no other commit explains.
SpuriousConflict(p) ==
    /\ Fault
    /\ call[p].pc \in {"patch", "commit"}
    /\ GoTo(p, "winner")
    /\ UNCHANGED <<resources, transitions>>

\* The transaction commits; its answer is lost, or is taken for a conflict.
LostCommit(p) ==
    /\ Fault
    /\ At(p, "commit")
    /\ \E row \in Unmoved(p) : Transition(p, row)
    /\ Raise(p, "error") \/ GoTo(p, "winner")

\* The calling process dies; its transaction is rolled back.
Crash(p) ==
    /\ Fault
    /\ ~ At(p, "idle")
    /\ Raise(p, "crashed")
    /\ UNCHANGED <<resources, transitions>>

DeprecateFault(p) ==
    \/ RemoteFailure(p)    \/ NoRecordVersion(p) \/ PatchMisanswered(p)
    \/ SpuriousConflict(p) \/ LostCommit(p)      \/ Crash(p)

--------------------------------------------------------------------------------

Init ==
    /\ resources = {}
    /\ call = [p \in Callers |->
           [pc |-> "idle", id |-> CHOOSE id \in Resources : TRUE, wanted |-> "ARTIFACT",
            attempt |-> 0, held |-> {}, answer |-> {}, outcome |-> "none"]]
    /\ transitions = {}
    /\ faults = 0

Next ==
    \/ \E id \in Resources : Publish(id)
    \/ \E p \in Callers : Begin(p) \/ Retry(p) \/ DeprecateStep(p) \/ DeprecateFault(p)

Spec == Init /\ [][Next]_vars

\* A call that runs goes on to its end; a call that failed is made again.
Fairness == \A p \in Callers : WF_vars(DeprecateStep(p)) /\ WF_vars(Retry(p))

FairSpec == Spec /\ Fairness

--------------------------------------------------------------------------------
(* Safety. *)

\* A row is moved by one attempt of one caller or by none, and its state and its
\* recordVersion say which: however many callers race and retry, deprecation
\* happens once.
MovedOnce ==
    \A row \in resources :
        LET moves == {move \in transitions : move[1] = row.id}
        IN  \/ row.state = "PUBLISHED"  /\ row.version = 0 /\ moves = {}
            \/ row.state = "DEPRECATED" /\ row.version = 1
               /\ \E move \in moves : moves = {move}

\* A row that is handed out is the stored row; its recordVersion may differ when
\* the patch was answered wrongly.
AnswerIsStored ==
    \A p \in Callers : call[p].outcome = "deprecated" =>
        \E stored \in ById(call[p].id) :
            /\ stored.state = "DEPRECATED" /\ stored.profile = call[p].wanted
            /\ \E row \in call[p].answer :
                   /\ call[p].answer = {row}
                   /\ row = [stored EXCEPT !.version = row.version]
                   /\ row.version # stored.version => faults >= 1

\* "an invalid result must not commit a transition that the caller was told had
\* failed": nor does any other call that was refused or lost a conflict.
RefusalMovesNothing ==
    \A p \in Callers :
        call[p].outcome \in Refused \union {"invalid"} =>
            <<call[p].id, p, call[p].attempt>> \notin transitions

\* Callers that race for one row all succeed: the losers converge on the winner.
FailuresNeedFaults ==
    \A p \in Callers : call[p].outcome \in Failed => faults >= 1

\* Action property: a row is inserted as published or moved from PUBLISHED to
\* DEPRECATED, by one recordVersion, and keeps whatever else it says.
OnlyForward ==
    [][/\ \A row \in resources \ resources' :
              row.state = "PUBLISHED" /\ Patched(row) \in resources'
       /\ \A row \in resources' \ resources :
              \/ row.state = "PUBLISHED" /\ ById(row.id) = {}
              \/ \E old \in resources : row = Patched(old)]_vars

\* What a call relies on between two remote operations stays true while others
\* go on: the row it holds is stored, as it was or moved by somebody.
CallInStep(p) ==
    LET c == call[p]
    IN  /\ c.pc # "idle" => c.outcome = "none"
        /\ c.pc \in {"get", "patch", "commit"} =>
               <<c.id, p, c.attempt>> \notin transitions
        /\ \A move \in transitions : move[2] = p => move[3] <= c.attempt
        /\ c.pc \in {"patch", "commit", "winner"} =>
               \E held \in c.held :
                   /\ c.held = {held}
                   /\ held.id = c.id /\ held.profile = c.wanted
                   /\ held.state = "PUBLISHED"
                   /\ held \in resources \/ Patched(held) \in resources
                   /\ c.pc = "winner" => Patched(held) \in resources \/ faults >= 1
                   /\ c.pc = "commit" =>
                          \E row \in c.answer :
                              /\ c.answer = {row}
                              /\ row = [Patched(held) EXCEPT !.version = row.version]
                              /\ row # Patched(held) => faults >= 1

InStep ==
    /\ \A left, right \in resources : left.id = right.id => left = right
    /\ \A move \in transitions : ById(move[1]) # {}
    /\ \A p \in Callers : CallInStep(p)

\* Rows, calls and answers are well typed, and agree with one another.
Consistent == TypeOK /\ InStep

--------------------------------------------------------------------------------
(* Each row's mark is written once. *)

PhaseOf(p) ==
    IF call[p].pc # "idle"
    THEN IF <<call[p].id, p, call[p].attempt>> \in transitions THEN "in doubt" ELSE "pending"
    ELSE CASE call[p].outcome = "deprecated" -> "stored"
           [] call[p].outcome \in Refused    -> "declined"
           [] call[p].outcome \in Failed     -> "unknown"
           [] OTHER                          -> "new"

MarkOf(id) == {row.state : row \in {row \in ById(id) : row.state = "DEPRECATED"}}

MarkOp(p) == [key |-> call[p].id, value |-> "DEPRECATED", phase |-> PhaseOf(p)]

Marks == INSTANCE WriteOnce WITH
    Clients <- Callers, Keys <- Resources, Values <- {"DEPRECATED"},
    MaxDisturbances <- MaxFaults, disturbances <- faults,
    holds <- [id \in Resources |-> MarkOf(id)],
    op <- [p \in Callers |-> MarkOp(p)]

\* deprecate takes effect in one step between call and return, once for each
\* row, and its answer says what it did.
DeprecationIsWriteOnce == Marks!Spec

--------------------------------------------------------------------------------
(* What the channels see of it. *)

\* A row of Channels is one of stored-resources without its recordVersion.
Version(row) == [id |-> row.id, profile |-> row.profile, digest |-> row.digest,
                 state |-> row.state]
VersionRows == {Version(row) : row \in resources}

Versions == INSTANCE Channels WITH
    Promoters <- {}, Readers <- {}, Families <- Resources,
    FamilyOf <- [id \in Resources |-> id], Names <- {"stable"},
    Asks <- [form : {"snapshot"}, wanted : Profiles], MaxVersion <- 1, MaxFaults <- 0,
    resources <- VersionRows, pointers <- {}, call <- [p \in {} |-> {}],
    read <- [r \in {} |-> {}], faults <- 0

\* A deprecation is what Channels takes it for: one step, of a published row, which
\* becomes deprecated and nothing else; reads, patches, rollbacks and faults show in
\* no row.
DeprecationIsChannels == Versions!Spec

--------------------------------------------------------------------------------
(* Liveness. *)

\* A failed deprecation of a row that is there, asked of the right publisher, ends
\* with the row deprecated when it is made again, once the faults are over.
RetriesDeprecate ==
    \A p \in Callers :
        /\ call[p].outcome \in Failed
        /\ \E row \in ById(call[p].id) : row.profile = call[p].wanted
        ~> call[p].outcome = "deprecated"
================================================================================
