-------------------------------- MODULE Channels --------------------------------
(***************************************************************************)
(* Channels: ChannelRepository.promote, and the resolution of a channel    *)
(* by a consumer (ChannelRepository.get, then get_resource).               *)
(*                                                                         *)
(* A channel of a logical name is an append-only sequence of pointer rows. *)
(* Promotion reads the latest row, compares its version with the one the   *)
(* caller expects, and inserts the successor row under a deterministic id  *)
(* with mode if_absent: of two callers who read the same predecessor, the  *)
(* second one conflicts.                                                   *)
(*                                                                         *)
(* Publications and deprecations of resources happen around it; each is    *)
(* one step here, the commit of its transaction.  Calls are made outside   *)
(* any transaction of the caller's.                                        *)
(***************************************************************************)
EXTENDS Naturals, FiniteSets

CONSTANTS
    Promoters,     \* processes that promote
    Readers,       \* processes that resolve a channel
    Resources,     \* resource identities
    Families,      \* (namespace, kind, name), the identity without its version
    FamilyOf,      \* the family of each identity
    Names,         \* channel names
    Digests,       \* content digests
    Asks,          \* the forms of target and expected profiles callers use
    MaxVersion,    \* bound on the pointer versions of a channel
    MaxFaults      \* bound on remote faults and crashes in a behaviour

Profiles == {"ARTIFACT", "CONFIGURATION"}
States == {"PUBLISHED", "DEPRECATED"}
Forms == {"snapshot", "ref", "identity"}    \* the three types of a target
AnyProfile == "ANY"                         \* expected_profile is None

Ask == [form : Forms, wanted : Profiles \union {AnyProfile}]

ASSUME AsksAssumption == Asks \subseteq Ask /\ Asks # {}
ASSUME FamiliesAssumption == FamilyOf \in [Resources -> Families]
ASSUME NonEmptyAssumption == Resources # {} /\ Names # {}
ASSUME BoundsAssumption == MaxVersion \in Nat \ {0} /\ MaxFaults \in Nat

VARIABLES
    resources,   \* table of resource versions
    pointers,    \* table of channel rows
    call,        \* call[p]: the promote call of p
    read,        \* read[r]: the channel resolution of r
    faults       \* remote faults and crashes so far

vars == <<resources, pointers, call, read, faults>>

Keys == Families \X Names
ResourceRows == [id : Resources, profile : Profiles, digest : Digests, state : States]
PointerRows == [key : Keys, version : 1 .. MaxVersion, target : Resources, actor : Promoters]

Refusals == {"not_found", "identity_conflict", "incompatible"}
Outcomes == {"none", "promoted", "stale", "error"} \union Refusals

\* held is the row a snapshot or a reference was taken from; {} for an identity.
Calls == [pc : {"idle", "resolve", "read_pointer", "put_channel"},
          ask : Ask, target : Resources, held : SUBSET ResourceRows, name : Names,
          expected : 0 .. MaxVersion - 1, observed : 0 .. MaxVersion, outcome : Outcomes]

\* pointer and resource hold at most one row: what the reader has got so far.
Reads == [pc : {"idle", "get_pointer", "get_resource"}, key : Keys, wanted : Profiles,
          pointer : SUBSET PointerRows, resource : SUBSET ResourceRows,
          outcome : {"none", "resolved", "no_pointer", "no_resource", "incompatible", "error"}]

TypeOK ==
    /\ resources \subseteq ResourceRows
    /\ pointers \subseteq PointerRows
    /\ call \in [Promoters -> Calls]
    /\ read \in [Readers -> Reads]
    /\ faults \in 0 .. MaxFaults

--------------------------------------------------------------------------------

ById(id) == {row \in resources : row.id = id}
PointersOf(key) == {row \in pointers : row.key = key}

\* (a faulty variant: pointerVersion ascending)
OldestChannel(key) ==
    {row \in PointersOf(key) : \A other \in PointersOf(key) : other.version >= row.version}

\* latest_channel: pointerVersion descending, limit 1.
LatestChannel(key) ==
    {row \in PointersOf(key) : \A other \in PointersOf(key) : other.version <= row.version}

Key(p) == <<FamilyOf[call[p].target], call[p].name>>
At(p, step) == call[p].pc = step
GoTo(p, step) == call' = [call EXCEPT ![p].pc = step]
Raise(p, outcome) == call' = [call EXCEPT ![p].pc = "idle", ![p].outcome = outcome]

--------------------------------------------------------------------------------
(* The resources around the channels. *)

Publish(id) ==
    /\ ById(id) = {}
    /\ \E profile \in Profiles, digest \in Digests :
           resources' = resources \union
               {[id |-> id, profile |-> profile, digest |-> digest, state |-> "PUBLISHED"]}
    /\ UNCHANGED <<pointers, call, read, faults>>

Deprecate(id) ==
    /\ \E row \in ById(id) :
           /\ row.state = "PUBLISHED"
           /\ resources' = (resources \ {row}) \union {[row EXCEPT !.state = "DEPRECATED"]}
    /\ UNCHANGED <<pointers, call, read, faults>>

--------------------------------------------------------------------------------
(* promote *)

\* A snapshot is the row as it is now, or as the caller has held it since it was
\* published.  A reference names a profile and a digest, not always the stored ones.
Held(form, id) ==
    CASE form = "snapshot" -> {{row} : row \in ById(id)}
                              \union {{[row EXCEPT !.state = "PUBLISHED"]} : row \in ById(id)}
      [] form = "ref"      -> {{row} : row \in {row \in ResourceRows :
                                          row.id = id /\ row.state = "PUBLISHED"}}
      [] form = "identity" -> {{}}

Begin(p) ==
    /\ At(p, "idle")
    /\ \E ask \in Asks, id \in Resources, name \in Names, expected \in 0 .. MaxVersion - 1 :
       \E held \in Held(ask.form, id) :
           call' = [call EXCEPT ![p] =
               [pc |-> "resolve", ask |-> ask, target |-> id, held |-> held, name |-> name,
                expected |-> expected, observed |-> 0, outcome |-> "none"]]
    /\ UNCHANGED <<resources, pointers, read, faults>>

RefMatches(c, row) ==
    c.ask.form = "ref" =>
        \E ref \in c.held : ref.profile = row.profile /\ ref.digest = row.digest

\* The checks of promote on the resource it resolved, in their order.
Admission(c, row) ==
    CASE ~ RefMatches(c, row)                         -> "identity_conflict"
      [] /\ RefMatches(c, row)
         /\ \/ c.ask.wanted \notin {AnyProfile, row.profile}
            \/ row.state # "PUBLISHED"                -> "incompatible"
      [] OTHER                                        -> "admitted"

Admit(p, row) ==
    IF Admission(call[p], row) = "admitted"
    THEN GoTo(p, "read_pointer")
    ELSE Raise(p, Admission(call[p], row))

\* A snapshot is taken for what it says; anything else is read again.
ResolveTarget(p) ==
    /\ At(p, "resolve")
    /\ LET found == IF call[p].ask.form = "snapshot" THEN call[p].held
                    ELSE ById(call[p].target)
       IN  \/ found = {} /\ Raise(p, "not_found")
           \/ \E row \in found : Admit(p, row)
    /\ UNCHANGED <<resources, pointers, read, faults>>

\* No row counts as version 0.
ObservedVersion(key, version) ==
    IF PointersOf(key) = {} THEN version = 0
    ELSE \E row \in LatestChannel(key) : row.version = version

\* (a faulty variant: the expected version is not compared)
ReadPointerUnchecked(p) ==
    /\ At(p, "read_pointer")
    /\ \E version \in 0 .. MaxVersion - 1 :
           /\ ObservedVersion(Key(p), version)
           /\ call' = [call EXCEPT ![p].observed = version, ![p].pc = "put_channel"]
    /\ UNCHANGED <<resources, pointers, read, faults>>

\* (a faulty variant: the expected version is taken for the successor's)
ReadPointerOffByOne(p) ==
    /\ At(p, "read_pointer")
    /\ \E version \in 0 .. MaxVersion :
           /\ ObservedVersion(Key(p), version)
           /\ call' = [call EXCEPT
                  ![p].observed = version,
                  ![p].pc = IF version + 1 = call[p].expected THEN "put_channel" ELSE "idle",
                  ![p].outcome = IF version + 1 = call[p].expected THEN "none" ELSE "stale"]
    /\ UNCHANGED <<resources, pointers, read, faults>>

ReadPointer(p) ==
    /\ At(p, "read_pointer")
    /\ \E version \in 0 .. MaxVersion :
           /\ ObservedVersion(Key(p), version)
           /\ call' = [call EXCEPT
                  ![p].observed = version,
                  ![p].pc = IF version = call[p].expected THEN "put_channel" ELSE "idle",
                  ![p].outcome = IF version = call[p].expected THEN "none" ELSE "stale"]
    /\ UNCHANGED <<resources, pointers, read, faults>>

Successor(p) == [key |-> Key(p), version |-> call[p].observed + 1,
                 target |-> call[p].target, actor |-> p]

\* (a faulty variant: the target is part of the id)
TakenByTarget(p) == Successor(p) \in pointers

\* The id of the row is derived from the channel and the version alone.
Taken(p) == \E row \in PointersOf(Key(p)) : row.version = Successor(p).version

\* (a faulty variant: a conflict is taken for a replay of the same promotion)
PutChannelIdempotent(p) ==
    /\ At(p, "put_channel")
    /\ Raise(p, "promoted")
    /\ IF Taken(p) THEN UNCHANGED pointers
       ELSE pointers' = pointers \union {Successor(p)}
    /\ UNCHANGED <<resources, read, faults>>

\* (a faulty variant: two contenders give way to each other)
PutChannelYielding(p) ==
    /\ At(p, "put_channel")
    /\ IF Taken(p) \/ \E other \in Promoters \ {p} : At(other, "put_channel")
       THEN Raise(p, "stale") /\ UNCHANGED pointers
       ELSE Raise(p, "promoted") /\ pointers' = pointers \union {Successor(p)}
    /\ UNCHANGED <<resources, read, faults>>

PutChannel(p) ==
    /\ At(p, "put_channel")
    /\ IF Taken(p)
       THEN Raise(p, "stale") /\ UNCHANGED pointers
       ELSE Raise(p, "promoted") /\ pointers' = pointers \union {Successor(p)}
    /\ UNCHANGED <<resources, read, faults>>

PromoteStep(p) == ResolveTarget(p) \/ ReadPointer(p) \/ PutChannel(p)

--------------------------------------------------------------------------------
(* channel(namespace, kind, name, channel) of a consumer *)

BeginRead(r) ==
    /\ read[r].pc = "idle"
    /\ \E key \in Keys, wanted \in Profiles :
           read' = [read EXCEPT ![r] =
               [pc |-> "get_pointer", key |-> key, wanted |-> wanted, pointer |-> {},
                resource |-> {}, outcome |-> "none"]]
    /\ UNCHANGED <<resources, pointers, call, faults>>

GetPointer(r) ==
    /\ read[r].pc = "get_pointer"
    /\ LET latest == LatestChannel(read[r].key)
       IN  \/ /\ latest = {}
              /\ read' = [read EXCEPT ![r].pc = "idle", ![r].outcome = "no_pointer"]
           \/ \E row \in latest :
                  read' = [read EXCEPT ![r].pc = "get_resource", ![r].pointer = {row}]
    /\ UNCHANGED <<resources, pointers, call, faults>>

\* (a faulty variant: the profile is not compared)
GetResourceUnchecked(r) ==
    /\ read[r].pc = "get_resource"
    /\ \E row \in UNION {ById(pointer.target) : pointer \in read[r].pointer} :
           read' = [read EXCEPT ![r].pc = "idle", ![r].resource = {row},
                                ![r].outcome = "resolved"]
    /\ UNCHANGED <<resources, pointers, call, faults>>

GetResource(r) ==
    /\ read[r].pc = "get_resource"
    /\ LET found == UNION {ById(row.target) : row \in read[r].pointer}
       IN  \/ /\ found = {}
              /\ read' = [read EXCEPT ![r].pc = "idle", ![r].outcome = "no_resource"]
           \/ \E row \in found :
                  read' = [read EXCEPT
                      ![r].pc = "idle", ![r].resource = {row},
                      ![r].outcome = IF row.profile = read[r].wanted
                                     THEN "resolved" ELSE "incompatible"]
    /\ UNCHANGED <<resources, pointers, call, faults>>

ReadStep(r) == GetPointer(r) \/ GetResource(r)

--------------------------------------------------------------------------------
(* What can go wrong in a call.  Each costs one of MaxFaults. *)

Fault == faults < MaxFaults /\ faults' = faults + 1

\* A remote operation raises without effect, or the process dies.
PromoteFails(p) ==
    /\ Fault
    /\ ~ At(p, "idle")
    /\ Raise(p, "error")
    /\ UNCHANGED <<resources, pointers, read>>

\* The row is inserted; the answer is lost ("error"), or names another target
\* and promote takes that for a lost race ("stale").
LostPutChannel(p) ==
    /\ Fault
    /\ At(p, "put_channel") /\ ~ Taken(p)
    /\ pointers' = pointers \union {Successor(p)}
    /\ Raise(p, "error") \/ Raise(p, "stale")
    /\ UNCHANGED <<resources, read>>

\* A conflict that no row explains.
SpuriousConflict(p) ==
    /\ Fault
    /\ At(p, "put_channel")
    /\ Raise(p, "stale")
    /\ UNCHANGED <<resources, pointers, read>>

ReadFails(r) ==
    /\ Fault
    /\ read[r].pc # "idle"
    /\ read' = [read EXCEPT ![r].pc = "idle", ![r].outcome = "error"]
    /\ UNCHANGED <<resources, pointers, call>>

--------------------------------------------------------------------------------

Init ==
    /\ resources = {} /\ pointers = {}
    /\ call = [p \in Promoters |->
           [pc |-> "idle", ask |-> CHOOSE ask \in Asks : TRUE,
            target |-> CHOOSE id \in Resources : TRUE, held |-> {},
            name |-> CHOOSE name \in Names : TRUE,
            expected |-> 0, observed |-> 0, outcome |-> "none"]]
    /\ read = [r \in Readers |->
           [pc |-> "idle", key |-> CHOOSE key \in Keys : TRUE, wanted |-> "ARTIFACT",
            pointer |-> {}, resource |-> {}, outcome |-> "none"]]
    /\ faults = 0

Next ==
    \/ \E id \in Resources : Publish(id) \/ Deprecate(id)
    \/ \E p \in Promoters : Begin(p) \/ PromoteStep(p) \/ PromoteFails(p)
                            \/ LostPutChannel(p) \/ SpuriousConflict(p)
    \/ \E r \in Readers : BeginRead(r) \/ ReadStep(r) \/ ReadFails(r)

Spec == Init /\ [][Next]_vars

\* A call that runs goes on to its end.
Fairness == /\ \A p \in Promoters : WF_vars(PromoteStep(p))
            /\ \A r \in Readers : WF_vars(ReadStep(r))

FairSpec == Spec /\ Fairness

--------------------------------------------------------------------------------
(* Safety. *)

\* A channel's rows are numbered 1 to n, one row each: no version is skipped,
\* and two promotions never share one.
NumberedWithoutGaps ==
    \A row \in pointers :
        /\ \A other \in PointersOf(row.key) : other.version = row.version => other = row
        /\ \A version \in 1 .. row.version :
               \E other \in PointersOf(row.key) : other.version = version

\* A promotion that is reported won: its row is there, under the caller's name,
\* one above the version the caller expected.  So of two callers who expected
\* the same version at most one is told that it won.
PromotedIsMine ==
    \A p \in Promoters : call[p].outcome = "promoted" =>
        [key |-> Key(p), version |-> call[p].expected + 1,
         target |-> call[p].target, actor |-> p] \in pointers

\* A stale answer has its reason: the channel was at another version, or has
\* gone past the expected one; otherwise a Catalog answer was at fault.
StaleHasReason ==
    \A p \in Promoters : call[p].outcome = "stale" =>
        \/ call[p].observed # call[p].expected
        \/ Taken(p)
        \/ faults >= 1

\* A pointer names a resource of the channel's own family that exists.
PointersResolve ==
    \A row \in pointers : ById(row.target) # {} /\ FamilyOf[row.target] = row.key[1]

\* A consumer that finds a pointer finds its resource, and hands out the two
\* together.
ResolutionConsistent ==
    \A r \in Readers :
        /\ read[r].outcome # "no_resource"
        /\ read[r].outcome = "resolved" =>
               \E row \in read[r].pointer, found \in read[r].resource :
                   /\ row \in pointers /\ row.key = read[r].key
                   /\ found.id = row.target /\ found.profile = read[r].wanted

\* Action property: a pointer row is never changed or removed, and a promotion
\* adds the successor of the channel's latest row, as its caller expected.
AppendOnly ==
    [][/\ pointers \subseteq pointers'
       /\ \A row \in pointers' \ pointers :
              /\ ObservedVersion(row.key, row.version - 1)
              /\ call[row.actor].expected = row.version - 1]_vars

\* Action property: what a reader resolves on a channel never goes back.
ReadsNeverGoBack ==
    [][\A r \in Readers :
           read'[r].pc = "get_resource" /\ read[r].pc = "get_pointer" =>
               \A row \in read'[r].pointer :
                   \A other \in PointersOf(read[r].key) : other.version <= row.version]_vars

\* What a promote relies on between two remote operations stays true while
\* others go on: the resource it resolved exists, and the row it is about to
\* insert has its predecessor ...
CallInStep(p) ==
    LET c == call[p]
    IN  /\ c.pc # "idle" => c.outcome = "none"
        /\ \/ c.pc = "resolve" /\ c.ask.form = "snapshot"
           \/ c.pc \in {"read_pointer", "put_channel"}
           => ById(c.target) # {}
        /\ c.pc = "put_channel" =>
               /\ c.observed = c.expected
               /\ c.observed > 0 => \E row \in PointersOf(Key(p)) : row.version = c.observed

\* ... and so is the pointer that a consumer goes after.
ReadInStep(r) ==
    /\ read[r].pointer \subseteq PointersOf(read[r].key)
    /\ read[r].pc = "get_resource" => read[r].pointer # {}

InStep == /\ \A p \in Promoters : CallInStep(p)
          /\ \A r \in Readers : ReadInStep(r)

\* Whoever races, the tables agree with one another, and with what each running
\* promotion and resolution has seen of them.
Consistent == TypeOK /\ InStep /\ NumberedWithoutGaps /\ PointersResolve

--------------------------------------------------------------------------------
(* Each channel is a compare-and-set register. *)

CurrentVersion(key) == CHOOSE version \in 0 .. MaxVersion : ObservedVersion(key, version)

AnswerOf(outcome) ==
    CASE outcome = "none"      -> "none"
      [] outcome = "promoted"  -> "swapped"
      [] outcome = "stale"     -> "refused"
      [] outcome = "error"     -> "unknown"
      [] outcome \in Refusals  -> "declined"

RegisterVersion == [key \in Keys |-> CurrentVersion(key)]
RegisterValue == [key \in Keys |-> {row.target : row \in LatestChannel(key)}]

OpOf(c) == [pending |-> c.pc # "idle", key |-> <<FamilyOf[c.target], c.name>>,
            expected |-> c.expected, value |-> c.target, answer |-> AnswerOf(c.outcome)]

Register == INSTANCE CasRegister WITH
    Clients <- Promoters, Values <- Resources, MaxDisturbances <- MaxFaults,
    version <- RegisterVersion, value <- RegisterValue,
    op <- [p \in Promoters |-> OpOf(call[p])],
    disturbances <- faults

\* promote is a linearizable compare-and-set: it takes effect in one step
\* between call and return, and its answer says what it did.
ChannelIsRegister == Register!Spec

--------------------------------------------------------------------------------
(* Liveness. *)

\* A promotion that has matched the current version does not leave the channel
\* there, unless the Catalog fails it: some contender advances it.
SomebodyAdvances ==
    \A key \in Keys, n \in 0 .. MaxVersion - 1 :
        (\E p \in Promoters : At(p, "put_channel") /\ Key(p) = key /\ call[p].expected = n)
            ~> (~ ObservedVersion(key, n) \/ faults >= 1)

--------------------------------------------------------------------------------
(* What the code says of promotion and does not do. *)

\* "only a PUBLISHED immutable resource may be promoted"
OnlyPublishedPromoted ==
    [][\A row \in pointers' \ pointers :
           \E resource \in ById(row.target) : resource.state = "PUBLISHED"]_vars
================================================================================
