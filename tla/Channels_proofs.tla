---------------------------- MODULE Channels_proofs -----------------------------
(***************************************************************************)
(* Theorems about Channels, for every set of promoters, readers, resources *)
(* and channel names, and for every bound.                                 *)
(***************************************************************************)
EXTENDS Channels, WellFoundedInduction, TLAPS

--------------------------------------------------------------------------------
(* What the moves of a call leave of it, and that they keep its type. *)

CallTyped == call \in [Promoters -> Calls]

OthersKeep(p) == \A q \in Promoters : q # p => call'[q] = call[q]

SameRequest(p) == /\ call'[p].ask = call[p].ask       /\ call'[p].target = call[p].target
                  /\ call'[p].held = call[p].held     /\ call'[p].name = call[p].name
                  /\ call'[p].expected = call[p].expected

\* GoTo changes the program counter of one call.
LEMMA GoToMoves ==
    ASSUME CallTyped, NEW p \in Promoters, NEW step \in {"read_pointer", "put_channel"},
           GoTo(p, step)
    PROVE  /\ CallTyped' /\ OthersKeep(p) /\ SameRequest(p)
           /\ call'[p].pc = step
           /\ call'[p].outcome = call[p].outcome
           /\ call'[p].observed = call[p].observed
<1> DEFINE c == [call[p] EXCEPT !.pc = step]
<1>1. call' = [call EXCEPT ![p] = c]
    BY DEF GoTo, CallTyped
<1>2. c \in Calls
    BY DEF CallTyped, Calls
<1>3. /\ c.pc = step /\ c.ask = call[p].ask /\ c.target = call[p].target
      /\ c.held = call[p].held /\ c.name = call[p].name
      /\ c.expected = call[p].expected /\ c.observed = call[p].observed
      /\ c.outcome = call[p].outcome
    BY DEF CallTyped, Calls
<1> HIDE DEF c
<1>4. call'[p] = c /\ OthersKeep(p) /\ call' \in [Promoters -> Calls]
    BY <1>1, <1>2 DEF CallTyped, OthersKeep
<1> QED
    BY <1>3, <1>4 DEF CallTyped, SameRequest

\* Raise ends one call with an outcome.
LEMMA RaiseMoves ==
    ASSUME CallTyped, NEW p \in Promoters, NEW outcome \in Outcomes, Raise(p, outcome)
    PROVE  /\ CallTyped' /\ OthersKeep(p) /\ SameRequest(p)
           /\ call'[p].pc = "idle"
           /\ call'[p].outcome = outcome
           /\ call'[p].observed = call[p].observed
<1> DEFINE c == [call[p] EXCEPT !.pc = "idle", !.outcome = outcome]
<1>1. call' = [call EXCEPT ![p] = c]
    BY DEF Raise, CallTyped
<1>2. c \in Calls
    BY DEF CallTyped, Calls
<1>3. /\ c.pc = "idle" /\ c.ask = call[p].ask /\ c.target = call[p].target
      /\ c.held = call[p].held /\ c.name = call[p].name
      /\ c.expected = call[p].expected /\ c.observed = call[p].observed
      /\ c.outcome = outcome
    BY DEF CallTyped, Calls
<1> HIDE DEF c
<1>4. call'[p] = c /\ OthersKeep(p) /\ call' \in [Promoters -> Calls]
    BY <1>1, <1>2 DEF CallTyped, OthersKeep
<1> QED
    BY <1>3, <1>4 DEF CallTyped, SameRequest

\* Begin starts one call; a snapshot it holds is of a resource that exists.
LEMMA BeginMoves ==
    ASSUME TypeOK, NEW p \in Promoters, Begin(p)
    PROVE  /\ CallTyped' /\ OthersKeep(p)
           /\ call'[p].pc = "resolve" /\ call'[p].outcome = "none"
           /\ call'[p].ask.form = "snapshot" => ById(call'[p].target) # {}
<1>1. PICK ask \in Asks, id \in Resources, name \in Names, expected \in 0 .. MaxVersion - 1 :
      \E held \in Held(ask.form, id) :
          call' = [call EXCEPT ![p] =
              [pc |-> "resolve", ask |-> ask, target |-> id, held |-> held, name |-> name,
               expected |-> expected, observed |-> 0, outcome |-> "none"]]
    BY DEF Begin
<1>2. PICK held \in Held(ask.form, id) :
          call' = [call EXCEPT ![p] =
              [pc |-> "resolve", ask |-> ask, target |-> id, held |-> held, name |-> name,
               expected |-> expected, observed |-> 0, outcome |-> "none"]]
    BY <1>1
<1> DEFINE c == [pc |-> "resolve", ask |-> ask, target |-> id, held |-> held, name |-> name,
                 expected |-> expected, observed |-> 0, outcome |-> "none"]
<1>3. ask \in Ask
    BY AsksAssumption
<1>4. /\ held \subseteq ResourceRows
      /\ ask.form = "snapshot" => ById(id) # {}
  <2>1. CASE ask.form = "snapshot"
    <3>1. PICK row \in ById(id) : held = {row} \/ held = {[row EXCEPT !.state = "PUBLISHED"]}
        BY <2>1, <1>2 DEF Held
    <3>2. row \in ResourceRows /\ [row EXCEPT !.state = "PUBLISHED"] \in ResourceRows
        BY DEF ById, TypeOK, ResourceRows, States
    <3> QED
        BY <3>1, <3>2
  <2>2. CASE ask.form = "ref"
    <3>1. held \in {{row} : row \in {row \in ResourceRows :
                                         row.id = id /\ row.state = "PUBLISHED"}}
        BY <2>2, <1>2 DEF Held
    <3> QED
        BY <2>2, <3>1
  <2>3. CASE ask.form = "identity"
    <3>1. held \in {{}}
        BY <2>3, <1>2 DEF Held
    <3> QED
        BY <2>3, <3>1
  <2> QED
    BY <1>3, <2>1, <2>2, <2>3 DEF Ask, Forms
<1>5. c \in Calls
    BY <1>3, <1>4, BoundsAssumption DEF Calls, Outcomes
<1> HIDE DEF c
<1>6. call'[p] = c /\ OthersKeep(p) /\ call' \in [Promoters -> Calls]
    BY <1>2, <1>5 DEF c, TypeOK, OthersKeep
<1> QED
    BY <1>4, <1>6 DEF c, CallTyped

\* ReadPointer reads one version of the channel and compares it.
LEMMA ReadPointerMoves ==
    ASSUME CallTyped, NEW p \in Promoters, ReadPointer(p)
    PROVE  /\ CallTyped' /\ OthersKeep(p) /\ SameRequest(p)
           /\ call'[p].observed \in 0 .. MaxVersion
           /\ ObservedVersion(Key(p), call'[p].observed)
           /\ \/ /\ call'[p].observed = call[p].expected
                 /\ call'[p].pc = "put_channel" /\ call'[p].outcome = "none"
              \/ /\ call'[p].observed # call[p].expected
                 /\ call'[p].pc = "idle" /\ call'[p].outcome = "stale"
<1>1. PICK version \in 0 .. MaxVersion :
          /\ ObservedVersion(Key(p), version)
          /\ call' = [call EXCEPT
                 ![p].observed = version,
                 ![p].pc = IF version = call[p].expected THEN "put_channel" ELSE "idle",
                 ![p].outcome = IF version = call[p].expected THEN "none" ELSE "stale"]
    BY DEF ReadPointer
<1> DEFINE step == IF version = call[p].expected THEN "put_channel" ELSE "idle"
           outcome == IF version = call[p].expected THEN "none" ELSE "stale"
           c == [call[p] EXCEPT !.observed = version, !.pc = step, !.outcome = outcome]
<1>2. step \in {"put_channel", "idle"} /\ outcome \in {"none", "stale"}
    OBVIOUS
<1>3. call' = [call EXCEPT ![p] = c]
    BY <1>1 DEF CallTyped
<1>4. \/ version = call[p].expected /\ step = "put_channel" /\ outcome = "none"
      \/ version # call[p].expected /\ step = "idle" /\ outcome = "stale"
    OBVIOUS
<1> HIDE DEF step, outcome
<1>5. c \in Calls
    BY <1>2 DEF CallTyped, Calls, Outcomes
<1>6. /\ c.pc = step /\ c.ask = call[p].ask /\ c.target = call[p].target
      /\ c.held = call[p].held /\ c.name = call[p].name
      /\ c.expected = call[p].expected /\ c.observed = version
      /\ c.outcome = outcome
    BY DEF CallTyped, Calls
<1> HIDE DEF c
<1>7. call'[p] = c /\ OthersKeep(p) /\ call' \in [Promoters -> Calls]
    BY <1>3, <1>5 DEF CallTyped, OthersKeep
<1> QED
    BY <1>1, <1>4, <1>6, <1>7 DEF CallTyped, SameRequest

--------------------------------------------------------------------------------
(* Type correctness. *)

\* The initial state is typed.
LEMMA TypeInit == Init => TypeOK
<1>1. /\ (CHOOSE ask \in Asks : TRUE) \in Ask
      /\ (CHOOSE id \in Resources : TRUE) \in Resources
      /\ (CHOOSE name \in Names : TRUE) \in Names
    BY AsksAssumption, NonEmptyAssumption
<1>2. (CHOOSE key \in Keys : TRUE) \in Keys
  <2>1. PICK id \in Resources, name \in Names : TRUE
    BY NonEmptyAssumption
  <2>2. <<FamilyOf[id], name>> \in Keys
    BY FamiliesAssumption DEF Keys
  <2> QED
    BY <2>2
<1> DEFINE c == [pc |-> "idle", ask |-> CHOOSE ask \in Asks : TRUE,
                 target |-> CHOOSE id \in Resources : TRUE, held |-> {},
                 name |-> CHOOSE name \in Names : TRUE,
                 expected |-> 0, observed |-> 0, outcome |-> "none"]
           d == [pc |-> "idle", key |-> CHOOSE key \in Keys : TRUE, wanted |-> "ARTIFACT",
                 pointer |-> {}, resource |-> {}, outcome |-> "none"]
<1>3. c \in Calls
    BY <1>1, BoundsAssumption DEF Calls, Outcomes
<1>4. d \in Reads
    BY <1>2 DEF Reads, Profiles
<1>5. Init => /\ call = [p \in Promoters |-> c] /\ read = [r \in Readers |-> d]
              /\ resources = {} /\ pointers = {} /\ faults = 0
    BY DEF Init
<1> HIDE DEF c, d
<1> QED
    BY <1>3, <1>4, <1>5, BoundsAssumption DEF TypeOK

\* The channel of a call's target is one of the channels.
LEMMA KeyTyped == ASSUME CallTyped, NEW p \in Promoters PROVE Key(p) \in Keys
<1> QED
    BY FamiliesAssumption DEF CallTyped, Calls, Key, Keys

\* The row that put_channel inserts keeps within the bound on versions.
LEMMA SuccessorTyped ==
    ASSUME CallTyped, NEW p \in Promoters, CallInStep(p), At(p, "put_channel")
    PROVE  /\ Successor(p) \in PointerRows
           /\ Successor(p).version = call[p].expected + 1
           /\ Successor(p).key = Key(p) /\ Successor(p).target = call[p].target
           /\ Successor(p).actor = p
<1>1. /\ call[p].observed = call[p].expected
      /\ call[p].expected \in 0 .. MaxVersion - 1
      /\ call[p].target \in Resources
    BY DEF CallInStep, At, CallTyped, Calls
<1> QED
    BY <1>1, KeyTyped, BoundsAssumption DEF Successor, PointerRows

\* GetResource ends a resolution, with the resource of its pointer if there is one.
LEMMA GetResourceMoves ==
    ASSUME TypeOK, NEW r \in Readers, GetResource(r)
    PROVE  /\ read' \in [Readers -> Reads]
           /\ read'[r].pc = "idle" /\ read'[r].key = read[r].key
           /\ read'[r].wanted = read[r].wanted /\ read'[r].pointer = read[r].pointer
           /\ \/ /\ read'[r].outcome = "no_resource"
                 /\ \A pointer \in read[r].pointer : ById(pointer.target) = {}
              \/ /\ read'[r].outcome # "no_resource"
                 /\ \E pointer \in read[r].pointer, row \in resources :
                        /\ row.id = pointer.target /\ read'[r].resource = {row}
                        /\ read'[r].outcome = "resolved" => row.profile = read[r].wanted
<1> DEFINE found == UNION {ById(row.target) : row \in read[r].pointer}
           verdict(row) == IF row.profile = read[r].wanted THEN "resolved" ELSE "incompatible"
<1>1. \/ found = {} /\ read' = [read EXCEPT ![r].pc = "idle", ![r].outcome = "no_resource"]
      \/ \E row \in found :
             read' = [read EXCEPT ![r].pc = "idle", ![r].resource = {row},
                                  ![r].outcome = verdict(row)]
    BY DEF GetResource
<1>2. \A row \in found : \E pointer \in read[r].pointer :
          row \in resources /\ row.id = pointer.target
    BY DEF ById
<1>3. found = {} => \A pointer \in read[r].pointer : ById(pointer.target) = {}
    OBVIOUS
<1>4. \A row : /\ verdict(row) \in {"resolved", "incompatible"}
               /\ verdict(row) = "resolved" => row.profile = read[r].wanted
    OBVIOUS
<1> HIDE DEF found, verdict
<1>5. read \in [Readers -> Reads] /\ resources \subseteq ResourceRows
    BY DEF TypeOK
<1>6. CASE /\ found = {}
           /\ read' = [read EXCEPT ![r].pc = "idle", ![r].outcome = "no_resource"]
    BY <1>3, <1>5, <1>6 DEF Reads
<1>7. ASSUME NEW row \in found,
             read' = [read EXCEPT ![r].pc = "idle", ![r].resource = {row},
                                  ![r].outcome = verdict(row)]
      PROVE  /\ read' \in [Readers -> Reads]
             /\ read'[r].pc = "idle" /\ read'[r].key = read[r].key
             /\ read'[r].wanted = read[r].wanted /\ read'[r].pointer = read[r].pointer
             /\ read'[r].resource = {row} /\ read'[r].outcome = verdict(row)
  <2> DEFINE d == [read[r] EXCEPT !.pc = "idle", !.resource = {row}, !.outcome = verdict(row)]
  <2>1. read' = [read EXCEPT ![r] = d]
    BY <1>5, <1>7
  <2>2. row \in ResourceRows /\ verdict(row) \in {"resolved", "incompatible"}
    BY <1>2, <1>4, <1>5, <1>7
  <2>3. d \in Reads
    BY <1>5, <2>2 DEF Reads
  <2>4. /\ d.pc = "idle" /\ d.key = read[r].key /\ d.wanted = read[r].wanted
        /\ d.pointer = read[r].pointer /\ d.resource = {row} /\ d.outcome = verdict(row)
    BY <1>5 DEF Reads
  <2> HIDE DEF d
  <2> QED
    BY <1>5, <2>1, <2>3, <2>4
<1>8. ASSUME NEW row \in found,
             read' = [read EXCEPT ![r].pc = "idle", ![r].resource = {row},
                                  ![r].outcome = verdict(row)]
      PROVE  /\ read'[r].outcome # "no_resource"
             /\ \E pointer \in read[r].pointer, other \in resources :
                    /\ other.id = pointer.target /\ read'[r].resource = {other}
                    /\ read'[r].outcome = "resolved" => other.profile = read[r].wanted
  <2>1. PICK pointer \in read[r].pointer : row \in resources /\ row.id = pointer.target
    BY <1>2
  <2>2. read'[r].resource = {row} /\ read'[r].outcome = verdict(row)
    BY <1>7, <1>8
  <2>3. /\ verdict(row) # "no_resource"
        /\ verdict(row) = "resolved" => row.profile = read[r].wanted
    BY <1>4
  <2> QED
    BY <2>1, <2>2, <2>3
<1> QED
    BY <1>1, <1>6, <1>7, <1>8

\* One read call at a time changes, and keeps its type.
LEMMA ReadTyped ==
    ASSUME TypeOK, NEW r \in Readers, BeginRead(r) \/ ReadStep(r) \/ ReadFails(r)
    PROVE  read' \in [Readers -> Reads]
<1>1. read \in [Readers -> Reads] /\ read[r] \in Reads
    BY DEF TypeOK
<1>2. ASSUME NEW d \in Reads, read' = [read EXCEPT ![r] = d]
      PROVE  read' \in [Readers -> Reads]
    BY <1>1, <1>2
<1>3. CASE BeginRead(r)
    BY <1>3 DEF TypeOK, BeginRead, Reads
<1>4. CASE GetPointer(r)
  <2>1. CASE read' = [read EXCEPT ![r].pc = "idle", ![r].outcome = "no_pointer"]
    <3> DEFINE d == [read[r] EXCEPT !.pc = "idle", !.outcome = "no_pointer"]
    <3>1. d \in Reads
        BY <1>1 DEF Reads
    <3>2. read' = [read EXCEPT ![r] = d]
        BY <1>1, <2>1
    <3> HIDE DEF d
    <3> QED
        BY <1>2, <3>1, <3>2
  <2>2. ASSUME NEW row \in LatestChannel(read[r].key),
               read' = [read EXCEPT ![r].pc = "get_resource", ![r].pointer = {row}]
        PROVE  read' \in [Readers -> Reads]
    <3> DEFINE d == [read[r] EXCEPT !.pc = "get_resource", !.pointer = {row}]
    <3>1. row \in PointerRows
        BY DEF LatestChannel, PointersOf, TypeOK
    <3>2. d \in Reads
        BY <1>1, <3>1 DEF Reads
    <3>3. read' = [read EXCEPT ![r] = d]
        BY <1>1, <2>2
    <3> HIDE DEF d
    <3> QED
        BY <1>2, <3>2, <3>3
  <2> QED
    BY <1>4, <2>1, <2>2 DEF GetPointer
<1>5. CASE GetResource(r)
    BY <1>5, GetResourceMoves
<1>6. CASE ReadFails(r)
  <2> DEFINE d == [read[r] EXCEPT !.pc = "idle", !.outcome = "error"]
  <2>1. d \in Reads
    BY <1>1 DEF Reads
  <2>2. read' = [read EXCEPT ![r] = d]
    BY <1>1, <1>6 DEF ReadFails
  <2> HIDE DEF d
  <2> QED
    BY <1>2, <2>1, <2>2
<1> QED
    BY <1>3, <1>4, <1>5, <1>6 DEF ReadStep

\* A resource is admitted or refused.
LEMMA AdmitOutcomes ==
    ASSUME NEW c, NEW row
    PROVE  Admission(c, row) = "admitted" \/ Admission(c, row) \in Refusals
<1> QED
    BY DEF Admission, Refusals

\* ResolveTarget goes on with a resource that exists, or ends the call.
LEMMA ResolveTargetMoves ==
    ASSUME CallTyped, NEW p \in Promoters, ResolveTarget(p)
    PROVE  \/ /\ GoTo(p, "read_pointer")
              /\ call[p].ask.form = "snapshot" \/ ById(call[p].target) # {}
           \/ \E outcome \in Refusals : Raise(p, outcome)
<1> DEFINE found == IF call[p].ask.form = "snapshot" THEN call[p].held
                    ELSE ById(call[p].target)
<1>1. \/ found = {} /\ Raise(p, "not_found")
      \/ \E row \in found : Admit(p, row)
    BY DEF ResolveTarget
<1>2. CASE Raise(p, "not_found")
    BY <1>2 DEF Refusals
<1>3. ASSUME NEW row \in found, Admit(p, row)
      PROVE  \/ /\ GoTo(p, "read_pointer")
                /\ call[p].ask.form = "snapshot" \/ ById(call[p].target) # {}
             \/ \E outcome \in Refusals : Raise(p, outcome)
  <2>1. CASE Admission(call[p], row) = "admitted"
    BY <1>3, <2>1 DEF Admit
  <2>2. CASE Admission(call[p], row) # "admitted"
    <3>1. Admission(call[p], row) \in Refusals /\ Raise(p, Admission(call[p], row))
        BY <1>3, <2>2, AdmitOutcomes DEF Admit
    <3> QED
        BY <3>1
  <2> QED
    BY <2>1, <2>2
<1> QED
    BY <1>1, <1>2, <1>3

\* The actions that change a call, and what each leaves of it.
LEMMA PromoterActions ==
    ASSUME TypeOK, NEW p \in Promoters,
           Begin(p) \/ PromoteStep(p) \/ PromoteFails(p) \/ LostPutChannel(p) \/ SpuriousConflict(p)
    PROVE  /\ CallTyped' /\ OthersKeep(p)
           /\ UNCHANGED <<resources, read>>
<1>0. CallTyped
    BY DEF TypeOK, CallTyped
<1>1. CASE Begin(p)
    BY <1>1, BeginMoves DEF Begin
<1>2. CASE ResolveTarget(p)
    BY <1>0, <1>2, ResolveTargetMoves, GoToMoves, RaiseMoves DEF ResolveTarget, Outcomes
<1>3. CASE ReadPointer(p)
    BY <1>0, <1>3, ReadPointerMoves DEF ReadPointer
<1>4. CASE PutChannel(p)
    BY <1>0, <1>4, RaiseMoves DEF PutChannel, Outcomes
<1>5. CASE PromoteFails(p)
    BY <1>0, <1>5, RaiseMoves DEF PromoteFails, Outcomes
<1>6. CASE LostPutChannel(p)
    BY <1>0, <1>6, RaiseMoves DEF LostPutChannel, Outcomes
<1>7. CASE SpuriousConflict(p)
    BY <1>0, <1>7, RaiseMoves DEF SpuriousConflict, Outcomes
<1> QED
    BY <1>1, <1>2, <1>3, <1>4, <1>5, <1>6, <1>7 DEF PromoteStep

--------------------------------------------------------------------------------
(* How a step moves the tables. *)

Inserts(p) == /\ At(p, "put_channel") /\ ~ Taken(p)
              /\ pointers' = pointers \union {Successor(p)}
              /\ OthersKeep(p)

TablesStep ==
    /\ resources' \subseteq ResourceRows
    /\ \A row \in resources : \E later \in resources' : later.id = row.id
    /\ \/ UNCHANGED pointers
       \/ UNCHANGED resources /\ \E p \in Promoters : Inserts(p)

\* Every step moves the tables in one of the ways of TablesStep.
LEMMA TablesMove == TypeOK /\ [Next]_vars => TablesStep
<1> SUFFICES ASSUME TypeOK, [Next]_vars PROVE TablesStep
    OBVIOUS
<1>1. ASSUME NEW id \in Resources, Publish(id) PROVE TablesStep
  <2>1. PICK profile \in Profiles, digest \in Digests :
            resources' = resources \union
                {[id |-> id, profile |-> profile, digest |-> digest, state |-> "PUBLISHED"]}
    BY <1>1 DEF Publish
  <2>2. [id |-> id, profile |-> profile, digest |-> digest, state |-> "PUBLISHED"]
            \in ResourceRows
    BY DEF ResourceRows, States
  <2> QED
    BY <1>1, <2>1, <2>2 DEF TypeOK, TablesStep, Publish
<1>2. ASSUME NEW id \in Resources, Deprecate(id) PROVE TablesStep
  <2>1. PICK row \in ById(id) :
            resources' = (resources \ {row}) \union {[row EXCEPT !.state = "DEPRECATED"]}
    BY <1>2 DEF Deprecate
  <2>2. row \in ResourceRows
    BY DEF ById, TypeOK
  <2>3. /\ [row EXCEPT !.state = "DEPRECATED"] \in ResourceRows
        /\ [row EXCEPT !.state = "DEPRECATED"].id = row.id
    BY <2>2 DEF ResourceRows, States
  <2> QED
    BY <1>2, <2>1, <2>3 DEF TypeOK, TablesStep, Deprecate
<1>3. ASSUME NEW p \in Promoters,
             \/ Begin(p) \/ PromoteStep(p) \/ PromoteFails(p)
             \/ LostPutChannel(p) \/ SpuriousConflict(p)
      PROVE  TablesStep
  <2>1. OthersKeep(p) /\ UNCHANGED resources
    BY <1>3, PromoterActions
  <2>2. UNCHANGED pointers \/ Inserts(p)
    BY <1>3, <2>1
       DEF Begin, PromoteStep, ResolveTarget, ReadPointer, PutChannel, PromoteFails,
           LostPutChannel, SpuriousConflict, Inserts
  <2> QED
    BY <2>1, <2>2 DEF TablesStep, TypeOK
<1>4. ASSUME NEW r \in Readers, BeginRead(r) \/ ReadStep(r) \/ ReadFails(r)
      PROVE  TablesStep
    BY <1>4 DEF BeginRead, ReadStep, GetPointer, GetResource, ReadFails, TablesStep, TypeOK
<1>5. CASE UNCHANGED vars
    BY <1>5 DEF vars, TablesStep, TypeOK
<1> QED
    BY <1>1, <1>2, <1>3, <1>4, <1>5 DEF Next

\* Every step keeps the type.
LEMMA TypeNext == TypeOK /\ InStep /\ [Next]_vars => TypeOK'
<1> SUFFICES ASSUME TypeOK, InStep, [Next]_vars PROVE TypeOK'
    OBVIOUS
<1>1. resources' \subseteq ResourceRows
    BY TablesMove DEF TablesStep
<1>2. pointers' \subseteq PointerRows
  <2>1. ASSUME NEW p \in Promoters, Inserts(p) PROVE pointers' \subseteq PointerRows
    BY <2>1, SuccessorTyped DEF Inserts, TypeOK, CallTyped, InStep
  <2> QED
    BY <2>1, TablesMove DEF TablesStep, TypeOK
<1>3. faults' \in 0 .. MaxFaults
  <2>1. UNCHANGED faults \/ Fault
    BY DEF Next, vars, Publish, Deprecate, Begin, PromoteStep, ResolveTarget, ReadPointer,
           PutChannel, PromoteFails, LostPutChannel, SpuriousConflict, BeginRead,
           ReadStep, GetPointer, GetResource, ReadFails
  <2> QED
    BY <2>1, BoundsAssumption DEF TypeOK, Fault
<1>4. call' \in [Promoters -> Calls] /\ read' \in [Readers -> Reads]
  <2>1. ASSUME NEW id \in Resources, Publish(id) \/ Deprecate(id)
        PROVE  UNCHANGED <<call, read>>
    BY <2>1 DEF Publish, Deprecate
  <2>2. ASSUME NEW p \in Promoters,
               \/ Begin(p) \/ PromoteStep(p) \/ PromoteFails(p)
               \/ LostPutChannel(p) \/ SpuriousConflict(p)
        PROVE  CallTyped' /\ UNCHANGED read
    BY <2>2, PromoterActions
  <2>3. ASSUME NEW r \in Readers, BeginRead(r) \/ ReadStep(r) \/ ReadFails(r)
        PROVE  read' \in [Readers -> Reads] /\ UNCHANGED call
    BY <2>3, ReadTyped DEF BeginRead, ReadStep, GetPointer, GetResource, ReadFails
  <2> QED
    BY <2>1, <2>2, <2>3 DEF Next, vars, TypeOK, CallTyped
<1> QED
    BY <1>1, <1>2, <1>3, <1>4 DEF TypeOK

--------------------------------------------------------------------------------
(* The inductive invariant. *)

IInv == TypeOK /\ InStep /\ NumberedWithoutGaps /\ PointersResolve

\* What is in the tables stays there.
LEMMA TablesGrow ==
    ASSUME TablesStep
    PROVE  /\ pointers \subseteq pointers'
           /\ \A key : PointersOf(key) \subseteq PointersOf(key)'
           /\ \A id : ById(id) # {} => ById(id)' # {}
<1>1. pointers \subseteq pointers'
    BY DEF TablesStep, Inserts
<1>2. ASSUME NEW id, ById(id) # {} PROVE ById(id)' # {}
    BY <1>2 DEF TablesStep, ById
<1> QED
    BY <1>1, <1>2 DEF PointersOf

\* A call that does not move keeps what it relies on.
LEMMA OthersInStep ==
    ASSUME TablesStep, NEW p \in Promoters, CallInStep(p), call'[p] = call[p]
    PROVE  CallInStep(p)'
<1>1. Key(p)' = Key(p)
    BY DEF Key
<1>2. PointersOf(Key(p)) \subseteq PointersOf(Key(p))'
    BY <1>1, TablesGrow DEF PointersOf
<1> QED
    BY <1>1, <1>2, TablesGrow DEF CallInStep

\* The channel's latest version is 0 or that of one of its rows.
LEMMA ObservedRow ==
    ASSUME NEW key, NEW version, ObservedVersion(key, version), version # 0
    PROVE  \E row \in PointersOf(key) : row.version = version
<1> QED
    BY DEF ObservedVersion, LatestChannel

\* A promoter that moves can rely on what its next step needs.
LEMMA PromoterInStep ==
    ASSUME TypeOK, TablesStep, NEW p \in Promoters, CallInStep(p),
           Begin(p) \/ PromoteStep(p) \/ PromoteFails(p) \/ LostPutChannel(p) \/ SpuriousConflict(p)
    PROVE  CallInStep(p)'
<1>0. CallTyped
    BY DEF TypeOK, CallTyped
<1>1. CASE Begin(p)
  <2>1. \A id : ById(id)' = ById(id)
    BY <1>1 DEF Begin, ById
  <2> QED
    BY <1>1, <2>1, BeginMoves DEF CallInStep
<1>2. CASE GoTo(p, "read_pointer") /\ At(p, "resolve") /\ ById(call[p].target) # {}
  <2>1. SameRequest(p) /\ call'[p].pc = "read_pointer" /\ call'[p].outcome = call[p].outcome
    BY <1>0, <1>2, GoToMoves
  <2>2. call[p].outcome = "none"
    BY <1>2 DEF CallInStep, At
  <2> QED
    BY <1>2, <2>1, <2>2, TablesGrow DEF CallInStep, SameRequest
<1>3. ASSUME NEW outcome \in Outcomes, Raise(p, outcome) PROVE CallInStep(p)'
  <2>1. call'[p].pc = "idle"
    BY <1>0, <1>3, RaiseMoves
  <2> QED
    BY <2>1 DEF CallInStep
<1>4. CASE ResolveTarget(p)
  <2>1. At(p, "resolve")
    BY <1>4 DEF ResolveTarget
  <2>2. call[p].ask.form = "snapshot" => ById(call[p].target) # {}
    BY <2>1 DEF CallInStep, At
  <2> QED
    BY <1>0, <1>2, <1>3, <1>4, <2>1, <2>2, ResolveTargetMoves DEF Outcomes
<1>5. CASE ReadPointer(p)
  <2>1. At(p, "read_pointer") /\ UNCHANGED <<resources, pointers>>
    BY <1>5 DEF ReadPointer
  <2>2. ById(call[p].target) # {}
    BY <2>1 DEF CallInStep, At
  <2>3. /\ SameRequest(p)
        /\ ObservedVersion(Key(p), call'[p].observed)
        /\ \/ /\ call'[p].observed = call[p].expected
              /\ call'[p].pc = "put_channel" /\ call'[p].outcome = "none"
           \/ call'[p].pc = "idle"
    BY <1>0, <1>5, ReadPointerMoves
  <2>4. Key(p)' = Key(p) /\ PointersOf(Key(p))' = PointersOf(Key(p))
    BY <2>1, <2>3 DEF Key, SameRequest, PointersOf
  <2>5. call'[p].observed > 0 =>
            \E row \in PointersOf(Key(p)) : row.version = call'[p].observed
    BY <2>3, ObservedRow
  <2>6. ById(call[p].target)' # {} /\ call'[p].target = call[p].target
    BY <2>2, <2>3, TablesGrow DEF SameRequest
  <2> QED
    BY <2>3, <2>4, <2>5, <2>6 DEF CallInStep, SameRequest, ById
<1>6. CASE PutChannel(p)
    BY <1>3, <1>6 DEF PutChannel, Outcomes
<1>7. CASE PromoteFails(p) \/ LostPutChannel(p) \/ SpuriousConflict(p)
    BY <1>3, <1>7 DEF PromoteFails, LostPutChannel, SpuriousConflict, Outcomes
<1> QED
    BY <1>1, <1>4, <1>5, <1>6, <1>7 DEF PromoteStep

\* A reader that moves goes after a pointer of its own channel.
LEMMA ReaderInStep ==
    ASSUME TypeOK, NEW r \in Readers, ReadInStep(r),
           BeginRead(r) \/ ReadStep(r) \/ ReadFails(r)
    PROVE  ReadInStep(r)'
<1>0. read[r] \in Reads /\ UNCHANGED pointers
    BY DEF TypeOK, BeginRead, ReadStep, GetPointer, GetResource, ReadFails
<1>1. CASE BeginRead(r)
  <2>1. read'[r].pc = "get_pointer" /\ read'[r].pointer = {}
    BY <1>1 DEF BeginRead, TypeOK
  <2> QED
    BY <2>1 DEF ReadInStep
<1>2. CASE GetPointer(r)
  <2>1. CASE read' = [read EXCEPT ![r].pc = "idle", ![r].outcome = "no_pointer"]
    <3>1. /\ read'[r].pc = "idle" /\ read'[r].key = read[r].key
          /\ read'[r].pointer = read[r].pointer
        BY <2>1, <1>0 DEF TypeOK, Reads
    <3> QED
        BY <1>0, <3>1 DEF ReadInStep, PointersOf
  <2>2. ASSUME NEW row \in LatestChannel(read[r].key),
               read' = [read EXCEPT ![r].pc = "get_resource", ![r].pointer = {row}]
        PROVE  ReadInStep(r)'
    <3>1. read'[r].key = read[r].key /\ read'[r].pointer = {row}
        BY <2>2, <1>0 DEF TypeOK, Reads
    <3> QED
        BY <1>0, <3>1 DEF ReadInStep, PointersOf, LatestChannel
  <2> QED
    BY <1>2, <2>1, <2>2 DEF GetPointer
<1>3. CASE GetResource(r) \/ ReadFails(r)
  <2>1. /\ read'[r].pc = "idle" /\ read'[r].key = read[r].key
        /\ read'[r].pointer = read[r].pointer
    <3>1. CASE ReadFails(r)
        BY <3>1, <1>0 DEF ReadFails, TypeOK, Reads
    <3>2. CASE GetResource(r)
        BY <3>2, GetResourceMoves
    <3> QED
        BY <1>3, <3>1, <3>2
  <2> QED
    BY <1>0, <2>1 DEF ReadInStep, PointersOf
<1> QED
    BY <1>1, <1>2, <1>3 DEF ReadStep

\* Every step keeps all calls in step.
LEMMA InStepNext == TypeOK /\ InStep /\ [Next]_vars => InStep'
<1> SUFFICES ASSUME TypeOK, InStep, [Next]_vars PROVE InStep'
    OBVIOUS
<1>1. TablesStep
    BY TablesMove
<1>2. ASSUME NEW p \in Promoters PROVE CallInStep(p)'
  <2>1. ASSUME NEW q \in Promoters,
               \/ Begin(q) \/ PromoteStep(q) \/ PromoteFails(q)
               \/ LostPutChannel(q) \/ SpuriousConflict(q)
        PROVE  CallInStep(p)'
    <3>1. CASE p = q
        BY <1>1, <2>1, <3>1, PromoterInStep DEF InStep
    <3>2. CASE p # q
        BY <1>1, <2>1, <3>2, PromoterActions, OthersInStep DEF InStep, OthersKeep
    <3> QED
        BY <3>1, <3>2
  <2>2. CASE UNCHANGED call
    BY <1>1, <2>2, OthersInStep DEF InStep
  <2> QED
    BY <2>1, <2>2 DEF Next, vars, Publish, Deprecate, BeginRead, ReadStep, GetPointer,
       GetResource, ReadFails
<1>3. ASSUME NEW r \in Readers PROVE ReadInStep(r)'
  <2>1. CASE read'[r] = read[r]
    BY <1>1, <2>1, TablesGrow DEF InStep, ReadInStep, PointersOf
  <2>2. ASSUME NEW s \in Readers, BeginRead(s) \/ ReadStep(s) \/ ReadFails(s)
        PROVE  ReadInStep(r)'
    <3>1. CASE r = s
        BY <2>2, <3>1, ReaderInStep DEF InStep
    <3>2. CASE r # s
      <4>1. read'[r] = read[r]
        BY <2>2, <3>2 DEF BeginRead, ReadStep, GetPointer, GetResource, ReadFails, TypeOK
      <4> QED
        BY <2>1, <4>1
    <3> QED
        BY <3>1, <3>2
  <2>3. CASE UNCHANGED read
    BY <2>1, <2>3
  <2>4. ASSUME NEW p \in Promoters,
               \/ Begin(p) \/ PromoteStep(p) \/ PromoteFails(p)
               \/ LostPutChannel(p) \/ SpuriousConflict(p)
        PROVE  UNCHANGED read
    BY <2>4, PromoterActions
  <2> QED
    BY <2>2, <2>3, <2>4 DEF Next, vars, Publish, Deprecate
<1> QED
    BY <1>2, <1>3 DEF InStep

\* A row is inserted right above the channel's latest version: with versions
\* numbered without gaps, any later row would have taken its place.
LEMMA InsertsAboveLatest ==
    ASSUME TypeOK, InStep, NumberedWithoutGaps, NEW p \in Promoters,
           At(p, "put_channel"), ~ Taken(p)
    PROVE  ObservedVersion(Key(p), call[p].observed)
<1>1. /\ call[p].observed \in 0 .. MaxVersion
      /\ call[p].observed > 0 => \E row \in PointersOf(Key(p)) : row.version = call[p].observed
    BY DEF TypeOK, Calls, InStep, CallInStep, At
<1>2. \A row \in PointersOf(Key(p)) : row.version # call[p].observed + 1
    BY DEF Taken, Successor
<1>3. ASSUME NEW row \in PointersOf(Key(p)) PROVE row.version <= call[p].observed
  <2>1. row \in pointers /\ row.key = Key(p) /\ row.version \in 1 .. MaxVersion
    BY DEF PointersOf, TypeOK, PointerRows
  <2>2. \A version \in 1 .. row.version :
            \E other \in PointersOf(Key(p)) : other.version = version
    BY <2>1 DEF NumberedWithoutGaps
  <2>3. call[p].observed + 1 \notin 1 .. row.version
    BY <1>2, <2>2
  <2> QED
    BY <1>1, <2>1, <2>3, BoundsAssumption
<1>4. CASE PointersOf(Key(p)) = {}
    BY <1>1, <1>4, BoundsAssumption DEF ObservedVersion
<1>5. CASE PointersOf(Key(p)) # {}
  <2>1. call[p].observed # 0
    <3>1. PICK row \in PointersOf(Key(p)) : TRUE
        BY <1>5
    <3>2. row.version \in 1 .. MaxVersion
        BY DEF PointersOf, TypeOK, PointerRows
    <3> QED
        BY <1>3, <3>2, BoundsAssumption
  <2>2. PICK row \in PointersOf(Key(p)) : row.version = call[p].observed
    BY <1>1, <2>1, BoundsAssumption
  <2>3. row \in LatestChannel(Key(p))
    BY <1>3, <2>2 DEF LatestChannel
  <2> QED
    BY <1>5, <2>2, <2>3 DEF ObservedVersion
<1> QED
    BY <1>4, <1>5

\* Every step keeps the versions numbered without gaps.
LEMMA NumberedNext ==
    TypeOK /\ InStep /\ NumberedWithoutGaps /\ TablesStep => NumberedWithoutGaps'
<1> SUFFICES ASSUME TypeOK, InStep, NumberedWithoutGaps, TablesStep
             PROVE  NumberedWithoutGaps'
    OBVIOUS
<1>1. CASE UNCHANGED pointers
    BY <1>1 DEF NumberedWithoutGaps, PointersOf
<1>2. ASSUME NEW p \in Promoters, Inserts(p) PROVE NumberedWithoutGaps'
  <2> DEFINE new == Successor(p)
  <2>1. /\ pointers' = pointers \union {new}
        /\ new.key = Key(p) /\ new.version = call[p].observed + 1
        /\ call[p].observed \in 0 .. MaxVersion
        /\ call[p].observed > 0 =>
               \E row \in PointersOf(Key(p)) : row.version = call[p].observed
        /\ \A row \in PointersOf(Key(p)) : row.version # new.version
    BY <1>2 DEF Inserts, Successor, TypeOK, Calls, InStep, CallInStep, At, Taken
  <2> HIDE DEF new
  <2>2. ASSUME NEW row \in pointers', NEW other \in PointersOf(row.key)',
               other.version = row.version
        PROVE  other = row
    BY <2>1, <2>2 DEF PointersOf, NumberedWithoutGaps
  <2>3. ASSUME NEW row \in pointers', NEW version \in 1 .. row.version
        PROVE  \E other \in PointersOf(row.key)' : other.version = version
    <3>1. CASE row \in pointers
      <4>1. \E other \in PointersOf(row.key) : other.version = version
        BY <3>1, <2>3 DEF NumberedWithoutGaps
      <4> QED
        BY <4>1, <2>1 DEF PointersOf
    <3>2. CASE row = new /\ version = new.version
        BY <2>1, <3>2 DEF PointersOf
    <3>3. CASE row = new /\ version # new.version
      <4>1. version \in 1 .. call[p].observed /\ call[p].observed > 0
        BY <2>1, <2>3, <3>3, BoundsAssumption
      <4>2. PICK below \in PointersOf(Key(p)) : below.version = call[p].observed
        BY <2>1, <4>1
      <4>3. below \in pointers /\ below.key = Key(p)
        BY DEF PointersOf
      <4>4. \E other \in PointersOf(Key(p)) : other.version = version
        BY <4>1, <4>2, <4>3 DEF NumberedWithoutGaps
      <4> QED
        BY <2>1, <3>3, <4>4 DEF PointersOf
    <3> QED
        BY <2>1, <3>1, <3>2, <3>3
  <2> QED
    BY <2>2, <2>3 DEF NumberedWithoutGaps
<1> QED
    BY <1>1, <1>2 DEF TablesStep

\* Every step keeps a resource behind every pointer.
LEMMA ResolveNext == InStep /\ PointersResolve /\ TablesStep => PointersResolve'
<1> SUFFICES ASSUME InStep, PointersResolve, TablesStep PROVE PointersResolve'
    OBVIOUS
<1>1. CASE UNCHANGED pointers
    BY <1>1, TablesGrow DEF PointersResolve
<1>2. ASSUME NEW p \in Promoters, Inserts(p) PROVE PointersResolve'
  <2>1. /\ ById(call[p].target) # {}
        /\ Successor(p).target = call[p].target
        /\ Successor(p).key[1] = FamilyOf[call[p].target]
    BY <1>2 DEF Inserts, InStep, CallInStep, At, Successor, Key
  <2>2. ASSUME NEW row \in pointers'
        PROVE  ById(row.target) # {} /\ FamilyOf[row.target] = row.key[1]
    BY <1>2, <2>1 DEF Inserts, PointersResolve
  <2> QED
    BY <2>2, TablesGrow DEF PointersResolve
<1> QED
    BY <1>1, <1>2 DEF TablesStep

\* The invariant holds initially.
LEMMA InvariantInit == Init => IInv
<1>1. Init => InStep
    BY DEF Init, InStep, CallInStep, ReadInStep
<1>2. Init => NumberedWithoutGaps /\ PointersResolve
    BY DEF Init, NumberedWithoutGaps, PointersResolve
<1> QED
    BY <1>1, <1>2, TypeInit DEF IInv

\* Every step keeps the invariant.
LEMMA InvariantNext == IInv /\ [Next]_vars => IInv'
<1> QED
    BY TypeNext, InStepNext, NumberedNext, ResolveNext, TablesMove DEF IInv

\* The inductive invariant holds always.
LEMMA Invariant == Spec => []IInv
<1> QED
    BY InvariantInit, InvariantNext, PTL DEF Spec

\* Type correctness: the row that promote inserts is a successor the schema allows.
THEOREM TypeCorrect == Spec => []TypeOK
<1>1. IInv => TypeOK
    BY DEF IInv
<1> QED
    BY <1>1, Invariant, PTL

\* What promote and a resolving consumer rely on between two remote operations
\* stays true, whatever other callers do in between.
THEOREM CallsStayInStep == Spec => []InStep
<1>1. IInv => InStep
    BY DEF IInv
<1> QED
    BY <1>1, Invariant, PTL

\* The deterministic row ids number the versions of a channel 1 to n, one row
\* each, however many promoters race.
THEOREM VersionsNumbered == Spec => []NumberedWithoutGaps
<1>1. IInv => NumberedWithoutGaps
    BY DEF IInv
<1> QED
    BY <1>1, Invariant, PTL

\* A pointer row always names a resource of its own family that exists.
THEOREM PointersHaveTargets == Spec => []PointersResolve
<1>1. IInv => PointersResolve
    BY DEF IInv
<1> QED
    BY <1>1, Invariant, PTL

--------------------------------------------------------------------------------
(* What callers are told. *)

\* A step adds at most the successor of a channel's latest row.
LEMMA AppendStep ==
    ASSUME IInv, [Next]_vars
    PROVE  /\ pointers \subseteq pointers'
           /\ \A row \in pointers' \ pointers :
                  /\ ObservedVersion(row.key, row.version - 1)
                  /\ call[row.actor].expected = row.version - 1
<1>1. TablesStep
    BY TablesMove DEF IInv
<1>2. ASSUME NEW p \in Promoters, Inserts(p)
      PROVE  \A row \in pointers' \ pointers :
                 /\ ObservedVersion(row.key, row.version - 1)
                 /\ call[row.actor].expected = row.version - 1
  <2>1. /\ Successor(p).key = Key(p) /\ Successor(p).actor = p
        /\ Successor(p).version = call[p].observed + 1
        /\ call[p].observed = call[p].expected /\ call[p].observed \in 0 .. MaxVersion
    BY <1>2 DEF Inserts, Successor, IInv, InStep, CallInStep, At, TypeOK, Calls
  <2>2. Successor(p).version - 1 = call[p].observed
    BY <2>1, BoundsAssumption
  <2>3. ObservedVersion(Key(p), call[p].observed)
    BY <1>2, InsertsAboveLatest DEF Inserts, IInv
  <2>4. \A row \in pointers' \ pointers : row = Successor(p)
    BY <1>2 DEF Inserts
  <2> QED
    BY <2>1, <2>2, <2>3, <2>4
<1> QED
    BY <1>1, <1>2, TablesGrow DEF TablesStep

\* Pointer rows are append-only, and each promotion adds the successor of the
\* channel's latest row, at the version its caller expected.
THEOREM HistoryAppended == Spec => AppendOnly
<1>1. IInv /\ [Next]_vars =>
          [/\ pointers \subseteq pointers'
           /\ \A row \in pointers' \ pointers :
                  /\ ObservedVersion(row.key, row.version - 1)
                  /\ call[row.actor].expected = row.version - 1]_vars
    BY AppendStep
<1> QED
    BY <1>1, Invariant, PTL DEF Spec, AppendOnly

AnswerSound(p) ==
    /\ call[p].outcome = "promoted" =>
           [key |-> Key(p), version |-> call[p].expected + 1,
            target |-> call[p].target, actor |-> p] \in pointers
    /\ call[p].outcome = "stale" =>
           \/ call[p].observed # call[p].expected
           \/ Taken(p)
           \/ faults >= 1

\* An answer stays sound: rows are never removed.
LEMMA AnswerStays ==
    ASSUME TypeOK, TablesStep, UNCHANGED faults \/ Fault, NEW p \in Promoters,
           AnswerSound(p), call'[p] = call[p]
    PROVE  AnswerSound(p)'
<1>1. Key(p)' = Key(p) /\ Successor(p)' = Successor(p)
    BY DEF Key, Successor
<1>2. Taken(p) => Taken(p)'
    BY <1>1, TablesGrow DEF Taken, PointersOf
<1>3. faults >= 1 => faults' >= 1
    BY BoundsAssumption DEF Fault, TypeOK
<1> QED
    BY <1>1, <1>2, <1>3, TablesGrow DEF AnswerSound

\* Whoever moves gets a sound answer.
LEMMA AnswerGiven ==
    ASSUME IInv, NEW p \in Promoters,
           Begin(p) \/ PromoteStep(p) \/ PromoteFails(p) \/ LostPutChannel(p) \/ SpuriousConflict(p)
    PROVE  AnswerSound(p)'
<1>0. TypeOK /\ CallTyped /\ CallInStep(p)
    BY DEF IInv, TypeOK, CallTyped, InStep
<1>1. CASE call'[p].outcome \notin {"promoted", "stale"}
    BY <1>1 DEF AnswerSound
<1>2. CASE Begin(p)
    BY <1>0, <1>1, <1>2, BeginMoves
<1>3. CASE ResolveTarget(p)
  <2>1. At(p, "resolve") /\ call[p].outcome = "none"
    BY <1>0, <1>3 DEF ResolveTarget, At, CallInStep
  <2>2. \/ GoTo(p, "read_pointer")
        \/ \E outcome \in Refusals : Raise(p, outcome)
    BY <1>0, <1>3, ResolveTargetMoves
  <2>3. call'[p].outcome \in {"none"} \union Refusals
    BY <1>0, <2>1, <2>2, GoToMoves, RaiseMoves DEF Outcomes
  <2> QED
    BY <1>1, <2>3 DEF Refusals
<1>4. CASE ReadPointer(p)
  <2>1. \/ call'[p].outcome = "none"
        \/ call'[p].outcome = "stale" /\ call'[p].observed # call'[p].expected
    BY <1>0, <1>4, ReadPointerMoves DEF SameRequest
  <2> QED
    BY <2>1 DEF AnswerSound
<1>5. CASE PutChannel(p)
  <2>1. At(p, "put_channel") /\ call[p].observed = call[p].expected
    BY <1>0, <1>5 DEF PutChannel, At, CallInStep
  <2>2. CASE Taken(p)
    <3>1. call'[p].outcome = "stale" /\ SameRequest(p) /\ call'[p].observed = call[p].observed
        BY <1>0, <1>5, <2>2, RaiseMoves DEF PutChannel, Outcomes
    <3>2. Key(p)' = Key(p) /\ Successor(p)' = Successor(p) /\ pointers' = pointers
        BY <3>1, <1>5, <2>2 DEF PutChannel, Key, Successor, SameRequest
    <3> QED
        BY <2>2, <3>1, <3>2 DEF AnswerSound, Taken, PointersOf
  <2>3. CASE ~ Taken(p)
    <3>1. /\ call'[p].outcome = "promoted" /\ SameRequest(p)
          /\ pointers' = pointers \union {Successor(p)}
        BY <1>0, <1>5, <2>3, RaiseMoves DEF PutChannel, Outcomes
    <3>2. [key |-> Key(p), version |-> call[p].expected + 1,
           target |-> call[p].target, actor |-> p]' = Successor(p)
        BY <2>1, <3>1 DEF Key, Successor, SameRequest
    <3> QED
        BY <3>1, <3>2 DEF AnswerSound
  <2> QED
    BY <2>2, <2>3
<1>6. CASE PromoteFails(p)
  <2>1. call'[p].outcome = "error"
    BY <1>0, <1>6, RaiseMoves DEF PromoteFails, Outcomes
  <2> QED
    BY <1>1, <2>1
<1>7. CASE LostPutChannel(p) \/ SpuriousConflict(p)
  <2>1. call'[p].outcome \in {"error", "stale"} /\ faults' >= 1
    BY <1>0, <1>7, RaiseMoves, BoundsAssumption
       DEF LostPutChannel, SpuriousConflict, Outcomes, Fault, TypeOK
  <2> QED
    BY <2>1 DEF AnswerSound
<1> QED
    BY <1>2, <1>3, <1>4, <1>5, <1>6, <1>7 DEF PromoteStep

\* Faults are counted one by one.
LEMMA FaultsCount == [Next]_vars => UNCHANGED faults \/ Fault
<1> QED
    BY DEF Next, vars, Publish, Deprecate, Begin, PromoteStep, ResolveTarget, ReadPointer,
       PutChannel, PromoteFails, LostPutChannel, SpuriousConflict, BeginRead,
       ReadStep, GetPointer, GetResource, ReadFails

\* Every step leaves every answer sound.
LEMMA AnswersNext ==
    ASSUME IInv, \A p \in Promoters : AnswerSound(p), [Next]_vars
    PROVE  (\A p \in Promoters : AnswerSound(p))'
<1> SUFFICES ASSUME NEW p \in Promoters PROVE AnswerSound(p)'
    OBVIOUS
<1>0. TypeOK /\ TablesStep /\ (UNCHANGED faults \/ Fault)
    BY TablesMove, FaultsCount DEF IInv
<1>1. CASE call'[p] = call[p]
    BY <1>0, <1>1, AnswerStays
<1>2. ASSUME NEW q \in Promoters,
             \/ Begin(q) \/ PromoteStep(q) \/ PromoteFails(q)
             \/ LostPutChannel(q) \/ SpuriousConflict(q)
      PROVE  AnswerSound(p)'
  <2>1. CASE p = q
    BY <1>2, <2>1, AnswerGiven
  <2>2. CASE p # q
    BY <1>0, <1>1, <1>2, <2>2, PromoterActions DEF OthersKeep
  <2> QED
    BY <2>1, <2>2
<1>3. CASE UNCHANGED call
    BY <1>1, <1>3
<1> QED
    BY <1>2, <1>3 DEF Next, vars, Publish, Deprecate, BeginRead, ReadStep,
       GetPointer, GetResource, ReadFails

\* Every answer is sound always.
LEMMA AnswersSound == Spec => [](\A p \in Promoters : AnswerSound(p))
<1>1. Init => \A p \in Promoters : AnswerSound(p)
    BY DEF Init, AnswerSound
<1> QED
    BY <1>1, AnswersNext, Invariant, PTL DEF Spec

\* A promotion that is reported won is in the channel, one above the version
\* its caller expected.
THEOREM PromotionsTruthful == Spec => []PromotedIsMine
<1>1. (\A p \in Promoters : AnswerSound(p)) => PromotedIsMine
    BY DEF AnswerSound, PromotedIsMine
<1> QED
    BY <1>1, AnswersSound, PTL

\* StaleChannelPointer has its reason in the channel, or in a fault.
THEOREM RefusalsJustified == Spec => []StaleHasReason
<1>1. (\A p \in Promoters : AnswerSound(p)) => StaleHasReason
    BY DEF AnswerSound, StaleHasReason
<1> QED
    BY <1>1, AnswersSound, PTL

--------------------------------------------------------------------------------
(* What consumers resolve. *)

\* GetPointer ends a resolution, or goes on with the latest row.
LEMMA GetPointerMoves ==
    ASSUME TypeOK, NEW r \in Readers, GetPointer(r)
    PROVE  \/ read'[r].pc = "idle" /\ read'[r].outcome = "no_pointer"
           \/ /\ read'[r].pc = "get_resource" /\ read'[r].outcome = read[r].outcome
              /\ \E row \in LatestChannel(read[r].key) : read'[r].pointer = {row}
<1>1. \/ read' = [read EXCEPT ![r].pc = "idle", ![r].outcome = "no_pointer"]
      \/ \E row \in LatestChannel(read[r].key) :
             read' = [read EXCEPT ![r].pc = "get_resource", ![r].pointer = {row}]
    BY DEF GetPointer
<1>2. read \in [Readers -> Reads]
    BY DEF TypeOK
<1>3. CASE read' = [read EXCEPT ![r].pc = "idle", ![r].outcome = "no_pointer"]
    BY <1>2, <1>3 DEF Reads
<1>4. ASSUME NEW row \in LatestChannel(read[r].key),
             read' = [read EXCEPT ![r].pc = "get_resource", ![r].pointer = {row}]
      PROVE  /\ read'[r].pc = "get_resource" /\ read'[r].outcome = read[r].outcome
             /\ read'[r].pointer = {row}
    BY <1>2, <1>4 DEF Reads
<1> QED
    BY <1>1, <1>3, <1>4

\* A step of one reader leaves the others where they are.
LEMMA OtherReaders ==
    ASSUME TypeOK, NEW r \in Readers, BeginRead(r) \/ ReadStep(r) \/ ReadFails(r),
           NEW s \in Readers, r # s
    PROVE  read'[s] = read[s]
<1> QED
    BY DEF TypeOK, BeginRead, ReadStep, GetPointer, GetResource, ReadFails

\* What a reader resolves on a channel is its latest row: later reads never go
\* back behind earlier ones.
THEOREM ReadsAdvance == Spec => ReadsNeverGoBack
<1> DEFINE Advances ==
        \A r \in Readers :
            read'[r].pc = "get_resource" /\ read[r].pc = "get_pointer" =>
                \A row \in read'[r].pointer :
                    \A other \in PointersOf(read[r].key) : other.version <= row.version
<1>1. ASSUME IInv, [Next]_vars PROVE Advances
  <2>0. TypeOK
    BY <1>1 DEF IInv
  <2> SUFFICES ASSUME NEW r \in Readers,
                      read'[r].pc = "get_resource", read[r].pc = "get_pointer"
               PROVE  \A row \in read'[r].pointer :
                          \A other \in PointersOf(read[r].key) : other.version <= row.version
    OBVIOUS
  <2>1. CASE GetPointer(r)
    BY <2>0, <2>1, GetPointerMoves DEF LatestChannel
  <2>2. CASE GetResource(r) \/ BeginRead(r)
    BY <2>0, <2>2 DEF GetResource, BeginRead
  <2>3. CASE ReadFails(r)
    BY <2>0, <2>3 DEF ReadFails, TypeOK, Reads
  <2>4. ASSUME NEW s \in Readers, BeginRead(s) \/ ReadStep(s) \/ ReadFails(s)
        PROVE  r = s
    BY <2>0, <2>4, OtherReaders
  <2>5. ASSUME NEW p \in Promoters,
               \/ Begin(p) \/ PromoteStep(p) \/ PromoteFails(p)
               \/ LostPutChannel(p) \/ SpuriousConflict(p)
        PROVE  UNCHANGED read
    BY <2>0, <2>5, PromoterActions
  <2> QED
    BY <1>1, <2>1, <2>2, <2>3, <2>4, <2>5 DEF Next, vars, Publish, Deprecate, ReadStep
<1>2. IInv /\ [Next]_vars => [Advances]_vars
    BY <1>1
<1> QED
    BY <1>2, Invariant, PTL DEF Spec, ReadsNeverGoBack

ResolutionSound(r) ==
    /\ read[r].outcome # "no_resource"
    /\ read[r].pc # "idle" => read[r].outcome = "none"
    /\ read[r].outcome = "resolved" =>
           \E row \in read[r].pointer, found \in read[r].resource :
               /\ row \in pointers /\ row.key = read[r].key
               /\ found.id = row.target /\ found.profile = read[r].wanted

\* A reader that moves ends with a sound resolution.
LEMMA ResolutionStep ==
    ASSUME IInv, NEW r \in Readers, ResolutionSound(r),
           BeginRead(r) \/ ReadStep(r) \/ ReadFails(r)
    PROVE  ResolutionSound(r)'
<1>0. TypeOK /\ ReadInStep(r)
    BY DEF IInv, InStep
<1>1. CASE BeginRead(r)
  <2>1. read'[r].outcome = "none"
    BY <1>0, <1>1 DEF BeginRead, TypeOK
  <2> QED
    BY <2>1 DEF ResolutionSound
<1>2. CASE ReadFails(r)
  <2>1. read'[r].outcome = "error" /\ read'[r].pc = "idle"
    BY <1>0, <1>2 DEF ReadFails, TypeOK, Reads
  <2> QED
    BY <2>1 DEF ResolutionSound
<1>3. CASE GetPointer(r)
  <2>1. read[r].outcome = "none"
    BY <1>3 DEF GetPointer, ResolutionSound
  <2>2. \/ read'[r].pc = "idle" /\ read'[r].outcome = "no_pointer"
        \/ read'[r].outcome = "none"
    BY <1>0, <1>3, <2>1, GetPointerMoves
  <2> QED
    BY <2>2 DEF ResolutionSound
<1>4. CASE GetResource(r)
  <2>1. /\ read[r].pointer # {} /\ read[r].pointer \subseteq PointersOf(read[r].key)
    BY <1>0, <1>4 DEF ReadInStep, GetResource
  <2>2. \A pointer \in read[r].pointer : pointer \in pointers /\ pointer.key = read[r].key
    BY <2>1 DEF PointersOf
  <2>3. \A pointer \in read[r].pointer : ById(pointer.target) # {}
    BY <2>2 DEF IInv, PointersResolve
  <2>4. /\ read'[r].pc = "idle" /\ read'[r].key = read[r].key
        /\ read'[r].wanted = read[r].wanted /\ read'[r].pointer = read[r].pointer
        /\ read'[r].outcome # "no_resource"
        /\ \E pointer \in read[r].pointer, row \in resources :
               /\ row.id = pointer.target /\ read'[r].resource = {row}
               /\ read'[r].outcome = "resolved" => row.profile = read[r].wanted
    BY <1>0, <1>4, <2>1, <2>3, GetResourceMoves
  <2>5. pointers' = pointers
    BY <1>4 DEF GetResource
  <2> QED
    BY <2>2, <2>4, <2>5 DEF ResolutionSound
<1> QED
    BY <1>1, <1>2, <1>3, <1>4 DEF ReadStep

\* A pointer never leads a consumer to nothing, and the resource it hands out
\* is the one its pointer names, of the profile it asked for.
THEOREM ResolutionsConsistent == Spec => []ResolutionConsistent
<1>1. Init => \A r \in Readers : ResolutionSound(r)
    BY DEF Init, ResolutionSound
<1>2. ASSUME IInv, \A r \in Readers : ResolutionSound(r), [Next]_vars
      PROVE  (\A r \in Readers : ResolutionSound(r))'
  <2> SUFFICES ASSUME NEW r \in Readers PROVE ResolutionSound(r)'
    OBVIOUS
  <2>0. TypeOK /\ pointers \subseteq pointers'
    BY <1>2, TablesMove, TablesGrow DEF IInv
  <2>1. CASE read'[r] = read[r]
    BY <1>2, <2>0, <2>1 DEF ResolutionSound
  <2>2. ASSUME NEW s \in Readers, BeginRead(s) \/ ReadStep(s) \/ ReadFails(s)
        PROVE  ResolutionSound(r)'
    <3>1. CASE r = s
        BY <1>2, <2>2, <3>1, ResolutionStep
    <3>2. CASE r # s
        BY <2>0, <2>1, <2>2, <3>2, OtherReaders
    <3> QED
        BY <3>1, <3>2
  <2>3. ASSUME NEW p \in Promoters,
               \/ Begin(p) \/ PromoteStep(p) \/ PromoteFails(p)
               \/ LostPutChannel(p) \/ SpuriousConflict(p)
        PROVE  UNCHANGED read
    BY <2>0, <2>3, PromoterActions
  <2>4. CASE UNCHANGED read
    BY <2>1, <2>4
  <2> QED
    BY <1>2, <2>2, <2>3, <2>4 DEF Next, vars, Publish, Deprecate
<1>3. (\A r \in Readers : ResolutionSound(r)) => ResolutionConsistent
    BY DEF ResolutionSound, ResolutionConsistent
<1> QED
    BY <1>1, <1>2, <1>3, Invariant, PTL DEF Spec

--------------------------------------------------------------------------------
(* Each channel implements a compare-and-set register. *)

\* A channel is at exactly one version.
LEMMA OneVersion ==
    ASSUME TypeOK, NEW key, NEW m \in 0 .. MaxVersion, NEW n \in 0 .. MaxVersion,
           ObservedVersion(key, m), ObservedVersion(key, n)
    PROVE  m = n
<1>1. CASE PointersOf(key) = {}
    BY <1>1 DEF ObservedVersion
<1>2. CASE PointersOf(key) # {}
  <2>1. PICK left \in LatestChannel(key) : left.version = m
    BY <1>2 DEF ObservedVersion
  <2>2. PICK right \in LatestChannel(key) : right.version = n
    BY <1>2 DEF ObservedVersion
  <2>3. m <= n /\ n <= m
    BY <2>1, <2>2 DEF LatestChannel
  <2> QED
    BY <2>3, BoundsAssumption
<1> QED
    BY <1>1, <1>2

\* The least number that no version exceeds is the version the channel is at.
LEMMA SomeVersion ==
    ASSUME TypeOK, NEW key
    PROVE  \E version \in 0 .. MaxVersion : ObservedVersion(key, version)
<1>1. CASE PointersOf(key) = {}
  <2>1. 0 \in 0 .. MaxVersion
    BY BoundsAssumption
  <2> QED
    BY <1>1, <2>1 DEF ObservedVersion
<1>2. CASE PointersOf(key) # {}
  <2> DEFINE bounds == {n \in 0 .. MaxVersion : \A row \in PointersOf(key) : row.version <= n}
  <2>1. \A row \in PointersOf(key) : row.version \in 1 .. MaxVersion
    BY DEF PointersOf, TypeOK, PointerRows
  <2>2. MaxVersion \in bounds /\ bounds \subseteq Nat
    BY <2>1, BoundsAssumption
  <2>3. PICK least \in bounds : \A n \in bounds : ~ (n < least)
    <3> DEFINE less == {pair \in Nat \X Nat : pair[1] < pair[2]}
    <3>1. IsWellFoundedOn(less, Nat)
        BY NatLessThanWellFounded DEF OpToRel
    <3> HIDE DEF less
    <3>2. PICK least \in bounds : \A n \in bounds : ~ (<<n, least>> \in less)
      <4> HIDE DEF bounds
      <4> QED
        BY <2>2, <3>1, WFMin
    <3>3. ASSUME NEW n \in bounds, n < least PROVE FALSE
        BY <2>2, <3>2, <3>3 DEF less
    <3> HIDE DEF bounds
    <3> QED
        BY <3>2, <3>3
  <2>4. \E row \in PointersOf(key) : row.version = least
    <3>1. SUFFICES ASSUME \A row \in PointersOf(key) : row.version # least
                   PROVE  FALSE
        OBVIOUS
    <3>2. least \in 1 .. MaxVersion
        BY <1>2, <2>1, BoundsAssumption
    <3>3. \A row \in PointersOf(key) : row.version <= least - 1
        BY <2>1, <3>1, <3>2
    <3>4. least - 1 \in bounds
        BY <3>2, <3>3, BoundsAssumption
    <3> QED
        BY <2>3, <3>2, <3>4
  <2>5. PICK row \in PointersOf(key) : row.version = least
    BY <2>4
  <2>6. row \in LatestChannel(key)
    BY <2>5 DEF LatestChannel
  <2> QED
    BY <1>2, <2>5, <2>6 DEF ObservedVersion
<1> QED
    BY <1>1, <1>2

\* The version a channel is observed at is the current one.
LEMMA CurrentVersionIs ==
    ASSUME TypeOK, NEW key, NEW version \in 0 .. MaxVersion, ObservedVersion(key, version)
    PROVE  CurrentVersion(key) = version
<1>1. \A other \in 0 .. MaxVersion : ObservedVersion(key, other) => other = version
    BY OneVersion
<1> QED
    BY <1>1 DEF CurrentVersion

\* Every channel has a current version.
LEMMA CurrentVersionObserved ==
    ASSUME TypeOK, NEW key
    PROVE  CurrentVersion(key) \in 0 .. MaxVersion /\ ObservedVersion(key, CurrentVersion(key))
<1> QED
    BY SomeVersion DEF CurrentVersion

\* The calls as the register sees them.
AbstractOp == [p \in Promoters |-> OpOf(call[p])]

\* The register's word for each outcome of promote.
LEMMA AnswerNames == /\ AnswerOf("none") = "none"
                     /\ AnswerOf("promoted") = "swapped"
                     /\ AnswerOf("stale") = "refused"
                     /\ AnswerOf("error") = "unknown"
                     /\ \A outcome \in Refusals : AnswerOf(outcome) = "declined"
<1> QED
    BY DEF AnswerOf, Refusals

\* A call of promote is an operation of the register.
LEMMA OpTyped == ASSUME NEW c \in Calls PROVE OpOf(c) \in Register!Ops
<1>1. AnswerOf(c.outcome) \in Register!Answers
    BY DEF Calls, Outcomes, AnswerOf, Register!Answers
<1>2. <<FamilyOf[c.target], c.name>> \in Keys
    BY FamiliesAssumption DEF Calls, Keys
<1>3. c.expected \in 0 .. MaxVersion
    BY BoundsAssumption DEF Calls
<1> QED
    BY <1>1, <1>2, <1>3 DEF Calls, OpOf, Register!Ops

\* Two operations of the register that differ in their answer alone.
LEMMA AnsweredOp ==
    ASSUME NEW o \in Register!Ops, NEW k \in Register!Ops, k.pending = FALSE,
           k.key = o.key, k.expected = o.expected, k.value = o.value
    PROVE  [o EXCEPT !.pending = FALSE, !.answer = k.answer] = k
<1> QED
    BY DEF Register!Ops

\* Where a call stands is invisible while it runs.
LEMMA InvisibleMove ==
    ASSUME TypeOK, CallTyped', NEW p \in Promoters, OthersKeep(p), SameRequest(p),
           call[p].pc # "idle", call'[p].pc # "idle", call'[p].outcome = call[p].outcome
    PROVE  UNCHANGED AbstractOp
<1>1. OpOf(call'[p]) = OpOf(call[p])
    BY DEF OpOf, SameRequest
<1>2. \A q \in Promoters : OpOf(call'[q]) = OpOf(call[q])
    BY <1>1 DEF OthersKeep
<1> QED
    BY <1>2 DEF AbstractOp

\* A call that ends answers.
LEMMA AnswerMove ==
    ASSUME TypeOK, CallTyped', NEW p \in Promoters, OthersKeep(p), SameRequest(p),
           call[p].pc # "idle", call'[p].pc = "idle"
    PROVE  /\ AbstractOp[p].pending
           /\ AbstractOp' = [AbstractOp EXCEPT ![p].pending = FALSE,
                                               ![p].answer = AnswerOf(call'[p].outcome)]
<1> DEFINE o == [OpOf(call[p]) EXCEPT !.pending = FALSE, !.answer = AnswerOf(call'[p].outcome)]
<1>1. OpOf(call'[p]) = o
  <2>1. OpOf(call[p]) \in Register!Ops /\ OpOf(call'[p]) \in Register!Ops
    BY OpTyped DEF TypeOK, CallTyped
  <2>2. /\ OpOf(call'[p]).pending = FALSE
        /\ OpOf(call'[p]).answer = AnswerOf(call'[p].outcome)
        /\ OpOf(call'[p]).key = OpOf(call[p]).key
        /\ OpOf(call'[p]).expected = OpOf(call[p]).expected
        /\ OpOf(call'[p]).value = OpOf(call[p]).value
    BY DEF OpOf, SameRequest
  <2> QED
    BY <2>1, <2>2, AnsweredOp
<1>2. \A q \in Promoters : q # p => OpOf(call'[q]) = OpOf(call[q])
    BY DEF OthersKeep
<1>3. AbstractOp' = [AbstractOp EXCEPT ![p] = o]
    BY <1>1, <1>2 DEF AbstractOp
<1>4. AbstractOp[p] = OpOf(call[p])
    BY DEF AbstractOp
<1>5. OpOf(call[p]).pending = TRUE
    BY DEF OpOf
<1> QED
    BY <1>3, <1>4, <1>5

\* The register stays when the rows do.
LEMMA RegisterStays ==
    ASSUME UNCHANGED pointers
    PROVE  UNCHANGED <<RegisterVersion, RegisterValue>>
<1>1. \A key : PointersOf(key)' = PointersOf(key) /\ LatestChannel(key)' = LatestChannel(key)
    BY DEF PointersOf, LatestChannel
<1>2. \A key : CurrentVersion(key)' = CurrentVersion(key)
    BY <1>1 DEF CurrentVersion, ObservedVersion
<1> QED
    BY <1>1, <1>2 DEF RegisterVersion, RegisterValue

\* Inserting a row is a swap of its channel's register, from the version the
\* caller expected.
LEMMA InsertSwaps ==
    ASSUME IInv, TypeOK', NEW p \in Promoters, Inserts(p)
    PROVE  /\ RegisterVersion[Key(p)] = call[p].expected
           /\ RegisterVersion' = [RegisterVersion EXCEPT ![Key(p)] = call[p].expected + 1]
           /\ RegisterValue' = [RegisterValue EXCEPT ![Key(p)] = {call[p].target}]
<1>0. PICK new, key : new = Successor(p) /\ key = Key(p)
    OBVIOUS
<1>1. /\ At(p, "put_channel") /\ ~ Taken(p) /\ pointers' = pointers \union {new}
      /\ TypeOK /\ CallTyped /\ CallInStep(p) /\ key \in Keys
    BY <1>0, KeyTyped DEF Inserts, IInv, InStep, TypeOK, CallTyped
<1>2. /\ call[p].observed = call[p].expected
      /\ call[p].expected \in 0 .. MaxVersion - 1
    BY <1>1 DEF CallInStep, At, CallTyped, Calls
<1>3. ObservedVersion(key, call[p].expected)
    BY <1>1, <1>2, <1>0, InsertsAboveLatest DEF IInv
<1>4. CurrentVersion(key) = call[p].expected
    BY <1>1, <1>2, <1>3, CurrentVersionIs, BoundsAssumption
<1>5. /\ new.key = key /\ new.version = call[p].expected + 1 /\ new.target = call[p].target
    BY <1>0, <1>1, SuccessorTyped
<1>6. \A row \in PointersOf(key) : row.version < new.version
  <2>1. CASE PointersOf(key) = {}
    BY <2>1
  <2>2. CASE PointersOf(key) # {}
    <3>1. PICK latest \in LatestChannel(key) : latest.version = call[p].expected
        BY <1>3, <2>2 DEF ObservedVersion
    <3>2. \A row \in PointersOf(key) : row.version <= call[p].expected /\ row.version \in Nat
        BY <1>1, <3>1 DEF LatestChannel, PointersOf, TypeOK, PointerRows
    <3> QED
        BY <1>2, <1>5, <3>2
  <2> QED
    BY <2>1, <2>2
<1>7. PointersOf(key)' = PointersOf(key) \union {new}
    BY <1>1, <1>5 DEF PointersOf
<1>8. LatestChannel(key)' = {new}
  <2>1. new.version \in Nat
    BY <1>2, <1>5
  <2>2. \A row \in PointersOf(key) : row.version \in Nat
    BY <1>1 DEF PointersOf, TypeOK, PointerRows
  <2> QED
    BY <1>6, <1>7, <2>1, <2>2 DEF LatestChannel
<1>9. ObservedVersion(key, new.version)'
    BY <1>7, <1>8 DEF ObservedVersion
<1>10. CurrentVersion(key)' = new.version
  <2>1. new.version \in 0 .. MaxVersion
    BY <1>2, <1>5, BoundsAssumption
  <2>2. \A m \in 0 .. MaxVersion : ObservedVersion(key, m)' => m = new.version
    BY <1>7, <1>8 DEF ObservedVersion
  <2> QED
    BY <1>9, <2>1, <2>2 DEF CurrentVersion
<1>11. ASSUME NEW other \in Keys, other # key
       PROVE  /\ CurrentVersion(other)' = CurrentVersion(other)
              /\ LatestChannel(other)' = LatestChannel(other)
  <2>1. PointersOf(other)' = PointersOf(other)
    BY <1>1, <1>5, <1>11 DEF PointersOf
  <2>2. LatestChannel(other)' = LatestChannel(other)
    BY <2>1 DEF LatestChannel
  <2> QED
    BY <2>1, <2>2 DEF CurrentVersion, ObservedVersion
<1>12. RegisterVersion[key] = call[p].expected
    BY <1>1, <1>4 DEF RegisterVersion
<1>13. RegisterVersion' = [RegisterVersion EXCEPT ![key] = call[p].expected + 1]
    BY <1>5, <1>10, <1>11 DEF RegisterVersion
<1>14. RegisterValue' = [RegisterValue EXCEPT ![key] = {call[p].target}]
    BY <1>5, <1>8, <1>11 DEF RegisterValue
<1> QED
    BY <1>0, <1>12, <1>13, <1>14

\* The initial state is one of the register.
LEMMA RegisterInit == Init => Register!Init
<1> SUFFICES ASSUME Init PROVE Register!Init
    OBVIOUS
<1>1. TypeOK
    BY TypeInit
<1>2. pointers = {} /\ faults = 0
    BY DEF Init
<1>3. \A key : PointersOf(key) = {} /\ LatestChannel(key) = {}
    BY <1>2 DEF PointersOf, LatestChannel
<1>4. \A key : CurrentVersion(key) = 0
  <2>1. 0 \in 0 .. MaxVersion
    BY BoundsAssumption
  <2>2. \A key : ObservedVersion(key, 0)
    BY <1>3 DEF ObservedVersion
  <2> QED
    BY <1>1, <2>1, <2>2, CurrentVersionIs
<1>5. RegisterVersion = [key \in Keys |-> 0] /\ RegisterValue = [key \in Keys |-> {}]
    BY <1>3, <1>4 DEF RegisterVersion, RegisterValue
<1>6. \A p \in Promoters : call[p].pc = "idle" /\ call[p].outcome = "none"
    BY DEF Init
<1>7. AbstractOp \in [Promoters -> {o \in Register!Ops : ~ o.pending /\ o.answer = "none"}]
  <2> SUFFICES ASSUME NEW p \in Promoters
               PROVE  /\ OpOf(call[p]) \in Register!Ops
                      /\ ~ OpOf(call[p]).pending /\ OpOf(call[p]).answer = "none"
    BY DEF AbstractOp
  <2>1. OpOf(call[p]) \in Register!Ops
    BY <1>1, OpTyped DEF TypeOK
  <2>2. OpOf(call[p]).pending = FALSE
    BY <1>6 DEF OpOf
  <2>3. OpOf(call[p]).answer = "none"
    BY <1>6, AnswerNames DEF OpOf
  <2> QED
    BY <2>1, <2>2, <2>3
<1> QED
    BY <1>2, <1>5, <1>7 DEF Register!Init, AbstractOp

\* Of a channel that holds the successor of the expected version, the register
\* is past that version.
LEMMA TakenIsPast ==
    ASSUME TypeOK, NEW p \in Promoters, CallInStep(p), At(p, "put_channel"), Taken(p)
    PROVE  CurrentVersion(Key(p)) # call[p].expected
<1>1. call[p].observed = call[p].expected /\ call[p].expected \in 0 .. MaxVersion - 1
    BY DEF CallInStep, At, TypeOK, Calls
<1>2. PICK row \in PointersOf(Key(p)) : row.version = call[p].expected + 1
    BY <1>1 DEF Taken, Successor
<1>3. PICK current \in 0 .. MaxVersion :
          current = CurrentVersion(Key(p)) /\ ObservedVersion(Key(p), current)
    BY CurrentVersionObserved
<1>4. row.version <= current
    BY <1>2, <1>3 DEF ObservedVersion, LatestChannel
<1> QED
    BY <1>1, <1>2, <1>3, <1>4, BoundsAssumption

\* A promoter's step is a step of its register, or one the register does not see.
LEMMA PromoterRefines ==
    ASSUME IInv, TypeOK', NEW p \in Promoters,
           Begin(p) \/ PromoteStep(p) \/ PromoteFails(p) \/ LostPutChannel(p) \/ SpuriousConflict(p)
    PROVE  Register!Next \/ UNCHANGED Register!vars
<1>0. /\ TypeOK /\ CallTyped /\ CallTyped' /\ CallInStep(p) /\ OthersKeep(p)
      /\ Key(p) \in Keys /\ call[p] \in Calls
    BY PromoterActions, KeyTyped DEF IInv, InStep, TypeOK, CallTyped
<1>1. AbstractOp[p] = OpOf(call[p]) /\ OpOf(call[p]).key = Key(p)
      /\ OpOf(call[p]).expected = call[p].expected /\ OpOf(call[p]).value = call[p].target
    BY DEF AbstractOp, OpOf, Key
<1>2. CASE Begin(p)
  <2>1. UNCHANGED <<pointers, faults>> /\ At(p, "idle")
    BY <1>2 DEF Begin
  <2>2. call'[p].pc = "resolve" /\ call'[p].outcome = "none" /\ OpOf(call'[p]) \in Register!Ops
    BY <1>0, <1>2, BeginMoves, OpTyped DEF CallTyped
  <2>3. OpOf(call'[p]).pending = TRUE /\ OpOf(call'[p]).answer = "none"
    <3>1. OpOf(call'[p]).pending = TRUE
        BY <2>2 DEF OpOf
    <3>2. OpOf(call'[p]).answer = "none"
        BY <2>2, AnswerNames DEF OpOf
    <3> QED
        BY <3>1, <3>2
  <2>4. AbstractOp' = [AbstractOp EXCEPT ![p] = OpOf(call'[p])]
    BY <1>0 DEF AbstractOp, OthersKeep
  <2>5. AbstractOp[p].pending = FALSE
    <3>1. OpOf(call[p]).pending = FALSE
        BY <2>1 DEF OpOf, At
    <3> QED
        BY <1>1, <3>1
  <2>6. UNCHANGED <<RegisterVersion, RegisterValue, faults>>
    BY <2>1, RegisterStays
  <2>7. Register!Invoke(p)
    BY <2>2, <2>3, <2>4, <2>5, <2>6 DEF Register!Invoke, AbstractOp
  <2> QED
    BY <2>7 DEF Register!Next
<1>3. CASE ResolveTarget(p)
  <2>1. /\ UNCHANGED <<pointers, faults>> /\ At(p, "resolve")
        /\ UNCHANGED <<RegisterVersion, RegisterValue>>
    BY <1>3, RegisterStays DEF ResolveTarget
  <2>2. CASE GoTo(p, "read_pointer")
    <3>1. UNCHANGED AbstractOp
        BY <1>0, <2>1, <2>2, GoToMoves, InvisibleMove DEF At
    <3> QED
        BY <2>1, <3>1 DEF Register!vars, AbstractOp
  <2>3. ASSUME NEW outcome \in Refusals, Raise(p, outcome) PROVE Register!Decline(p)
    <3>1. SameRequest(p) /\ call'[p].pc = "idle" /\ call'[p].outcome = outcome
        BY <1>0, <2>3, RaiseMoves DEF Outcomes
    <3>2. AnswerOf(outcome) = "declined"
        BY DEF AnswerOf, Refusals
    <3>3. /\ AbstractOp[p].pending
          /\ AbstractOp' = [AbstractOp EXCEPT ![p].pending = FALSE, ![p].answer = "declined"]
        BY <1>0, <2>1, <3>1, <3>2, AnswerMove DEF At
    <3> QED
        BY <2>1, <3>3 DEF Register!Decline, Register!Answer, AbstractOp
  <2> QED
    BY <1>0, <1>3, <2>2, <2>3, ResolveTargetMoves DEF Register!Next
<1>4. CASE ReadPointer(p)
  <2>1. /\ UNCHANGED <<pointers, faults>> /\ At(p, "read_pointer")
        /\ UNCHANGED <<RegisterVersion, RegisterValue>>
    BY <1>4, RegisterStays DEF ReadPointer
  <2>2. /\ SameRequest(p) /\ call'[p].observed \in 0 .. MaxVersion
        /\ ObservedVersion(Key(p), call'[p].observed)
        /\ \/ call'[p].pc = "put_channel" /\ call'[p].outcome = "none"
           \/ /\ call'[p].observed # call[p].expected
              /\ call'[p].pc = "idle" /\ call'[p].outcome = "stale"
    BY <1>0, <1>4, ReadPointerMoves
  <2>3. CASE call'[p].pc = "put_channel" /\ call'[p].outcome = "none"
    <3>1. call[p].outcome = "none"
        BY <1>0, <2>1 DEF CallInStep, At
    <3>2. UNCHANGED AbstractOp
        BY <1>0, <2>1, <2>2, <2>3, <3>1, InvisibleMove DEF At
    <3> QED
        BY <2>1, <3>2 DEF Register!vars, AbstractOp
  <2>4. CASE /\ call'[p].observed # call[p].expected
             /\ call'[p].pc = "idle" /\ call'[p].outcome = "stale"
    <3>1. /\ AbstractOp[p].pending
          /\ AbstractOp' = [AbstractOp EXCEPT ![p].pending = FALSE, ![p].answer = "refused"]
        BY <1>0, <2>1, <2>2, <2>4, AnswerMove DEF At, AnswerOf, Refusals
    <3>2. CurrentVersion(Key(p)) # call[p].expected
        BY <1>0, <2>2, <2>4, CurrentVersionIs
    <3>3. ~ Register!Matches(p)
        BY <1>0, <1>1, <3>2 DEF Register!Matches, AbstractOp, RegisterVersion
    <3>4. Register!Refuse(p)
        BY <2>1, <3>1, <3>3 DEF Register!Refuse, Register!Answer, AbstractOp
    <3> QED
        BY <3>4 DEF Register!Next
  <2> QED
    BY <2>2, <2>3, <2>4
<1>5. ASSUME Inserts(p) PROVE Register!SetRegister(p)
    BY <1>1, <1>5, InsertSwaps
       DEF Register!SetRegister, Register!Matches, AbstractOp
<1>6. CASE PutChannel(p)
  <2>1. UNCHANGED faults /\ At(p, "put_channel")
    BY <1>6 DEF PutChannel
  <2>2. CASE Taken(p)
    <3>1. Raise(p, "stale") /\ UNCHANGED pointers
        BY <1>6, <2>2 DEF PutChannel
    <3>2. SameRequest(p) /\ call'[p].pc = "idle" /\ call'[p].outcome = "stale"
        BY <1>0, <3>1, RaiseMoves DEF Outcomes
    <3>3. /\ AbstractOp[p].pending
          /\ AbstractOp' = [AbstractOp EXCEPT ![p].pending = FALSE, ![p].answer = "refused"]
        BY <1>0, <2>1, <3>2, AnswerMove DEF At, AnswerOf, Refusals
    <3>4. CurrentVersion(Key(p)) # call[p].expected
        BY <1>0, <2>1, <2>2, TakenIsPast
    <3>5. ~ Register!Matches(p)
        BY <1>0, <1>1, <3>4 DEF Register!Matches, AbstractOp, RegisterVersion
    <3>6. UNCHANGED <<RegisterVersion, RegisterValue>>
        BY <3>1, RegisterStays
    <3>7. Register!Refuse(p)
        BY <2>1, <3>3, <3>5, <3>6 DEF Register!Refuse, Register!Answer, AbstractOp
    <3> QED
        BY <3>7 DEF Register!Next
  <2>3. CASE ~ Taken(p)
    <3>1. Raise(p, "promoted") /\ Inserts(p)
        BY <1>0, <1>6, <2>1, <2>3 DEF PutChannel, Inserts
    <3>2. SameRequest(p) /\ call'[p].pc = "idle" /\ call'[p].outcome = "promoted"
        BY <1>0, <3>1, RaiseMoves DEF Outcomes
    <3>3. /\ AbstractOp[p].pending
          /\ AbstractOp' = [AbstractOp EXCEPT ![p].pending = FALSE, ![p].answer = "swapped"]
        BY <1>0, <2>1, <3>2, AnswerMove DEF At, AnswerOf, Refusals
    <3>4. Register!Swap(p)
        BY <1>5, <2>1, <3>1, <3>3 DEF Register!Swap, Register!Answer, AbstractOp
    <3> QED
        BY <3>4 DEF Register!Next
  <2> QED
    BY <2>2, <2>3
<1>7. CASE PromoteFails(p) \/ LostPutChannel(p) \/ SpuriousConflict(p)
  <2>1. ~ At(p, "idle") /\ Fault
    BY <1>7 DEF PromoteFails, LostPutChannel, SpuriousConflict, At
  <2>2. \E outcome \in {"error", "stale"} : Raise(p, outcome)
    BY <1>7 DEF PromoteFails, LostPutChannel, SpuriousConflict
  <2>3. /\ SameRequest(p) /\ call'[p].pc = "idle"
        /\ AnswerOf(call'[p].outcome) \in {"refused", "unknown"}
    BY <1>0, <2>2, RaiseMoves DEF Outcomes, AnswerOf, Refusals
  <2>4. \E answer \in {"refused", "unknown"} :
            /\ AbstractOp[p].pending
            /\ AbstractOp' = [AbstractOp EXCEPT ![p].pending = FALSE, ![p].answer = answer]
    BY <1>0, <2>1, <2>3, AnswerMove DEF At
  <2>5. Inserts(p) \/ UNCHANGED pointers
    BY <1>0, <1>7 DEF PromoteFails, LostPutChannel, SpuriousConflict, Inserts
  <2>6. Register!SetRegister(p) \/ UNCHANGED <<RegisterVersion, RegisterValue>>
    BY <1>5, <2>5, RegisterStays
  <2>7. Register!Disturb(p)
    BY <2>1, <2>4, <2>6 DEF Register!Disturb, Register!Answer, AbstractOp, Fault
  <2> QED
    BY <2>7 DEF Register!Next
<1> QED
    BY <1>2, <1>3, <1>4, <1>6, <1>7 DEF PromoteStep

\* Every step is a step of the register or a stutter.
LEMMA RegisterStep == IInv /\ [Next]_vars => [Register!Next]_(Register!vars)
<1> SUFFICES ASSUME IInv, [Next]_vars PROVE Register!Next \/ UNCHANGED Register!vars
    BY DEF Register!vars
<1>1. TypeOK'
    BY InvariantNext DEF IInv
<1>2. ASSUME NEW p \in Promoters,
             \/ Begin(p) \/ PromoteStep(p) \/ PromoteFails(p)
             \/ LostPutChannel(p) \/ SpuriousConflict(p)
      PROVE  Register!Next \/ UNCHANGED Register!vars
    BY <1>1, <1>2, PromoterRefines
<1>3. CASE UNCHANGED <<pointers, call, faults>>
  <2>1. UNCHANGED AbstractOp
    BY <1>3 DEF AbstractOp
  <2> QED
    BY <1>3, <2>1, RegisterStays DEF Register!vars, AbstractOp
<1>4. ASSUME NEW r \in Readers, ReadFails(r) PROVE Register!DisturbReader
  <2>1. UNCHANGED <<pointers, call>> /\ Fault
    BY <1>4 DEF ReadFails
  <2>2. UNCHANGED AbstractOp
    BY <2>1 DEF AbstractOp
  <2> QED
    BY <2>1, <2>2, RegisterStays DEF Register!DisturbReader, AbstractOp, Fault
<1> QED
    BY <1>2, <1>3, <1>4 DEF Next, vars, Publish, Deprecate, BeginRead, ReadStep, GetPointer,
       GetResource, Register!Next

\* promote is a linearizable compare-and-set: every behaviour of Channels is one
\* of CasRegister, for any number of promoters, readers, resources and names.
THEOREM ChannelsImplementRegisters == Spec => ChannelIsRegister
<1> QED
    BY RegisterInit, RegisterStep, Invariant, PTL DEF Spec, ChannelIsRegister, Register!Spec

\* Whoever races, channels are numbered and resolve, and agree with what running
\* promotions and resolutions have seen of them.
THEOREM StateConsistent == Spec => []Consistent
<1>1. TypeOK /\ InStep /\ NumberedWithoutGaps /\ PointersResolve => Consistent
    BY DEF Consistent
<1> QED
    BY <1>1, TypeCorrect, CallsStayInStep, VersionsNumbered, PointersHaveTargets, PTL
================================================================================
