--------------------------- MODULE Deprecation_proofs ---------------------------
(***************************************************************************)
(* Theorems about Deprecation, for every set of callers and resources, and *)
(* for every bound on attempts and faults.                                 *)
(***************************************************************************)
EXTENDS Deprecation, TLAPS

--------------------------------------------------------------------------------
(* What the moves of a call leave of it, and that they keep its type. *)

CallTyped == call \in [Callers -> Calls]

OthersKeep(p) == \A q \in Callers : q # p => call'[q] = call[q]

SameRequest(p) == /\ call'[p].id = call[p].id  /\ call'[p].wanted = call[p].wanted
                  /\ call'[p].attempt = call[p].attempt

Outcomes == {"none", "deprecated"} \union Refused \union Failed

\* One call is replaced by another.
LEMMA SetCall ==
    ASSUME CallTyped, NEW p \in Callers, NEW c \in Calls, call' = [call EXCEPT ![p] = c]
    PROVE  CallTyped' /\ OthersKeep(p) /\ call'[p] = c
BY DEF CallTyped, OthersKeep

\* GoTo changes the program counter of one call.
LEMMA GoToMoves ==
    ASSUME CallTyped, NEW p \in Callers, NEW step \in {"commit", "winner"}, GoTo(p, step)
    PROVE  /\ CallTyped' /\ OthersKeep(p) /\ SameRequest(p)
           /\ call'[p].pc = step
           /\ call'[p].outcome = call[p].outcome
           /\ call'[p].held = call[p].held
           /\ call'[p].answer = call[p].answer
<1> DEFINE c == [call[p] EXCEPT !.pc = step]
<1>1. c \in Calls /\ call' = [call EXCEPT ![p] = c]
    BY DEF GoTo, CallTyped, Calls
<1>2. CallTyped' /\ OthersKeep(p) /\ call'[p] = c
    BY <1>1, SetCall
<1>3. /\ c.pc = step /\ c.id = call[p].id /\ c.wanted = call[p].wanted
      /\ c.attempt = call[p].attempt /\ c.outcome = call[p].outcome
      /\ c.held = call[p].held /\ c.answer = call[p].answer
    BY DEF CallTyped, Calls
<1> QED
    BY <1>2, <1>3 DEF SameRequest

\* Raise ends one call with an outcome and no answer.
LEMMA RaiseMoves ==
    ASSUME CallTyped, NEW p \in Callers, NEW outcome \in Outcomes, Raise(p, outcome)
    PROVE  /\ CallTyped' /\ OthersKeep(p) /\ SameRequest(p)
           /\ call'[p].pc = "idle"
           /\ call'[p].outcome = outcome
<1> DEFINE c == [call[p] EXCEPT !.pc = "idle", !.outcome = outcome, !.answer = {}]
<1>1. c \in Calls /\ call' = [call EXCEPT ![p] = c]
    BY DEF Raise, CallTyped, Calls, Outcomes
<1>2. CallTyped' /\ OthersKeep(p) /\ call'[p] = c
    BY <1>1, SetCall
<1>3. /\ c.pc = "idle" /\ c.id = call[p].id /\ c.wanted = call[p].wanted
      /\ c.attempt = call[p].attempt /\ c.outcome = outcome
    BY DEF CallTyped, Calls
<1> QED
    BY <1>2, <1>3 DEF SameRequest

\* Return ends one call with a row.
LEMMA ReturnMoves ==
    ASSUME CallTyped, NEW p \in Callers, NEW row \in ResourceRows, Return(p, row)
    PROVE  /\ CallTyped' /\ OthersKeep(p) /\ SameRequest(p)
           /\ call'[p].pc = "idle"
           /\ call'[p].outcome = "deprecated"
           /\ call'[p].answer = {row}
<1> DEFINE c == [call[p] EXCEPT !.pc = "idle", !.outcome = "deprecated", !.answer = {row}]
<1>1. c \in Calls /\ call' = [call EXCEPT ![p] = c]
    BY DEF Return, CallTyped, Calls
<1>2. CallTyped' /\ OthersKeep(p) /\ call'[p] = c
    BY <1>1, SetCall
<1>3. /\ c.pc = "idle" /\ c.id = call[p].id /\ c.wanted = call[p].wanted
      /\ c.attempt = call[p].attempt /\ c.outcome = "deprecated" /\ c.answer = {row}
    BY DEF CallTyped, Calls
<1> QED
    BY <1>2, <1>3 DEF SameRequest

\* Consider holds the row for the patch.
LEMMA HoldMoves ==
    ASSUME CallTyped, NEW p \in Callers, NEW row \in ResourceRows,
           call' = [call EXCEPT ![p].pc = "patch", ![p].held = {row}]
    PROVE  /\ CallTyped' /\ OthersKeep(p) /\ SameRequest(p)
           /\ call'[p].pc = "patch"
           /\ call'[p].outcome = call[p].outcome
           /\ call'[p].held = {row}
<1> DEFINE c == [call[p] EXCEPT !.pc = "patch", !.held = {row}]
<1>1. c \in Calls /\ call' = [call EXCEPT ![p] = c]
    BY DEF CallTyped, Calls
<1>2. CallTyped' /\ OthersKeep(p) /\ call'[p] = c
    BY <1>1, SetCall
<1>3. /\ c.pc = "patch" /\ c.id = call[p].id /\ c.wanted = call[p].wanted
      /\ c.attempt = call[p].attempt /\ c.outcome = call[p].outcome /\ c.held = {row}
    BY DEF CallTyped, Calls
<1> QED
    BY <1>2, <1>3 DEF SameRequest

\* Patch takes a row for its answer.
LEMMA StageMoves ==
    ASSUME CallTyped, NEW p \in Callers, NEW row \in ResourceRows,
           call' = [call EXCEPT ![p].pc = "commit", ![p].answer = {row}]
    PROVE  /\ CallTyped' /\ OthersKeep(p) /\ SameRequest(p)
           /\ call'[p].pc = "commit"
           /\ call'[p].outcome = call[p].outcome
           /\ call'[p].held = call[p].held
           /\ call'[p].answer = {row}
<1> DEFINE c == [call[p] EXCEPT !.pc = "commit", !.answer = {row}]
<1>1. c \in Calls /\ call' = [call EXCEPT ![p] = c]
    BY DEF CallTyped, Calls
<1>2. CallTyped' /\ OthersKeep(p) /\ call'[p] = c
    BY <1>1, SetCall
<1>3. /\ c.pc = "commit" /\ c.id = call[p].id /\ c.wanted = call[p].wanted
      /\ c.attempt = call[p].attempt /\ c.outcome = call[p].outcome
      /\ c.held = call[p].held /\ c.answer = {row}
    BY DEF CallTyped, Calls
<1> QED
    BY <1>2, <1>3 DEF SameRequest

\* A commit ends one call with the answer it has.
LEMMA FinishMoves ==
    ASSUME CallTyped, NEW p \in Callers,
           call' = [call EXCEPT ![p].pc = "idle", ![p].outcome = "deprecated"]
    PROVE  /\ CallTyped' /\ OthersKeep(p) /\ SameRequest(p)
           /\ call'[p].pc = "idle"
           /\ call'[p].outcome = "deprecated"
           /\ call'[p].answer = call[p].answer
<1> DEFINE c == [call[p] EXCEPT !.pc = "idle", !.outcome = "deprecated"]
<1>1. c \in Calls /\ call' = [call EXCEPT ![p] = c]
    BY DEF CallTyped, Calls
<1>2. CallTyped' /\ OthersKeep(p) /\ call'[p] = c
    BY <1>1, SetCall
<1>3. /\ c.pc = "idle" /\ c.id = call[p].id /\ c.wanted = call[p].wanted
      /\ c.attempt = call[p].attempt /\ c.outcome = "deprecated"
      /\ c.answer = call[p].answer
    BY DEF CallTyped, Calls
<1> QED
    BY <1>2, <1>3 DEF SameRequest

\* Enter starts one attempt of one call.
LEMMA EnterMoves ==
    ASSUME CallTyped, NEW p \in Callers, NEW id \in Resources, NEW wanted \in Profiles,
           NEW attempt \in Attempts, Enter(p, id, wanted, attempt)
    PROVE  /\ CallTyped' /\ OthersKeep(p)
           /\ call'[p] = [pc |-> "get", id |-> id, wanted |-> wanted, attempt |-> attempt,
                          held |-> {}, answer |-> {}, outcome |-> "none"]
<1> DEFINE c == [pc |-> "get", id |-> id, wanted |-> wanted, attempt |-> attempt,
                 held |-> {}, answer |-> {}, outcome |-> "none"]
<1>1. c \in Calls /\ call' = [call EXCEPT ![p] = c]
    BY BoundsAssumption DEF Enter, Calls, Attempts
<1> HIDE DEF c
<1>2. CallTyped' /\ OthersKeep(p) /\ call'[p] = c
    BY <1>1, SetCall
<1> QED
    BY <1>2 DEF c

--------------------------------------------------------------------------------
(* The inductive invariant, and what one step of a call does under it. *)

IInv == /\ TypeOK /\ InStep /\ MovedOnce
        /\ AnswerIsStored /\ RefusalMovesNothing /\ FailuresNeedFaults

TablesKeep == resources' = resources /\ transitions' = transitions

\* The transition that p's commit makes of the row it holds.
MovesHeld(p, row) ==
    /\ call[p].pc = "commit" /\ call[p].held = {row}
    /\ row \in resources /\ row.id = call[p].id
    /\ row.state = "PUBLISHED" /\ row.version = 0
    /\ Transition(p, row)

\* The seven ways in which a call moves on.
Holds(p) ==
    /\ TablesKeep /\ call[p].pc = "get" /\ call'[p].pc = "patch"
    /\ call'[p].outcome = "none"
    /\ \E row \in resources :
           /\ call'[p].held = {row} /\ row.id = call[p].id
           /\ row.profile = call[p].wanted /\ row.state = "PUBLISHED"

Stages(p) ==
    /\ TablesKeep /\ call[p].pc = "patch" /\ call'[p].pc = "commit"
    /\ call'[p].outcome = "none" /\ call'[p].held = call[p].held
    /\ \E held \in call[p].held, row \in ResourceRows :
           /\ call'[p].answer = {row}
           /\ row = [Patched(held) EXCEPT !.version = row.version]
           /\ row # Patched(held) => faults' >= 1

LosesRow(p) ==
    /\ TablesKeep /\ call[p].pc \in {"patch", "commit"} /\ call'[p].pc = "winner"
    /\ call'[p].outcome = "none" /\ call'[p].held = call[p].held
    /\ \A held \in call[p].held : held \notin resources \/ faults' >= 1

Doubts(p) ==
    /\ \E row : MovesHeld(p, row)
    /\ faults' = faults + 1 /\ faults' >= 1
    /\ \/ /\ call'[p].pc = "winner" /\ call'[p].outcome = "none"
          /\ call'[p].held = call[p].held
       \/ call'[p].pc = "idle" /\ call'[p].outcome = "error"

Finds(p) ==
    /\ TablesKeep /\ call[p].pc \in {"get", "winner"} /\ faults' = faults
    /\ call'[p].pc = "idle" /\ call'[p].outcome = "deprecated"
    /\ \E row \in resources :
           /\ call'[p].answer = {row} /\ row.id = call[p].id
           /\ row.profile = call[p].wanted /\ row.state = "DEPRECATED"

Finishes(p) ==
    /\ \E row : MovesHeld(p, row)
    /\ faults' = faults
    /\ call'[p].pc = "idle" /\ call'[p].outcome = "deprecated"
    /\ call'[p].answer = call[p].answer

GivesUp(p) ==
    /\ TablesKeep /\ call[p].pc # "idle" /\ call'[p].pc = "idle"
    /\ \/ /\ call'[p].outcome \in Refused /\ call[p].pc = "get" /\ faults' = faults
       \/ /\ call'[p].outcome = "invalid" /\ call[p].pc \in {"get", "patch"} /\ faults' >= 1
       \/ call'[p].outcome \in {"conflict", "error", "crashed"} /\ faults' >= 1

Moves(p) ==
    /\ CallTyped' /\ OthersKeep(p) /\ SameRequest(p) /\ faults' \in {faults, faults + 1}
    /\ faults' \in 0 .. MaxFaults
    /\ \/ Holds(p)  \/ Stages(p)   \/ LosesRow(p) \/ Doubts(p)
       \/ Finds(p)  \/ Finishes(p) \/ GivesUp(p)

\* A fault costs one of MaxFaults.
LEMMA FaultCounts ==
    ASSUME TypeOK, Fault
    PROVE  faults' = faults + 1 /\ faults' >= 1 /\ faults' \in 0 .. MaxFaults
BY BoundsAssumption DEF TypeOK, Fault

\* The row a call holds, between its patch and its end.
LEMMA HeldRow ==
    ASSUME IInv, NEW p \in Callers, call[p].pc \in {"patch", "commit", "winner"}
    PROVE  \E held \in ResourceRows :
               /\ call[p].held = {held} /\ held.id = call[p].id
               /\ held.profile = call[p].wanted /\ held.state = "PUBLISHED"
               /\ held \in resources \/ Patched(held) \in resources
               /\ call[p].pc = "winner" => Patched(held) \in resources \/ faults >= 1
<1>1. CallInStep(p) /\ call[p] \in Calls
    BY DEF IInv, InStep, TypeOK
<1> QED
    BY <1>1 DEF CallInStep, Calls

\* What a patch makes of a row, field by field.
LEMMA PatchedRow ==
    ASSUME NEW row \in ResourceRows
    PROVE  /\ Patched(row).id = row.id /\ Patched(row).profile = row.profile
           /\ Patched(row).digest = row.digest /\ Patched(row).state = "DEPRECATED"
           /\ Patched(row).version = row.version + 1
           /\ row.version < 2 => Patched(row) \in ResourceRows
<1>1. /\ Patched(row).id = row.id /\ Patched(row).profile = row.profile
      /\ Patched(row).digest = row.digest /\ Patched(row).state = "DEPRECATED"
      /\ Patched(row).version = row.version + 1
    BY DEF Patched, ResourceRows
<1>2. ASSUME row.version < 2
      PROVE  Patched(row) \in ResourceRows
  <2>1. row.version + 1 \in RecordVersions /\ "DEPRECATED" \in States
    BY <1>2 DEF ResourceRows, RecordVersions, States
  <2> QED
    BY <2>1 DEF Patched, ResourceRows
<1> QED
    BY <1>1, <1>2

\* The recordVersion is unmoved only while the row is the one that was read.
LEMMA UnmovedRow ==
    ASSUME IInv, NEW p \in Callers, call[p].pc \in {"patch", "commit"}, NEW row \in Unmoved(p)
    PROVE  /\ call[p].held = {row} /\ row \in resources /\ row \in ResourceRows
           /\ row.id = call[p].id /\ row.state = "PUBLISHED" /\ row.version = 0
<1>1. PICK held \in ResourceRows :
          /\ call[p].held = {held} /\ held.id = call[p].id /\ held.state = "PUBLISHED"
          /\ held \in resources \/ Patched(held) \in resources
    BY HeldRow
<1>2. row \in resources /\ row.id = held.id /\ row.version = held.version
    BY <1>1 DEF Unmoved
<1>3. /\ resources \subseteq ResourceRows
      /\ \A left, right \in resources : left.id = right.id => left = right
    BY DEF IInv, TypeOK, InStep
<1>4. Patched(held).id = held.id /\ Patched(held).version = held.version + 1
    BY PatchedRow
<1>5. held.version \in Nat
    BY DEF ResourceRows, RecordVersions
<1>6. Patched(held) \notin resources
    BY <1>2, <1>3, <1>4, <1>5
<1>7. row = held
    BY <1>1, <1>2, <1>3, <1>6
<1>8. row.version = 0
    BY <1>1, <1>2, <1>7 DEF IInv, MovedOnce
<1> QED
    BY <1>1, <1>2, <1>3, <1>7, <1>8

\* When no row has the recordVersion that was read, the row has been moved.
LEMMA MovedRow ==
    ASSUME IInv, NEW p \in Callers, call[p].pc \in {"patch", "commit"}, Unmoved(p) = {}
    PROVE  \A held \in call[p].held : held \notin resources
BY DEF Unmoved

\* An accepted answer is the patched row but for its recordVersion.
LEMMA AcceptedRow ==
    ASSUME NEW held \in ResourceRows, NEW row \in ResourceRows, Accepted(held, row)
    PROVE  row = [Patched(held) EXCEPT !.version = row.version]
BY DEF Accepted, Patched, ResourceRows

\* A caller's own step is one of the seven ways.
LEMMA StepMoves ==
    ASSUME IInv, NEW p \in Callers, DeprecateStep(p) \/ DeprecateFault(p)
    PROVE  Moves(p)
<1> DEFINE id == call[p].id
<1>1. /\ TypeOK /\ CallTyped /\ call[p] \in Calls /\ CallInStep(p)
      /\ resources \subseteq ResourceRows /\ faults \in 0 .. MaxFaults
    BY DEF IInv, TypeOK, InStep, CallTyped
<1>2. call[p].pc # "idle" => call[p].outcome = "none"
    BY <1>1 DEF CallInStep
<1>3. \A row \in resources : row \in ResourceRows
    BY <1>1
<1>4. CASE GetResource(p)
  <2>1. TablesKeep /\ faults' = faults /\ call[p].pc = "get"
    BY <1>4 DEF GetResource, TablesKeep, At
  <2>2. CASE Raise(p, "not_found")
    <3>1. /\ CallTyped' /\ OthersKeep(p) /\ SameRequest(p)
          /\ call'[p].pc = "idle" /\ call'[p].outcome = "not_found"
        BY <1>1, <2>2, RaiseMoves DEF Outcomes, Refused
    <3> QED
        BY <1>1, <2>1, <3>1 DEF Moves, GivesUp, Refused
  <2>3. ASSUME NEW row \in ById(id), Consider(p, row)
        PROVE  Moves(p)
    <3>1. row \in resources /\ row.id = id /\ row \in ResourceRows
        BY <1>3 DEF ById
    <3>2. CASE Raise(p, "incompatible")
      <4>1. /\ CallTyped' /\ OthersKeep(p) /\ SameRequest(p)
            /\ call'[p].pc = "idle" /\ call'[p].outcome = "incompatible"
        BY <1>1, <3>2, RaiseMoves DEF Outcomes, Refused
      <4> QED
        BY <1>1, <2>1, <4>1 DEF Moves, GivesUp, Refused
    <3>3. CASE /\ row.profile = call[p].wanted
               /\ row.state = "DEPRECATED" /\ Return(p, row)
      <4>1. /\ CallTyped' /\ OthersKeep(p) /\ SameRequest(p)
            /\ call'[p].pc = "idle" /\ call'[p].outcome = "deprecated"
            /\ call'[p].answer = {row}
        BY <1>1, <3>1, <3>3, ReturnMoves
      <4> QED
        BY <1>1, <2>1, <3>1, <3>3, <4>1 DEF Moves, Finds
    <3>4. CASE /\ row.profile = call[p].wanted /\ row.state = "PUBLISHED"
               /\ call' = [call EXCEPT ![p].pc = "patch", ![p].held = {row}]
      <4>1. /\ CallTyped' /\ OthersKeep(p) /\ SameRequest(p)
            /\ call'[p].pc = "patch" /\ call'[p].outcome = "none"
            /\ call'[p].held = {row}
        BY <1>1, <1>2, <2>1, <3>1, <3>4, HoldMoves
      <4> QED
        BY <1>1, <2>1, <3>1, <3>4, <4>1 DEF Moves, Holds
    <3> QED
        BY <2>3, <3>2, <3>3, <3>4 DEF Consider
  <2> QED
    BY <1>4, <2>2, <2>3 DEF GetResource
<1>5. ASSUME call[p].pc \in {"patch", "commit"}, GoTo(p, "winner"), TablesKeep,
             faults' \in {faults, faults + 1}, faults' \in 0 .. MaxFaults,
             Unmoved(p) = {} \/ faults' >= 1
      PROVE  Moves(p)
  <2>1. /\ CallTyped' /\ OthersKeep(p) /\ SameRequest(p) /\ call'[p].pc = "winner"
        /\ call'[p].outcome = "none" /\ call'[p].held = call[p].held
    BY <1>1, <1>2, <1>5, GoToMoves
  <2>2. \A held \in call[p].held : held \notin resources \/ faults' >= 1
    BY <1>5, MovedRow
  <2> QED
    BY <1>5, <2>1, <2>2 DEF Moves, LosesRow
<1>6. ASSUME NEW held \in call[p].held, NEW row \in ResourceRows,
             row = [Patched(held) EXCEPT !.version = row.version],
             row # Patched(held) => faults' >= 1,
             call[p].pc = "patch", TablesKeep,
             faults' \in {faults, faults + 1}, faults' \in 0 .. MaxFaults,
             call' = [call EXCEPT ![p].pc = "commit", ![p].answer = {row}]
      PROVE  Moves(p)
  <2>1. /\ CallTyped' /\ OthersKeep(p) /\ SameRequest(p) /\ call'[p].pc = "commit"
        /\ call'[p].outcome = "none" /\ call'[p].held = call[p].held
        /\ call'[p].answer = {row}
    BY <1>1, <1>2, <1>6, StageMoves
  <2> QED
    BY <1>6, <2>1 DEF Moves, Stages
<1>7. CASE Patch(p)
  <2>1. TablesKeep /\ faults' = faults /\ call[p].pc = "patch"
    BY <1>7 DEF Patch, TablesKeep, At
  <2>2. CASE Unmoved(p) = {} /\ GoTo(p, "winner")
    BY <1>1, <1>5, <2>1, <2>2
  <2>3. ASSUME NEW row \in Unmoved(p),
               call' = [call EXCEPT ![p].pc = "commit", ![p].answer = {Patched(row)}]
        PROVE  Moves(p)
    <3>1. call[p].held = {row} /\ row \in ResourceRows /\ row.version = 0
        BY <2>1, UnmovedRow
    <3>2. Patched(row) \in ResourceRows
        BY <3>1, PatchedRow
    <3>3. Patched(row) = [Patched(row) EXCEPT !.version = Patched(row).version]
        BY <3>2 DEF ResourceRows
    <3> QED
        BY <1>1, <1>6, <2>1, <2>3, <3>1, <3>2, <3>3
  <2> QED
    BY <1>7, <2>2, <2>3 DEF Patch
<1>8. CASE Commit(p)
  <2>1. faults' = faults /\ call[p].pc = "commit"
    BY <1>8 DEF Commit, At
  <2>2. CASE Unmoved(p) = {} /\ GoTo(p, "winner") /\ UNCHANGED <<resources, transitions>>
    BY <1>1, <1>5, <2>1, <2>2 DEF TablesKeep
  <2>3. ASSUME NEW row \in Unmoved(p), Transition(p, row),
               call' = [call EXCEPT ![p].pc = "idle", ![p].outcome = "deprecated"]
        PROVE  Moves(p)
    <3>1. MovesHeld(p, row)
        BY <2>1, <2>3, UnmovedRow DEF MovesHeld
    <3>2. /\ CallTyped' /\ OthersKeep(p) /\ SameRequest(p)
          /\ call'[p].pc = "idle" /\ call'[p].outcome = "deprecated"
          /\ call'[p].answer = call[p].answer
        BY <1>1, <2>3, FinishMoves
    <3> QED
        BY <1>1, <2>1, <3>1, <3>2 DEF Moves, Finishes
  <2> QED
    BY <1>8, <2>2, <2>3 DEF Commit
<1>9. ASSUME NEW outcome \in Failed, Raise(p, outcome), call[p].pc # "idle", TablesKeep,
             outcome = "invalid" => call[p].pc \in {"get", "patch"},
             faults' \in {faults, faults + 1}, faults' >= 1, faults' \in 0 .. MaxFaults
      PROVE  Moves(p)
  <2>1. /\ CallTyped' /\ OthersKeep(p) /\ SameRequest(p)
        /\ call'[p].pc = "idle" /\ call'[p].outcome = outcome
    BY <1>1, <1>9, RaiseMoves DEF Outcomes
  <2> QED
    BY <1>9, <2>1 DEF Moves, GivesUp, Failed
<1>10. CASE Winner(p)
  <2>1. TablesKeep /\ faults' = faults /\ call[p].pc = "winner"
    BY <1>10 DEF Winner, TablesKeep, At
  <2>2. PICK held \in ResourceRows :
            /\ held.id = id /\ held.profile = call[p].wanted /\ held.state = "PUBLISHED"
            /\ held \in resources \/ Patched(held) \in resources
            /\ Patched(held) \in resources \/ faults >= 1
    BY <2>1, HeldRow
  <2>3. /\ Patched(held).id = held.id /\ Patched(held).profile = held.profile
        /\ Patched(held).state = "DEPRECATED"
    BY PatchedRow
  <2>4. \A left, right \in resources : left.id = right.id => left = right
    BY DEF IInv, InStep
  <2>5. ById(id) # {}
    BY <2>2, <2>3 DEF ById
  <2>6. ASSUME NEW row \in ById(id)
        PROVE  /\ row \in resources /\ row.id = id /\ row.profile = call[p].wanted
               /\ row.state = "PUBLISHED" => faults >= 1
    BY <2>2, <2>3, <2>4 DEF ById
  <2>7. ASSUME NEW row \in ById(id), row.state = "DEPRECATED", Return(p, row)
        PROVE  Moves(p)
    <3>1. /\ CallTyped' /\ OthersKeep(p) /\ SameRequest(p)
          /\ call'[p].pc = "idle" /\ call'[p].outcome = "deprecated"
          /\ call'[p].answer = {row}
        BY <1>1, <1>3, <2>6, <2>7, ReturnMoves
    <3> QED
        BY <1>1, <2>1, <2>6, <2>7, <3>1 DEF Moves, Finds
  <2>8. ASSUME NEW row \in ById(id), row.state = "PUBLISHED", Raise(p, "conflict")
        PROVE  Moves(p)
    BY <1>1, <1>9, <2>1, <2>6, <2>8 DEF Failed
  <2> QED
    BY <1>10, <2>5, <2>7, <2>8 DEF Winner
<1>11. CASE RemoteFailure(p) \/ Crash(p)
  <2>1. /\ faults' = faults + 1 /\ faults' >= 1 /\ faults' \in 0 .. MaxFaults
        /\ TablesKeep /\ call[p].pc # "idle"
    BY <1>1, <1>11, FaultCounts DEF RemoteFailure, Crash, TablesKeep, At
  <2>2. \E outcome \in {"error", "crashed"} : Raise(p, outcome)
    BY <1>11 DEF RemoteFailure, Crash
  <2> QED
    BY <1>9, <2>1, <2>2 DEF Failed
<1>12. CASE NoRecordVersion(p)
  <2>1. /\ faults' = faults + 1 /\ faults' >= 1 /\ faults' \in 0 .. MaxFaults
        /\ TablesKeep /\ call[p].pc = "get" /\ Raise(p, "invalid")
    BY <1>1, <1>12, FaultCounts DEF NoRecordVersion, TablesKeep, At
  <2> QED
    BY <1>9, <2>1 DEF Failed
<1>13. CASE PatchMisanswered(p)
  <2>1. /\ faults' = faults + 1 /\ faults' >= 1 /\ faults' \in 0 .. MaxFaults
        /\ TablesKeep /\ call[p].pc = "patch"
    BY <1>1, <1>13, FaultCounts DEF PatchMisanswered, TablesKeep, At
  <2>2. CASE Raise(p, "invalid")
    BY <1>9, <2>1, <2>2 DEF Failed
  <2>3. ASSUME NEW held \in call[p].held, NEW row \in ResourceRows, Accepted(held, row),
               call' = [call EXCEPT ![p].pc = "commit", ![p].answer = {row}]
        PROVE  Moves(p)
    <3>1. held \in ResourceRows
        BY <1>1 DEF Calls
    <3>2. row = [Patched(held) EXCEPT !.version = row.version]
        BY <2>3, <3>1, AcceptedRow
    <3> QED
        BY <1>6, <2>1, <2>3, <3>2
  <2> QED
    BY <1>13, <2>2, <2>3 DEF PatchMisanswered
<1>14. CASE SpuriousConflict(p)
  <2>1. /\ faults' = faults + 1 /\ faults' >= 1 /\ faults' \in 0 .. MaxFaults
        /\ TablesKeep /\ call[p].pc \in {"patch", "commit"} /\ GoTo(p, "winner")
    BY <1>1, <1>14, FaultCounts DEF SpuriousConflict, TablesKeep
  <2> QED
    BY <1>5, <2>1
<1>15. CASE LostCommit(p)
  <2>1. /\ faults' = faults + 1 /\ faults' >= 1 /\ faults' \in 0 .. MaxFaults
        /\ call[p].pc = "commit"
    BY <1>1, <1>15, FaultCounts DEF LostCommit, At
  <2>2. PICK row \in Unmoved(p) : Transition(p, row)
    BY <1>15 DEF LostCommit
  <2>3. MovesHeld(p, row)
    BY <2>1, <2>2, UnmovedRow DEF MovesHeld
  <2>4. CASE Raise(p, "error")
    <3>1. /\ CallTyped' /\ OthersKeep(p) /\ SameRequest(p)
          /\ call'[p].pc = "idle" /\ call'[p].outcome = "error"
        BY <1>1, <2>4, RaiseMoves DEF Outcomes, Failed
    <3> QED
        BY <2>1, <2>3, <3>1 DEF Moves, Doubts
  <2>5. CASE GoTo(p, "winner")
    <3>1. /\ CallTyped' /\ OthersKeep(p) /\ SameRequest(p) /\ call'[p].pc = "winner"
          /\ call'[p].outcome = "none" /\ call'[p].held = call[p].held
        BY <1>1, <1>2, <2>1, <2>5, GoToMoves
    <3> QED
        BY <2>1, <2>3, <3>1 DEF Moves, Doubts
  <2> QED
    BY <1>15, <2>4, <2>5 DEF LostCommit
<1> QED
    BY <1>4, <1>7, <1>8, <1>10, <1>11, <1>12, <1>13, <1>14, <1>15
       DEF DeprecateStep, DeprecateFault

--------------------------------------------------------------------------------
(* The tables. *)

\* A row stays, or is moved on.
RowsKept == \A row \in resources :
                \/ row \in resources'
                \/ row.state = "PUBLISHED" /\ Patched(row) \in resources'

TableInv == /\ resources \subseteq ResourceRows
            /\ transitions \subseteq Resources \X Callers \X Attempts
            /\ \A left, right \in resources : left.id = right.id => left = right
            /\ \A move \in transitions : ById(move[1]) # {}
            /\ MovedOnce

MovesOf(id) == {move \in transitions : move[1] = id}

\* MovedOnce, for one row.
RowOK(row) == \/ row.state = "PUBLISHED"  /\ row.version = 0 /\ MovesOf(row.id) = {}
              \/ row.state = "DEPRECATED" /\ row.version = 1
                 /\ \E move \in MovesOf(row.id) : MovesOf(row.id) = {move}

\* The invariant speaks of the tables.
LEMMA TablesNow == ASSUME IInv PROVE TableInv
BY DEF IInv, TypeOK, InStep, TableInv

\* MovedOnce says of each row what RowOK says.
LEMMA MovedOnceRows ==
    /\ MovedOnce <=> \A row \in resources : RowOK(row)
    /\ MovedOnce' <=> \A row \in resources' : RowOK(row)'
BY DEF MovedOnce, RowOK, MovesOf

\* Publish adds a row that nobody has moved.
LEMMA PublishTables ==
    ASSUME IInv, NEW id \in Resources, Publish(id)
    PROVE  TableInv' /\ RowsKept /\ transitions' = transitions
<1>1. PICK profile \in Profiles, digest \in Digests :
          resources' = resources \union
              {[id |-> id, profile |-> profile, digest |-> digest,
                state |-> "PUBLISHED", version |-> 0]}
    BY DEF Publish
<1> DEFINE new == [id |-> id, profile |-> profile, digest |-> digest,
                   state |-> "PUBLISHED", version |-> 0]
<1>2. new \in ResourceRows /\ new.id = id /\ new.state = "PUBLISHED" /\ new.version = 0
    BY DEF ResourceRows, States, RecordVersions
<1>3. resources' = resources \union {new}
    BY <1>1
<1> HIDE DEF new
<1>4. TableInv /\ transitions' = transitions /\ \A row \in resources : row.id # id
    BY TablesNow DEF Publish, ById
<1>5. \A move \in transitions : move[1] # id
    BY <1>4 DEF TableInv, ById
<1>6. \A row \in resources' : RowOK(row)'
  <2>1. ASSUME NEW row \in resources PROVE RowOK(row)'
    BY <1>4, MovedOnceRows DEF TableInv, RowOK, MovesOf
  <2>2. RowOK(new)'
    BY <1>2, <1>4, <1>5 DEF RowOK, MovesOf
  <2> QED
    BY <1>3, <2>1, <2>2
<1>7. /\ resources' \subseteq ResourceRows
      /\ \A left, right \in resources' : left.id = right.id => left = right
    BY <1>2, <1>3, <1>4 DEF TableInv
<1>8. \A move \in transitions' : \E row \in resources' : row.id = move[1]
    BY <1>3, <1>4 DEF TableInv, ById
<1> QED
    BY <1>3, <1>4, <1>6, <1>7, <1>8, MovedOnceRows DEF TableInv, RowsKept, ById

\* A transition moves one published row, for the first time.
LEMMA TransitionTables ==
    ASSUME IInv, NEW p \in Callers, NEW row, MovesHeld(p, row)
    PROVE  /\ TableInv' /\ RowsKept
           /\ Patched(row) \in resources' /\ Patched(row) \in ResourceRows
           /\ transitions' = transitions \union {<<row.id, p, call[p].attempt>>}
<1> DEFINE new == Patched(row)
           move == <<row.id, p, call[p].attempt>>
<1>1. /\ TableInv /\ row \in resources /\ row \in ResourceRows
      /\ row.state = "PUBLISHED" /\ row.version = 0 /\ row.id = call[p].id
    BY TablesNow DEF MovesHeld, TableInv
<1>2. /\ resources' = (resources \ {row}) \union {new}
      /\ transitions' = transitions \union {move}
    BY DEF MovesHeld, Transition
<1>3. /\ new \in ResourceRows /\ new.id = row.id
      /\ new.state = "DEPRECATED" /\ new.version = 1
    BY <1>1, PatchedRow
<1>4. move \in Resources \X Callers \X Attempts /\ move[1] = row.id
  <2>1. call[p] \in Calls /\ call[p].attempt # 0
    BY DEF IInv, TypeOK, MovesHeld
  <2>2. call[p].attempt \in Attempts
    BY <2>1, BoundsAssumption DEF Calls, Attempts
  <2> QED
    BY <1>1, <2>2 DEF ResourceRows
<1>5. MovesOf(row.id) = {}
    BY <1>1, MovedOnceRows DEF TableInv, RowOK
<1> HIDE DEF new, move
<1>6. \A other \in resources' : RowOK(other)'
  <2>1. ASSUME NEW other \in resources, other # row PROVE RowOK(other)'
    <3>1. other.id # row.id /\ RowOK(other)
        BY <1>1, <2>1, MovedOnceRows DEF TableInv
    <3>2. MovesOf(other.id)' = MovesOf(other.id)
        BY <1>2, <1>4, <3>1 DEF MovesOf
    <3> QED
        BY <3>1, <3>2 DEF RowOK
  <2>2. RowOK(new)'
    <3>1. MovesOf(row.id)' = {move}
        BY <1>2, <1>4, <1>5 DEF MovesOf
    <3> QED
        BY <1>3, <3>1 DEF RowOK
  <2> QED
    BY <1>2, <2>1, <2>2
<1>7. /\ resources' \subseteq ResourceRows
      /\ \A left, right \in resources' : left.id = right.id => left = right
    BY <1>1, <1>2, <1>3 DEF TableInv
<1>8. \A old \in transitions' : \E other \in resources' : other.id = old[1]
    BY <1>1, <1>2, <1>3, <1>4 DEF TableInv, ById
<1>9. transitions' \subseteq Resources \X Callers \X Attempts
    BY <1>1, <1>2, <1>4 DEF TableInv
<1>10. RowsKept
    BY <1>1, <1>2 DEF RowsKept, new
<1> QED
    BY <1>2, <1>3, <1>6, <1>7, <1>8, <1>9, <1>10, MovedOnceRows DEF TableInv, ById, new, move

--------------------------------------------------------------------------------
(* Each call. *)

CallGood(p) ==
    /\ CallInStep(p)
    /\ call[p].outcome = "deprecated" =>
           \E stored \in ById(call[p].id) :
               /\ stored.state = "DEPRECATED" /\ stored.profile = call[p].wanted
               /\ \E row \in call[p].answer :
                      /\ call[p].answer = {row}
                      /\ row = [stored EXCEPT !.version = row.version]
                      /\ row.version # stored.version => faults >= 1
    /\ call[p].outcome \in Refused \union {"invalid"} =>
           <<call[p].id, p, call[p].attempt>> \notin transitions
    /\ call[p].outcome \in Failed => faults >= 1
    /\ call[p].pc # "idle" => call[p].attempt # 0

\* The invariant is about the tables and about each call.
LEMMA InvariantParts ==
    /\ IInv <=> /\ TableInv /\ CallTyped /\ faults \in 0 .. MaxFaults
                /\ \A p \in Callers : CallGood(p)
    /\ IInv' <=> /\ TableInv' /\ CallTyped' /\ faults' \in 0 .. MaxFaults
                 /\ \A p \in Callers : CallGood(p)'
BY DEF IInv, TypeOK, InStep, TableInv, CallTyped, CallGood, AnswerIsStored,
       RefusalMovesNothing, FailuresNeedFaults

\* A deprecated row stays as it is, and a row that is held is still there or moved.
LEMMA HeldKept ==
    ASSUME TableInv, RowsKept, NEW held \in ResourceRows,
           held \in resources \/ Patched(held) \in resources
    PROVE  /\ held \in resources' \/ Patched(held) \in resources'
           /\ Patched(held) \in resources => Patched(held) \in resources'
           /\ \A row \in resources : row.state = "DEPRECATED" => row \in resources'
BY PatchedRow DEF RowsKept, TableInv

\* A call that does not move stays good while others do.
LEMMA OthersStayGood ==
    ASSUME IInv, NEW q \in Callers, call'[q] = call[q], RowsKept,
           faults' \in {faults, faults + 1},
           \A move \in transitions' : move[2] = q => move \in transitions
    PROVE  CallGood(q)'
<1>1. TableInv /\ CallGood(q) /\ call[q] \in Calls /\ faults \in Nat
    BY InvariantParts, BoundsAssumption DEF CallTyped
<1>2. faults >= 1 => faults' >= 1
    BY <1>1
<1>3. \A row \in resources : row.state = "DEPRECATED" => row \in resources'
    BY DEF RowsKept
<1>4. CallInStep(q)'
  <2> DEFINE c == call[q]
  <2>1. /\ c.pc # "idle" => c.outcome = "none"
        /\ c.pc \in {"get", "patch", "commit"} => <<c.id, q, c.attempt>> \notin transitions'
        /\ \A move \in transitions' : move[2] = q => move[3] <= c.attempt
    BY <1>1 DEF CallGood, CallInStep
  <2>2. ASSUME c.pc \in {"patch", "commit", "winner"}
        PROVE  \E held \in c.held :
                   /\ c.held = {held}
                   /\ held.id = c.id /\ held.profile = c.wanted
                   /\ held.state = "PUBLISHED"
                   /\ held \in resources' \/ Patched(held) \in resources'
                   /\ c.pc = "winner" => Patched(held) \in resources' \/ faults' >= 1
                   /\ c.pc = "commit" =>
                          \E row \in c.answer :
                              /\ c.answer = {row}
                              /\ row = [Patched(held) EXCEPT !.version = row.version]
                              /\ row # Patched(held) => faults' >= 1
    <3>1. PICK held \in c.held :
              /\ c.held = {held}
              /\ held.id = c.id /\ held.profile = c.wanted
              /\ held.state = "PUBLISHED"
              /\ held \in resources \/ Patched(held) \in resources
              /\ c.pc = "winner" => Patched(held) \in resources \/ faults >= 1
              /\ c.pc = "commit" =>
                     \E row \in c.answer :
                         /\ c.answer = {row}
                         /\ row = [Patched(held) EXCEPT !.version = row.version]
                         /\ row # Patched(held) => faults >= 1
        BY <1>1, <2>2 DEF CallGood, CallInStep
    <3>2. held \in ResourceRows
        BY <1>1, <3>1 DEF Calls
    <3>3. /\ held \in resources' \/ Patched(held) \in resources'
          /\ Patched(held) \in resources => Patched(held) \in resources'
        BY <1>1, <3>1, <3>2, HeldKept
    <3> QED
        BY <1>2, <3>1, <3>3
  <2> QED
    BY <2>1, <2>2 DEF CallInStep
<1>5. ASSUME call[q].outcome = "deprecated"
      PROVE  \E stored \in ById(call[q].id)' :
                 /\ stored.state = "DEPRECATED" /\ stored.profile = call[q].wanted
                 /\ \E row \in call[q].answer :
                        /\ call[q].answer = {row}
                        /\ row = [stored EXCEPT !.version = row.version]
                        /\ row.version # stored.version => faults' >= 1
    BY <1>1, <1>2, <1>3, <1>5 DEF CallGood, ById
<1>6. /\ call[q].outcome \in Refused \union {"invalid"} =>
             <<call[q].id, q, call[q].attempt>> \notin transitions'
      /\ call[q].outcome \in Failed => faults' >= 1
      /\ call[q].pc # "idle" => call[q].attempt # 0
    BY <1>1, <1>2 DEF CallGood
<1> QED
    BY <1>4, <1>5, <1>6 DEF CallGood, ById

\* A call that moves is good again.
LEMMA OwnStayGood ==
    ASSUME IInv, NEW p \in Callers, Moves(p), RowsKept, TableInv',
           \/ transitions' = transitions
           \/ \E row : MovesHeld(p, row)
                     /\ Patched(row) \in resources'
                     /\ transitions' = transitions \union {<<row.id, p, call[p].attempt>>}
    PROVE  CallGood(p)'
<1> DEFINE c == call[p]
           d == call'[p]
<1>1. /\ TableInv /\ CallGood(p) /\ c \in Calls /\ faults \in Nat /\ faults' \in Nat
      /\ d \in Calls /\ d.id = c.id /\ d.wanted = c.wanted /\ d.attempt = c.attempt
      /\ faults >= 1 => faults' >= 1
    BY InvariantParts, BoundsAssumption DEF CallTyped, Moves, SameRequest
<1>2. \A move \in transitions' : move[2] = p => move[3] <= c.attempt
  <2>1. \A move \in transitions : move[2] = p => move[3] <= c.attempt
    BY <1>1 DEF CallGood, CallInStep
  <2>2. c.attempt \in Nat
    BY <1>1, BoundsAssumption DEF Calls
  <2> QED
    BY <2>1, <2>2
<1>3. c.pc # "idle" /\ c.attempt # 0
    BY <1>1 DEF CallGood, Moves, Holds, Stages, LosesRow, Doubts, Finds, Finishes, GivesUp,
                MovesHeld
<1>4. c.pc \in {"get", "patch", "commit"} => <<c.id, p, c.attempt>> \notin transitions
    BY <1>1 DEF CallGood, CallInStep
<1> DEFINE HeldGood(held) ==
               /\ d.held = {held}
               /\ held.id = d.id /\ held.profile = d.wanted
               /\ held.state = "PUBLISHED"
               /\ held \in resources' \/ Patched(held) \in resources'
               /\ d.pc = "winner" => Patched(held) \in resources' \/ faults' >= 1
               /\ d.pc = "commit" =>
                      \E row \in d.answer :
                          /\ d.answer = {row}
                          /\ row = [Patched(held) EXCEPT !.version = row.version]
                          /\ row # Patched(held) => faults' >= 1
           StoredGood(stored) ==
               /\ stored \in resources' /\ stored.id = d.id
               /\ stored.state = "DEPRECATED" /\ stored.profile = d.wanted
               /\ \E row \in d.answer :
                      /\ d.answer = {row}
                      /\ row = [stored EXCEPT !.version = row.version]
                      /\ row.version # stored.version => faults' >= 1
<1>5. SUFFICES /\ d.pc # "idle" => d.outcome = "none"
               /\ d.pc \in {"get", "patch", "commit"} =>
                      <<d.id, p, d.attempt>> \notin transitions'
               /\ d.pc \in {"patch", "commit", "winner"} => \E held \in d.held : HeldGood(held)
               /\ d.outcome = "deprecated" => \E stored \in resources' : StoredGood(stored)
               /\ d.outcome \in Refused \union {"invalid"} =>
                      <<d.id, p, d.attempt>> \notin transitions'
               /\ d.outcome \in Failed => faults' >= 1
    BY <1>1, <1>2, <1>3 DEF CallGood, CallInStep, ById
<1>6. ASSUME c.pc \in {"patch", "commit"}
      PROVE  \E held \in ResourceRows :
                 /\ c.held = {held} /\ held.id = c.id /\ held.profile = c.wanted
                 /\ held.state = "PUBLISHED"
                 /\ held \in resources \/ Patched(held) \in resources
                 /\ held \in resources' \/ Patched(held) \in resources'
  <2>1. PICK held \in ResourceRows :
            /\ c.held = {held} /\ held.id = c.id /\ held.profile = c.wanted
            /\ held.state = "PUBLISHED"
            /\ held \in resources \/ Patched(held) \in resources
    BY <1>6, HeldRow
  <2> QED
    BY <1>1, <2>1, HeldKept
<1> HIDE DEF c, d
<1>7. CASE Holds(p)
    BY <1>1, <1>4, <1>7 DEF Holds, HeldGood, TablesKeep, c, d, Refused, Failed
<1>8. CASE Stages(p)
  <2>1. PICK held \in ResourceRows :
            /\ c.held = {held} /\ held.id = c.id /\ held.profile = c.wanted
            /\ held.state = "PUBLISHED"
            /\ held \in resources' \/ Patched(held) \in resources'
    BY <1>6, <1>8 DEF Stages, c
  <2>2. HeldGood(held)
    BY <1>1, <1>8, <2>1 DEF Stages, c, d
  <2> QED
    BY <1>1, <1>4, <1>8, <2>1, <2>2 DEF Stages, TablesKeep, c, d, Refused, Failed
<1>9. CASE LosesRow(p)
  <2>1. PICK held \in ResourceRows :
            /\ c.held = {held} /\ held.id = c.id /\ held.profile = c.wanted
            /\ held.state = "PUBLISHED"
            /\ held \in resources \/ Patched(held) \in resources
            /\ held \in resources' \/ Patched(held) \in resources'
    BY <1>6, <1>9 DEF LosesRow, c
  <2>2. HeldGood(held)
    BY <1>1, <1>9, <2>1 DEF LosesRow, TablesKeep, c, d
  <2> QED
    BY <1>1, <1>9, <2>1, <2>2 DEF LosesRow, c, d, Refused, Failed
<1>10. CASE Doubts(p)
  <2>1. PICK row : MovesHeld(p, row)
    BY <1>10 DEF Doubts
  <2>2. Patched(row) \in resources'
    BY <1>1, <2>1, TransitionTables DEF c
  <2>3. CASE d.pc = "winner" /\ d.outcome = "none" /\ d.held = c.held
    <3>1. PICK held \in ResourceRows :
              /\ c.held = {held} /\ held.id = c.id /\ held.profile = c.wanted
              /\ held.state = "PUBLISHED"
        BY <1>6, <2>1 DEF MovesHeld, c
    <3>2. HeldGood(held)
        BY <1>1, <1>10, <2>1, <2>2, <2>3, <3>1 DEF MovesHeld, Doubts, c
    <3> QED
        BY <2>3, <3>1, <3>2 DEF Refused, Failed
  <2>4. CASE d.pc = "idle" /\ d.outcome = "error"
    BY <1>10, <2>4 DEF Doubts, Refused, Failed
  <2> QED
    BY <1>10, <2>3, <2>4 DEF Doubts, c, d
<1>11. CASE Finds(p)
  <2>1. PICK row \in resources :
            /\ d.answer = {row} /\ row.id = c.id
            /\ row.profile = c.wanted /\ row.state = "DEPRECATED"
    BY <1>11 DEF Finds, c, d
  <2>2. row \in resources' /\ row = [row EXCEPT !.version = row.version]
    BY <1>1, <1>11, <2>1 DEF Finds, TablesKeep, TableInv, ResourceRows
  <2> QED
    BY <1>1, <1>11, <2>1, <2>2 DEF Finds, StoredGood, c, d, Refused, Failed
<1>12. CASE Finishes(p)
  <2>1. PICK row : MovesHeld(p, row)
    BY <1>12 DEF Finishes
  <2>2. Patched(row) \in resources' /\ row \in ResourceRows
    BY <1>1, <2>1, TransitionTables DEF MovesHeld, TableInv
  <2>3. PICK held \in c.held :
            /\ c.held = {held} /\ held.id = c.id /\ held.profile = c.wanted
            /\ c.pc = "commit" =>
                   \E answer \in c.answer :
                       /\ c.answer = {answer}
                       /\ answer = [Patched(held) EXCEPT !.version = answer.version]
                       /\ answer # Patched(held) => faults >= 1
    BY <1>1, <2>1 DEF CallGood, CallInStep, MovesHeld, c
  <2>4. held = row /\ c.pc = "commit"
    BY <2>1, <2>3 DEF MovesHeld, c
  <2>5. /\ Patched(row).id = c.id /\ Patched(row).profile = c.wanted
        /\ Patched(row).state = "DEPRECATED"
    BY <2>2, <2>3, <2>4, PatchedRow
  <2>6. PICK answer \in c.answer :
            /\ c.answer = {answer}
            /\ answer = [Patched(row) EXCEPT !.version = answer.version]
            /\ answer # Patched(row) => faults >= 1
    BY <2>3, <2>4
  <2>7. StoredGood(Patched(row))
    BY <1>1, <1>12, <2>2, <2>5, <2>6 DEF Finishes, c, d
  <2> QED
    BY <1>12, <2>2, <2>7 DEF Finishes, c, d, Refused, Failed
<1>13. CASE GivesUp(p)
    BY <1>1, <1>4, <1>13 DEF GivesUp, TablesKeep, c, d, Refused, Failed
<1> QED
    BY <1>7, <1>8, <1>9, <1>10, <1>11, <1>12, <1>13 DEF Moves

--------------------------------------------------------------------------------
(* Every step keeps the invariant. *)

\* The initial state satisfies it.
LEMMA InvariantInit == Init => IInv
<1>1. (CHOOSE id \in Resources : TRUE) \in Resources
    BY NonEmptyAssumption
<1> DEFINE c == [pc |-> "idle", id |-> CHOOSE id \in Resources : TRUE, wanted |-> "ARTIFACT",
                 attempt |-> 0, held |-> {}, answer |-> {}, outcome |-> "none"]
<1>2. c \in Calls
    BY <1>1, BoundsAssumption DEF Calls, Profiles
<1>3. Init => /\ call = [p \in Callers |-> c] /\ resources = {} /\ transitions = {}
              /\ faults = 0
    BY DEF Init
<1>4. c.pc = "idle" /\ c.outcome = "none"
    OBVIOUS
<1> HIDE DEF c
<1>5. ASSUME Init PROVE CallTyped /\ \A p \in Callers : CallGood(p)
    BY <1>2, <1>3, <1>4, <1>5 DEF CallTyped, CallGood, CallInStep, Refused, Failed
<1>6. ASSUME Init PROVE TableInv /\ faults \in 0 .. MaxFaults
    BY <1>3, <1>6, BoundsAssumption DEF TableInv, MovedOnce
<1> QED
    BY <1>5, <1>6, InvariantParts

\* Entering a call, for the first time or again.
LEMMA EnterStaysGood ==
    ASSUME IInv, NEW p \in Callers, NEW id \in Resources, NEW wanted \in Profiles,
           NEW attempt \in Attempts, Enter(p, id, wanted, attempt),
           call[p].attempt < attempt
    PROVE  IInv'
<1>1. /\ CallTyped' /\ OthersKeep(p) /\ TablesKeep /\ faults' = faults
      /\ call'[p] = [pc |-> "get", id |-> id, wanted |-> wanted, attempt |-> attempt,
                     held |-> {}, answer |-> {}, outcome |-> "none"]
    BY EnterMoves, InvariantParts DEF Enter, TablesKeep
<1>2. TableInv' /\ RowsKept
    BY <1>1, InvariantParts DEF TablesKeep, TableInv, RowsKept, MovedOnce, ById
<1>3. ASSUME NEW q \in Callers, q # p PROVE CallGood(q)'
    BY <1>1, <1>2, <1>3, OthersStayGood, InvariantParts, BoundsAssumption
       DEF OthersKeep, TablesKeep
<1>4. CallGood(p)'
  <2>1. /\ call'[p].pc = "get" /\ call'[p].outcome = "none"
        /\ call'[p].attempt = attempt /\ attempt # 0
    BY <1>1 DEF Attempts
  <2>2. \A move \in transitions : move[2] = p => move[3] <= call[p].attempt
    BY InvariantParts DEF CallGood, CallInStep
  <2>3. call[p].attempt \in Nat /\ attempt \in Nat /\ transitions' = transitions
    BY <1>1, InvariantParts, BoundsAssumption DEF CallTyped, Calls, Attempts, TablesKeep
  <2>4. transitions \subseteq Resources \X Callers \X Attempts
    BY InvariantParts DEF TableInv
  <2>5. \A move \in transitions' : move[2] = p => move[3] < attempt
    BY <2>2, <2>3, <2>4 DEF Attempts
  <2>6. <<call'[p].id, p, attempt>> \notin transitions'
    BY <2>3, <2>5
  <2> QED
    BY <2>1, <2>3, <2>4, <2>5, <2>6 DEF CallGood, CallInStep, Refused, Failed, Attempts
<1> QED
    BY <1>1, <1>2, <1>3, <1>4, InvariantParts

\* A call's own step.
LEMMA StepTables ==
    ASSUME IInv, NEW p \in Callers, Moves(p)
    PROVE  /\ TableInv' /\ RowsKept
           /\ \/ TablesKeep
              \/ \E row : /\ MovesHeld(p, row) /\ Patched(row) \in resources'
                          /\ transitions' =
                                 transitions \union {<<row.id, p, call[p].attempt>>}
<1>1. CASE TablesKeep
    BY <1>1, InvariantParts DEF TablesKeep, TableInv, RowsKept, MovedOnce, ById
<1>2. CASE \E row : MovesHeld(p, row)
    BY <1>2, TransitionTables
<1> QED
    BY <1>1, <1>2 DEF Moves, Holds, Stages, LosesRow, Doubts, Finds, Finishes, GivesUp

\* No step of the specification leaves it.
LEMMA InvariantStep == IInv /\ [Next]_vars => IInv'
<1> SUFFICES ASSUME IInv, [Next]_vars PROVE IInv'
    OBVIOUS
<1>1. CASE UNCHANGED vars
  <2>1. TableInv'
    BY <1>1, InvariantParts DEF vars, TableInv, MovedOnce, ById
  <2>2. CallTyped'
    BY <1>1, InvariantParts DEF vars, CallTyped
  <2>3. \A p \in Callers : CallGood(p)'
    BY <1>1, InvariantParts DEF vars, CallGood, CallInStep, ById
  <2> QED
    BY <1>1, <2>1, <2>2, <2>3, InvariantParts DEF vars
<1>2. ASSUME NEW id \in Resources, Publish(id) PROVE IInv'
  <2>1. TableInv' /\ RowsKept /\ transitions' = transitions
    BY <1>2, PublishTables
  <2>2. call' = call /\ faults' = faults
    BY <1>2 DEF Publish
  <2>3. ASSUME NEW p \in Callers PROVE CallGood(p)'
    BY <2>1, <2>2, OthersStayGood, InvariantParts, BoundsAssumption
  <2> QED
    BY <2>1, <2>2, <2>3, InvariantParts DEF CallTyped
<1>3. ASSUME NEW p \in Callers, Begin(p) PROVE IInv'
    BY <1>3, EnterStaysGood, BoundsAssumption DEF Begin, Attempts
<1>4. ASSUME NEW p \in Callers, Retry(p) PROVE IInv'
  <2>1. /\ call[p] \in Calls /\ call[p].attempt < MaxAttempts
        /\ Enter(p, call[p].id, call[p].wanted, call[p].attempt + 1)
    BY <1>4, InvariantParts DEF Retry, CallTyped
  <2>2. /\ call[p].id \in Resources /\ call[p].wanted \in Profiles
        /\ call[p].attempt + 1 \in Attempts /\ call[p].attempt < call[p].attempt + 1
    BY <2>1, BoundsAssumption DEF Calls, Attempts
  <2> QED
    BY <2>1, <2>2, EnterStaysGood
<1>5. ASSUME NEW p \in Callers, DeprecateStep(p) \/ DeprecateFault(p) PROVE IInv'
  <2>1. Moves(p)
    BY <1>5, StepMoves
  <2>2. /\ TableInv' /\ RowsKept
        /\ \/ TablesKeep
           \/ \E row : /\ MovesHeld(p, row) /\ Patched(row) \in resources'
                       /\ transitions' =
                              transitions \union {<<row.id, p, call[p].attempt>>}
    BY <2>1, StepTables
  <2>3. CallGood(p)'
    BY <2>1, <2>2, OwnStayGood DEF TablesKeep
  <2>4. ASSUME NEW q \in Callers, q # p PROVE CallGood(q)'
    <3>1. \A move \in transitions' : move[2] = q => move \in transitions
        BY <2>2, <2>4 DEF TablesKeep
    <3> QED
        BY <2>1, <2>2, <2>4, <3>1, OthersStayGood DEF Moves, OthersKeep
  <2> QED
    BY <2>1, <2>2, <2>3, <2>4, InvariantParts DEF Moves
<1> QED
    BY <1>1, <1>2, <1>3, <1>4, <1>5 DEF Next

\* The invariant holds for ever.
THEOREM Invariance == Spec => []IInv
<1> QED
    BY InvariantInit, InvariantStep, PTL DEF Spec

--------------------------------------------------------------------------------
(* What follows. *)

\* Every reachable state is well typed.
THEOREM TypeCorrect == Spec => []TypeOK
<1>1. IInv => TypeOK
    BY DEF IInv
<1> QED
    BY <1>1, Invariance, PTL

\* A row is deprecated by one attempt of one caller or by none, whoever races.
THEOREM RowsMoveOnce == Spec => []MovedOnce
<1>1. IInv => MovedOnce
    BY DEF IInv
<1> QED
    BY <1>1, Invariance, PTL

\* The row that deprecate returns is the stored one.
THEOREM AnswersTruthful == Spec => []AnswerIsStored
<1>1. IInv => AnswerIsStored
    BY DEF IInv
<1> QED
    BY <1>1, Invariance, PTL

\* A call whose answer was invalid, or that was refused, has deprecated nothing.
THEOREM RefusalsHarmless == Spec => []RefusalMovesNothing
<1>1. IInv => RefusalMovesNothing
    BY DEF IInv
<1> QED
    BY <1>1, Invariance, PTL

\* Without faults no racing call fails.
THEOREM RacesConverge == Spec => []FailuresNeedFaults
<1>1. IInv => FailuresNeedFaults
    BY DEF IInv
<1> QED
    BY <1>1, Invariance, PTL

\* What a call relies on between two remote operations stays true.
THEOREM CallsStayInStep == Spec => []InStep
<1>1. IInv => InStep
    BY DEF IInv
<1> QED
    BY <1>1, Invariance, PTL

\* One step moves rows forward only.
LEMMA ForwardStep ==
    ASSUME IInv, [Next]_vars
    PROVE  /\ \A row \in resources \ resources' :
                  row.state = "PUBLISHED" /\ Patched(row) \in resources'
           /\ \A row \in resources' \ resources :
                  \/ row.state = "PUBLISHED" /\ ById(row.id) = {}
                  \/ \E old \in resources : row = Patched(old)
<1>1. ASSUME NEW id \in Resources, Publish(id)
      PROVE  \E new : /\ resources' = resources \union {new}
                      /\ new.state = "PUBLISHED" /\ ById(new.id) = {}
  <2>1. PICK profile \in Profiles, digest \in Digests :
            resources' = resources \union
                {[id |-> id, profile |-> profile, digest |-> digest,
                  state |-> "PUBLISHED", version |-> 0]}
    BY <1>1 DEF Publish
  <2> DEFINE new == [id |-> id, profile |-> profile, digest |-> digest,
                     state |-> "PUBLISHED", version |-> 0]
  <2>2. ById(new.id) = {} /\ new.state = "PUBLISHED"
    BY <1>1 DEF Publish
  <2>3. resources' = resources \union {new}
    BY <2>1
  <2> HIDE DEF new
  <2> QED
    BY <2>2, <2>3
<1>2. ASSUME NEW p \in Callers, DeprecateStep(p) \/ DeprecateFault(p)
      PROVE  \/ resources' = resources
             \/ \E row \in resources : /\ row.state = "PUBLISHED"
                                       /\ resources' = (resources \ {row}) \union {Patched(row)}
  <2>1. Moves(p)
    BY <1>2, StepMoves
  <2>2. TablesKeep \/ \E row : MovesHeld(p, row)
    BY <2>1, StepTables
  <2> QED
    BY <2>2 DEF TablesKeep, MovesHeld, Transition
<1>3. \/ resources' = resources
      \/ \E new : /\ resources' = resources \union {new}
                  /\ new.state = "PUBLISHED" /\ ById(new.id) = {}
      \/ \E row \in resources : /\ row.state = "PUBLISHED"
                                /\ resources' = (resources \ {row}) \union {Patched(row)}
    BY <1>1, <1>2 DEF Next, vars, Begin, Retry, Enter
<1> QED
    BY <1>3

\* A row is inserted as published, or moved from PUBLISHED to DEPRECATED with
\* everything else as it was.
THEOREM LifecycleForward == Spec => OnlyForward
<1>1. IInv /\ [Next]_vars =>
          [/\ \A row \in resources \ resources' :
                  row.state = "PUBLISHED" /\ Patched(row) \in resources'
           /\ \A row \in resources' \ resources :
                  \/ row.state = "PUBLISHED" /\ ById(row.id) = {}
                  \/ \E old \in resources : row = Patched(old)]_vars
    BY ForwardStep
<1> QED
    BY <1>1, Invariance, PTL DEF Spec, OnlyForward

--------------------------------------------------------------------------------
(* Each row's mark is a register that is written once. *)

MarkOps == [p \in Callers |-> MarkOp(p)]
MarkTable == [id \in Resources |-> MarkOf(id)]

\* A call that runs is pending, or in doubt once its attempt has moved the row.
LEMMA RunningPhase ==
    ASSUME NEW p \in Callers, call[p].pc # "idle"
    PROVE  /\ PhaseOf(p) \in {"pending", "in doubt"}
           /\ (PhaseOf(p) = "in doubt") <=> (<<call[p].id, p, call[p].attempt>> \in transitions)
BY DEF PhaseOf

\* A call that is over has answered.
LEMMA IdlePhase ==
    ASSUME NEW p \in Callers, call[p].pc = "idle"
    PROVE  /\ PhaseOf(p) \notin {"pending", "in doubt"}
           /\ call[p].outcome = "none" => PhaseOf(p) = "new"
           /\ call[p].outcome = "deprecated" => PhaseOf(p) = "stored"
           /\ call[p].outcome \in Refused => PhaseOf(p) = "declined"
           /\ call[p].outcome \in Failed => PhaseOf(p) = "unknown"
BY DEF PhaseOf, Refused, Failed

\* The same two facts of the next state.
LEMMA NextPhase ==
    ASSUME NEW p \in Callers
    PROVE  /\ call'[p].pc # "idle" =>
                  /\ PhaseOf(p)' \in {"pending", "in doubt"}
                  /\ (PhaseOf(p)' = "in doubt") <=>
                         (<<call'[p].id, p, call'[p].attempt>> \in transitions')
           /\ call'[p].pc = "idle" =>
                  /\ call'[p].outcome = "deprecated" => PhaseOf(p)' = "stored"
                  /\ call'[p].outcome \in Refused => PhaseOf(p)' = "declined"
                  /\ call'[p].outcome \in Failed => PhaseOf(p)' = "unknown"
BY DEF PhaseOf, Refused, Failed

\* Of a call that does not change its request, the register sees the phase only.
LEMMA PhaseMove ==
    ASSUME NEW p \in Callers, OthersKeep(p), SameRequest(p),
           \A q \in Callers : q # p => PhaseOf(q)' = PhaseOf(q)
    PROVE  MarkOps' = [MarkOps EXCEPT ![p].phase = PhaseOf(p)']
<1>1. MarkOp(p)' = [MarkOp(p) EXCEPT !.phase = PhaseOf(p)']
    BY DEF MarkOp, SameRequest
<1>2. \A q \in Callers : q # p => MarkOp(q)' = MarkOp(q)
    BY DEF MarkOp, OthersKeep
<1> QED
    BY <1>1, <1>2 DEF MarkOps

\* Other callers' phases do not depend on p's transitions.
LEMMA OtherPhases ==
    ASSUME NEW p \in Callers, OthersKeep(p),
           \A move \in transitions' : move \in transitions \/ move[2] = p,
           transitions \subseteq transitions'
    PROVE  \A q \in Callers : q # p => PhaseOf(q)' = PhaseOf(q)
<1> SUFFICES ASSUME NEW q \in Callers, q # p PROVE PhaseOf(q)' = PhaseOf(q)
    OBVIOUS
<1>1. call'[q] = call[q]
    BY DEF OthersKeep
<1>2. <<call[q].id, q, call[q].attempt>> \in transitions'
          <=> <<call[q].id, q, call[q].attempt>> \in transitions
    OBVIOUS
<1> QED
    BY <1>1, <1>2 DEF PhaseOf, Refused, Failed

\* Marks are as the rows are.
LEMMA MarksStay == ASSUME UNCHANGED resources PROVE MarkTable' = MarkTable
BY DEF MarkTable, MarkOf, ById

\* A transition writes the mark of one row.
LEMMA TransitionWrites ==
    ASSUME IInv, NEW p \in Callers, NEW row, MovesHeld(p, row)
    PROVE  /\ MarkTable[call[p].id] \subseteq {"DEPRECATED"}
           /\ MarkTable' = [MarkTable EXCEPT ![call[p].id] = {"DEPRECATED"}]
<1> SUFFICES ASSUME NEW id, id = call[p].id
             PROVE  /\ MarkTable[id] \subseteq {"DEPRECATED"}
                    /\ MarkTable' = [MarkTable EXCEPT ![id] = {"DEPRECATED"}]
    OBVIOUS
<1>1. /\ row \in resources /\ row.id = id /\ row.state = "PUBLISHED" /\ row \in ResourceRows
      /\ resources' = (resources \ {row}) \union {Patched(row)}
      /\ TableInv
    BY InvariantParts DEF MovesHeld, Transition, TableInv
<1>2. Patched(row).id = id /\ Patched(row).state = "DEPRECATED"
    BY <1>1, PatchedRow
<1>3. MarkOf(id)' = {"DEPRECATED"}
  <2>1. Patched(row) \in {r \in ById(id)' : r.state = "DEPRECATED"}
    BY <1>1, <1>2 DEF ById
  <2>2. \A m \in MarkOf(id)' : m = "DEPRECATED"
    BY DEF MarkOf
  <2>3. "DEPRECATED" \in MarkOf(id)'
    BY <1>2, <2>1 DEF MarkOf
  <2> QED
    BY <2>2, <2>3
<1>4. \A other : other # id => MarkOf(other)' = MarkOf(other)
    BY <1>1, <1>2 DEF MarkOf, ById
<1>5. id \in Resources
    BY <1>1 DEF ResourceRows
<1>6. MarkOf(id) \subseteq {"DEPRECATED"}
    BY DEF MarkOf
<1> QED
    BY <1>3, <1>4, <1>5, <1>6 DEF MarkTable

\* A call's own step is a step of the registers, or one they do not see.
LEMMA CallerRefines ==
    ASSUME IInv, NEW p \in Callers, Moves(p)
    PROVE  Marks!Next \/ UNCHANGED Marks!vars
<1>1. /\ call[p].pc # "idle" /\ call[p] \in Calls /\ call[p].attempt # 0
      /\ CallInStep(p) /\ faults \in 0 .. MaxFaults
      /\ call'[p].attempt = call[p].attempt /\ call'[p].id = call[p].id
    BY InvariantParts
       DEF CallTyped, CallGood, Moves, SameRequest, Holds, Stages, LosesRow, Doubts, Finds,
           Finishes, GivesUp, MovesHeld
<1>2. /\ MarkOps[p] = MarkOp(p) /\ MarkOps[p].key = call[p].id
      /\ MarkOps[p].value = "DEPRECATED" /\ MarkOps[p].phase = PhaseOf(p)
      /\ call[p].id \in Resources
    BY <1>1 DEF MarkOps, MarkOp, Calls
<1>3. /\ PhaseOf(p) \in {"pending", "in doubt"}
      /\ call[p].pc \in {"get", "patch", "commit"} => PhaseOf(p) = "pending"
    BY <1>1, RunningPhase DEF CallInStep
<1>4. MarkOps' = [MarkOps EXCEPT ![p].phase = PhaseOf(p)']
  <2>1. /\ \A move \in transitions' : move \in transitions \/ move[2] = p
        /\ transitions \subseteq transitions'
    BY StepTables DEF TablesKeep
  <2> QED
    BY <2>1, OtherPhases, PhaseMove DEF Moves
<1>5. faults' \in {faults, faults + 1} /\ faults' \in 0 .. MaxFaults
    BY DEF Moves
<1>6. faults' = faults + 1 => faults < MaxFaults
    BY <1>1, <1>5, BoundsAssumption
<1>7. CASE Holds(p) \/ Stages(p) \/ LosesRow(p)
  <2>1. /\ TablesKeep /\ call'[p].pc # "idle"
        /\ call[p].pc \in {"get", "patch", "commit"}
    BY <1>7 DEF Holds, Stages, LosesRow
  <2>2. PhaseOf(p)' = PhaseOf(p)
    BY <1>1, <1>3, <2>1, RunningPhase, NextPhase DEF TablesKeep
  <2>3. MarkOps' = MarkOps /\ MarkTable' = MarkTable
    BY <1>2, <1>4, <2>1, <2>2, MarksStay DEF TablesKeep, MarkOps, MarkOp
  <2>4. CASE faults' = faults
    BY <2>3, <2>4 DEF Marks!vars, MarkOps, MarkTable
  <2>5. CASE faults' = faults + 1
    <3>1. Marks!Disturb(p)
        BY <1>2, <1>3, <1>6, <2>3, <2>5
           DEF Marks!Disturb, Marks!Running, MarkOps, MarkTable
    <3> QED
        BY <3>1 DEF Marks!Next
  <2> QED
    BY <1>5, <2>4, <2>5
<1>8. ASSUME NEW row, MovesHeld(p, row) PROVE Marks!Write(p)
    BY <1>2, <1>8, TransitionWrites DEF Marks!Write, MarkOps, MarkTable
<1>9. CASE Doubts(p)
  <2>1. Marks!Write(p) /\ faults' = faults + 1
    BY <1>8, <1>9 DEF Doubts
  <2>2. PhaseOf(p)' \in {"unknown", "in doubt"}
    <3>1. CASE call'[p].pc = "winner"
      <4>1. <<call[p].id, p, call[p].attempt>> \in transitions'
        BY <1>9, TransitionTables DEF Doubts, MovesHeld
      <4> QED
        BY <1>1, <3>1, <4>1, NextPhase
    <3>2. CASE call'[p].pc = "idle" /\ call'[p].outcome = "error"
        BY <1>1, <3>2, NextPhase DEF Failed
    <3> QED
        BY <1>9, <3>1, <3>2 DEF Doubts
  <2>3. Marks!Disturb(p)
    BY <1>2, <1>3, <1>4, <1>6, <2>1, <2>2
       DEF Marks!Disturb, Marks!Running, Marks!Answer, MarkOps
  <2> QED
    BY <2>3 DEF Marks!Next
<1>10. CASE Finds(p)
  <2>1. PhaseOf(p)' = "stored" /\ TablesKeep /\ faults' = faults
    BY <1>1, <1>10, NextPhase DEF Finds
  <2>2. MarkOf(call[p].id) = {"DEPRECATED"}
    <3>1. \E row \in resources : row.id = call[p].id /\ row.state = "DEPRECATED"
        BY <1>10 DEF Finds
    <3> QED
        BY <3>1 DEF MarkOf, ById
  <2>3. MarkTable[call[p].id] = {"DEPRECATED"} /\ MarkTable' = MarkTable
    BY <1>2, <2>1, <2>2, MarksStay DEF MarkTable, TablesKeep
  <2>4. MarkTable' = [MarkTable EXCEPT ![call[p].id] = {"DEPRECATED"}]
    BY <1>2, <2>3 DEF MarkTable
  <2>5. Marks!Write(p)
    BY <1>2, <2>3, <2>4 DEF Marks!Write, MarkOps, MarkTable
  <2>6. Marks!Store(p)
    BY <1>2, <1>3, <1>4, <2>1, <2>5 DEF Marks!Store, Marks!Running, Marks!Answer, MarkOps
  <2> QED
    BY <2>6 DEF Marks!Next
<1>11. CASE Finishes(p)
  <2>1. PhaseOf(p)' = "stored" /\ Marks!Write(p) /\ faults' = faults
    BY <1>1, <1>8, <1>11, NextPhase DEF Finishes
  <2>2. Marks!Store(p)
    BY <1>2, <1>3, <1>4, <2>1 DEF Marks!Store, Marks!Running, Marks!Answer, MarkOps
  <2> QED
    BY <2>2 DEF Marks!Next
<1>12. CASE GivesUp(p)
  <2>1. TablesKeep /\ MarkTable' = MarkTable /\ call'[p].pc = "idle"
    BY <1>12, MarksStay DEF GivesUp, TablesKeep
  <2>2. CASE call'[p].outcome \in Refused /\ call[p].pc = "get" /\ faults' = faults
    <3>1. PhaseOf(p)' = "declined" /\ PhaseOf(p) = "pending"
        BY <1>1, <1>3, <2>1, <2>2, NextPhase
    <3>2. Marks!Decline(p)
        BY <1>2, <1>4, <2>1, <2>2, <3>1
           DEF Marks!Decline, Marks!Answer, MarkOps, MarkTable
    <3> QED
        BY <3>2 DEF Marks!Next
  <2>3. CASE call'[p].outcome \in Failed /\ faults' >= 1
    <3>1. PhaseOf(p)' = "unknown"
        BY <1>1, <2>1, <2>3, NextPhase
    <3>2. CASE faults' = faults
      <4>0. faults > 0
        BY <1>1, <2>3, <3>2, BoundsAssumption
      <4>1. Marks!Fail(p)
        BY <1>2, <1>3, <1>4, <2>1, <3>1, <3>2, <4>0
           DEF Marks!Fail, Marks!Running, Marks!Answer, MarkOps, MarkTable
      <4> QED
        BY <4>1 DEF Marks!Next
    <3>3. CASE faults' = faults + 1
      <4>1. Marks!Disturb(p)
        BY <1>2, <1>3, <1>4, <1>6, <2>1, <3>1, <3>3
           DEF Marks!Disturb, Marks!Running, Marks!Answer, MarkOps, MarkTable
      <4> QED
        BY <4>1 DEF Marks!Next
    <3> QED
        BY <1>5, <3>2, <3>3
  <2> QED
    BY <1>12, <2>2, <2>3 DEF GivesUp, Failed
<1> QED
    BY <1>7, <1>9, <1>10, <1>11, <1>12 DEF Moves

\* Entering a call invokes an operation.
LEMMA EnterInvokes ==
    ASSUME IInv, NEW p \in Callers, NEW id \in Resources, NEW wanted \in Profiles,
           NEW attempt \in Attempts, Enter(p, id, wanted, attempt),
           call[p].pc = "idle", call[p].attempt < attempt,
           call[p].attempt # 0 => call[p].outcome \in Failed
    PROVE  Marks!Invoke(p)
<1>1. /\ CallTyped /\ OthersKeep(p) /\ TablesKeep /\ faults' = faults
      /\ call'[p] = [pc |-> "get", id |-> id, wanted |-> wanted, attempt |-> attempt,
                     held |-> {}, answer |-> {}, outcome |-> "none"]
    BY EnterMoves, InvariantParts DEF Enter, TablesKeep
<1>2. IInv'
    BY EnterStaysGood
<1>3. CallInStep(p)'
    BY <1>2, InvariantParts DEF CallGood
<1>4. <<call'[p].id, p, call'[p].attempt>> \notin transitions'
    BY <1>1, <1>3 DEF CallInStep
<1>5. PhaseOf(p)' = "pending"
  <2>1. call'[p].pc # "idle"
    BY <1>1
  <2> QED
    BY <1>4, <2>1, NextPhase
<1>6. PhaseOf(p) \notin {"pending", "in doubt"}
    BY IdlePhase
<1>7. \A q \in Callers : q # p => PhaseOf(q)' = PhaseOf(q)
    BY <1>1, OtherPhases DEF TablesKeep
<1> DEFINE o == [key |-> id, value |-> "DEPRECATED", phase |-> "pending"]
<1>8. MarkOp(p)' = o
    BY <1>1, <1>5 DEF MarkOp
<1>9. \A q \in Callers : q # p => MarkOp(q)' = MarkOp(q)
    BY <1>1, <1>7 DEF MarkOp, OthersKeep
<1>10. MarkOps' = [MarkOps EXCEPT ![p] = o]
    BY <1>8, <1>9 DEF MarkOps
<1>11. o \in Marks!Ops /\ o.phase = "pending"
    BY DEF Marks!Ops, Marks!Phases
<1>12. MarkOps[p].phase \notin {"pending", "in doubt"}
    BY <1>6 DEF MarkOps, MarkOp
<1>13. MarkTable' = MarkTable
    BY <1>1, MarksStay DEF TablesKeep
<1> HIDE DEF o
<1> QED
    BY <1>1, <1>10, <1>11, <1>12, <1>13 DEF Marks!Invoke, Marks!Running, MarkOps, MarkTable

\* The initial state is one of the registers.
LEMMA MarksInit == Init => Marks!Init
<1> SUFFICES ASSUME Init PROVE Marks!Init
    OBVIOUS
<1>1. resources = {} /\ faults = 0
    BY DEF Init
<1>2. MarkTable = [id \in Resources |-> {}]
    BY <1>1 DEF MarkTable, MarkOf, ById
<1>3. \A p \in Callers : call[p] \in Calls /\ call[p].pc = "idle" /\ call[p].outcome = "none"
  <2>1. CallTyped
    BY InvariantInit, InvariantParts
  <2> QED
    BY <2>1 DEF Init, CallTyped
<1>4. ASSUME NEW p \in Callers
      PROVE  MarkOp(p) \in {o \in Marks!Ops : o.phase = "new"}
  <2>1. PhaseOf(p) = "new"
    BY <1>3, IdlePhase
  <2>2. call[p].id \in Resources
    BY <1>3 DEF Calls
  <2> QED
    BY <2>1, <2>2 DEF MarkOp, Marks!Ops, Marks!Phases
<1>5. MarkOps \in [Callers -> {o \in Marks!Ops : o.phase = "new"}]
    BY <1>4 DEF MarkOps
<1> QED
    BY <1>1, <1>2, <1>5 DEF Marks!Init, MarkOps, MarkTable

\* Every step is a step of the registers or a stutter.
LEMMA MarksStep == IInv /\ [Next]_vars => [Marks!Next]_(Marks!vars)
<1> SUFFICES ASSUME IInv, [Next]_vars PROVE Marks!Next \/ UNCHANGED Marks!vars
    BY DEF Marks!vars
<1>1. CASE UNCHANGED vars
    BY <1>1 DEF vars, Marks!vars, MarkOf, ById, MarkOp, PhaseOf
<1>2. ASSUME NEW id \in Resources, Publish(id) PROVE UNCHANGED Marks!vars
  <2>1. PICK profile \in Profiles, digest \in Digests :
            resources' = resources \union
                {[id |-> id, profile |-> profile, digest |-> digest,
                  state |-> "PUBLISHED", version |-> 0]}
    BY <1>2 DEF Publish
  <2> DEFINE new == [id |-> id, profile |-> profile, digest |-> digest,
                     state |-> "PUBLISHED", version |-> 0]
  <2>2. resources' = resources \union {new} /\ new.state = "PUBLISHED"
    BY <2>1
  <2> HIDE DEF new
  <2>3. \A other : MarkOf(other)' = MarkOf(other)
    BY <2>2 DEF MarkOf, ById
  <2>4. UNCHANGED <<call, transitions, faults>>
    BY <1>2 DEF Publish
  <2> QED
    BY <2>3, <2>4 DEF Marks!vars, MarkOp, PhaseOf
<1>3. ASSUME NEW p \in Callers, Begin(p) PROVE Marks!Next
  <2>1. PICK id \in Resources, wanted \in Profiles : Enter(p, id, wanted, 1)
    BY <1>3 DEF Begin
  <2>2. 1 \in Attempts /\ call[p].pc = "idle" /\ call[p].attempt = 0
    BY <1>3, BoundsAssumption DEF Begin, At, Attempts
  <2>3. Marks!Invoke(p)
    BY <2>1, <2>2, EnterInvokes
  <2> QED
    BY <2>3 DEF Marks!Next
<1>4. ASSUME NEW p \in Callers, Retry(p) PROVE Marks!Next
  <2>1. /\ call[p] \in Calls /\ call[p].attempt < MaxAttempts /\ call[p].pc = "idle"
        /\ Enter(p, call[p].id, call[p].wanted, call[p].attempt + 1)
        /\ call[p].outcome \in Failed
    BY <1>4, InvariantParts DEF Retry, CallTyped, At
  <2>2. /\ call[p].id \in Resources /\ call[p].wanted \in Profiles
        /\ call[p].attempt + 1 \in Attempts /\ call[p].attempt < call[p].attempt + 1
    BY <2>1, BoundsAssumption DEF Calls, Attempts
  <2>3. Marks!Invoke(p)
    BY <2>1, <2>2, EnterInvokes
  <2> QED
    BY <2>3 DEF Marks!Next
<1>5. ASSUME NEW p \in Callers, DeprecateStep(p) \/ DeprecateFault(p)
      PROVE  Marks!Next \/ UNCHANGED Marks!vars
    BY <1>5, StepMoves, CallerRefines
<1> QED
    BY <1>1, <1>2, <1>3, <1>4, <1>5 DEF Next

\* deprecate is a linearizable write of a mark that is written once: every
\* behaviour of Deprecation is one of WriteOnce, for any number of callers.
THEOREM DeprecationsWriteOnce == Spec => DeprecationIsWriteOnce
<1> QED
    BY MarksInit, MarksStep, Invariance, PTL DEF Spec, DeprecationIsWriteOnce, Marks!Spec

--------------------------------------------------------------------------------
(* The channels see each deprecation as one step. *)

\* There is nobody who promotes or reads.
LEMMA NobodyElse ==
    ASSUME NEW f, NEW g PROVE [p \in {} |-> f] = [p \in {} |-> g]
OBVIOUS

\* A row is replaced by its successor, among rows of which no two share an id.
LEMMA VersionMoves ==
    ASSUME IInv, NEW row \in resources, row.state = "PUBLISHED",
           resources' = (resources \ {row}) \union {Patched(row)}
    PROVE  \E id \in Resources : Versions!Deprecate(id)
<1>1. row \in ResourceRows /\ \A other \in resources : other.id = row.id => other = row
    BY InvariantParts DEF TableInv
<1>2. /\ row.id \in Resources
      /\ Version(Patched(row)) = [Version(row) EXCEPT !.state = "DEPRECATED"]
    BY <1>1 DEF ResourceRows, Version, Patched
<1>3. \A other \in resources : Version(other) = Version(row) => other = row
    BY <1>1 DEF Version
<1>4. VersionRows' = (VersionRows \ {Version(row)}) \union {Version(Patched(row))}
  <2> DEFINE next == Patched(row)
  <2>1. \A other : other \in resources' <=> (other \in resources /\ other # row) \/ other = next
    OBVIOUS
  <2> HIDE DEF next
  <2>2. ASSUME NEW new
        PROVE  new \in VersionRows' <=>
                   (new \in VersionRows /\ new # Version(row)) \/ new = Version(next)
    BY <1>3, <2>1 DEF VersionRows, Version
  <2> QED
    BY <2>2 DEF next
<1>5. Version(row) \in Versions!ById(row.id) /\ Version(row).state = "PUBLISHED"
    BY DEF Versions!ById, VersionRows, Version
<1>6. /\ Versions!ById(row.id) = {v \in VersionRows : v.id = row.id}
      /\ VersionRows' = (VersionRows \ {Version(row)})
                            \union {[Version(row) EXCEPT !.state = "DEPRECATED"]}
    BY <1>2, <1>4 DEF Versions!ById
<1> QED
    BY <1>2, <1>5, <1>6, NobodyElse DEF Versions!Deprecate

\* A row that is inserted is published there too.
LEMMA VersionAppears ==
    ASSUME NEW id \in Resources, Publish(id)
    PROVE  Versions!Publish(id)
<1>1. PICK profile \in Profiles, digest \in Digests :
          resources' = resources \union
              {[id |-> id, profile |-> profile, digest |-> digest,
                state |-> "PUBLISHED", version |-> 0]}
    BY DEF Publish
<1> DEFINE new == [id |-> id, profile |-> profile, digest |-> digest,
                   state |-> "PUBLISHED", version |-> 0]
<1>2. Version(new) = [id |-> id, profile |-> profile, digest |-> digest, state |-> "PUBLISHED"]
    BY DEF Version
<1>3. VersionRows' = VersionRows \union {Version(new)}
  <2>1. \A other : other \in resources' <=> other \in resources \/ other = new
    BY <1>1
  <2> HIDE DEF new
  <2>2. ASSUME NEW v PROVE v \in VersionRows' <=> v \in VersionRows \/ v = Version(new)
    BY <2>1 DEF VersionRows, Version
  <2> QED
    BY <2>2
<1>4. Versions!ById(id) = {}
    BY DEF Publish, ById, Versions!ById, VersionRows, Version
<1>5. profile \in Versions!Profiles
    BY DEF Profiles, Versions!Profiles
<1>6. VersionRows' = VersionRows \union
          {[id |-> id, profile |-> profile, digest |-> digest, state |-> "PUBLISHED"]}
    BY <1>2, <1>3
<1> QED
    BY <1>4, <1>5, <1>6, NobodyElse DEF Versions!Publish

\* Every step is a step of Channels or a stutter.
LEMMA VersionsStep == IInv /\ [Next]_vars => [Versions!Next]_(Versions!vars)
<1> SUFFICES ASSUME IInv, [Next]_vars PROVE Versions!Next \/ UNCHANGED Versions!vars
    BY DEF Versions!vars
<1>1. ASSUME UNCHANGED resources PROVE UNCHANGED Versions!vars
    BY <1>1, NobodyElse DEF Versions!vars, VersionRows, Version
<1>2. ASSUME NEW id \in Resources, Publish(id) PROVE Versions!Next
    BY <1>2, VersionAppears DEF Versions!Next
<1>3. ASSUME NEW p \in Callers, DeprecateStep(p) \/ DeprecateFault(p)
      PROVE  Versions!Next \/ UNCHANGED Versions!vars
  <2>1. Moves(p)
    BY <1>3, StepMoves
  <2>2. TablesKeep \/ \E row : MovesHeld(p, row)
    BY <2>1, StepTables
  <2>3. ASSUME NEW row, MovesHeld(p, row) PROVE Versions!Next
    BY <2>3, VersionMoves DEF MovesHeld, Transition, Versions!Next
  <2> QED
    BY <1>1, <2>2, <2>3 DEF TablesKeep
<1> QED
    BY <1>1, <1>2, <1>3 DEF Next, vars, Begin, Retry, Enter

\* Every behaviour of Deprecation, with its patches, rollbacks, faults and retries, is
\* one of Channels, in which a deprecation is a step.
THEOREM DeprecationsAreChannels == Spec => DeprecationIsChannels
<1>1. Init => Versions!Init
  <2>1. ASSUME Init PROVE VersionRows = {}
    BY <2>1 DEF Init, VersionRows
  <2> QED
    BY <2>1, NobodyElse DEF Versions!Init
<1> QED
    BY <1>1, VersionsStep, Invariance, PTL DEF Spec, DeprecationIsChannels, Versions!Spec

\* Rows, transitions and what running deprecations have seen of them agree.
THEOREM StateConsistent == Spec => []Consistent
<1>1. TypeOK /\ InStep => Consistent
    BY DEF Consistent
<1> QED
    BY <1>1, TypeCorrect, CallsStayInStep, PTL
================================================================================
