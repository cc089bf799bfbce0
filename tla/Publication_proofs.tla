-------------------------- MODULE Publication_proofs ---------------------------
(***************************************************************************)
(* Theorems about Publication, for every set of publishers, sweepers,      *)
(* identities, contents, documents and requests, and for every bound.      *)
(***************************************************************************)
EXTENDS Publication, TLAPS

--------------------------------------------------------------------------------
(* Type correctness. *)

\* The initial state is typed.
LEMMA TypeInit == Init => TypeOK
<1>1. (CHOOSE req \in Requests : TRUE) \in Requests
    BY RequestsAssumption
<1> QED
    BY <1>1, BoundsAssumption DEF Init, TypeOK, Calls, Sweeps, Steps, Outcomes

\* What the moves of a call leave of it, and that they keep its type.
CallTyped == /\ call \in [Publishers -> Calls]
             /\ \A p \in Publishers : call[p].pc # "idle" => call[p].attempt # 0

OthersKeep(p) == \A q \in Publishers : q # p => call'[q] = call[q]

SameAttempt(p) == call'[p].req = call[p].req /\ call'[p].attempt = call[p].attempt

\* Enter starts an attempt of one call.
LEMMA EnterMoves ==
    ASSUME CallTyped, NEW p \in Publishers, NEW req \in Requests,
           NEW attempt \in 1 .. MaxAttempts, Enter(p, req, attempt)
    PROVE  /\ CallTyped' /\ OthersKeep(p)
           /\ call'[p].pc \in {"idle", "lookup"}
           /\ call'[p].outcome \in {"none", "rejected"}
           /\ call'[p].req = req /\ call'[p].attempt = attempt
           /\ call'[p].created = FALSE /\ call'[p].receipt = {}
           /\ UNCHANGED <<stores, sweep, faults>>
<1> DEFINE refused == req.profile = "CONFIGURATION" /\ req.document \in Rejected
           c == [pc |-> IF refused THEN "idle" ELSE "lookup", req |-> req,
                 attempt |-> attempt, outcome |-> IF refused THEN "rejected" ELSE "none",
                 created |-> FALSE, receipt |-> {}]
<1>1. call' = [call EXCEPT ![p] = c]
    BY DEF Enter
<1>2. c \in Calls
    BY BoundsAssumption DEF Calls, Steps, Outcomes
<1> HIDE DEF c
<1>3. call'[p] = c /\ OthersKeep(p) /\ call' \in [Publishers -> Calls]
    BY <1>1, <1>2 DEF CallTyped, OthersKeep
<1>4. c.attempt # 0
    BY BoundsAssumption DEF c
<1> QED
    BY <1>3, <1>4 DEF c, CallTyped, OthersKeep, Enter

\* GoTo changes the program counter of one call.
LEMMA GoToMoves ==
    ASSUME CallTyped, NEW p \in Publishers, NEW step \in Steps,
           call[p].attempt # 0, GoTo(p, step)
    PROVE  /\ CallTyped' /\ OthersKeep(p) /\ SameAttempt(p)
           /\ call'[p].pc = step
           /\ call'[p].outcome = call[p].outcome
           /\ call'[p].created = call[p].created
           /\ call'[p].receipt = call[p].receipt
<1> DEFINE c == [call[p] EXCEPT !.pc = step]
<1>1. call' = [call EXCEPT ![p] = c]
    BY DEF GoTo, CallTyped
<1>2. c \in Calls
    BY DEF CallTyped, Calls
<1>3. /\ c.pc = step /\ c.req = call[p].req /\ c.attempt = call[p].attempt
      /\ c.outcome = call[p].outcome /\ c.created = call[p].created
      /\ c.receipt = call[p].receipt
    BY DEF CallTyped, Calls
<1> HIDE DEF c
<1>4. call'[p] = c /\ OthersKeep(p) /\ call' \in [Publishers -> Calls]
    BY <1>1, <1>2 DEF CallTyped, OthersKeep
<1> QED
    BY <1>3, <1>4 DEF CallTyped, OthersKeep, SameAttempt

\* Return ends one call with an outcome and a receipt.
LEMMA ReturnMoves ==
    ASSUME CallTyped, NEW p \in Publishers, NEW outcome \in Outcomes,
           NEW receipt \in SUBSET MetadataRows, Return(p, outcome, receipt)
    PROVE  /\ CallTyped' /\ OthersKeep(p) /\ SameAttempt(p)
           /\ call'[p].pc = "idle"
           /\ call'[p].outcome = outcome
           /\ call'[p].created = call[p].created
           /\ call'[p].receipt = receipt
<1> DEFINE c == [call[p] EXCEPT !.pc = "idle", !.outcome = outcome, !.receipt = receipt]
<1>1. call' = [call EXCEPT ![p] = c]
    BY DEF Return, CallTyped
<1>2. c \in Calls
    BY DEF CallTyped, Calls, Steps
<1>3. /\ c.pc = "idle" /\ c.req = call[p].req /\ c.attempt = call[p].attempt
      /\ c.outcome = outcome /\ c.created = call[p].created /\ c.receipt = receipt
    BY DEF CallTyped, Calls
<1> HIDE DEF c
<1>4. call'[p] = c /\ OthersKeep(p) /\ call' \in [Publishers -> Calls]
    BY <1>1, <1>2 DEF CallTyped, OthersKeep
<1> QED
    BY <1>3, <1>4 DEF CallTyped, OthersKeep, SameAttempt

\* Raise ends one call without a receipt.
LEMMA RaiseMoves ==
    ASSUME CallTyped, NEW p \in Publishers, NEW outcome \in Outcomes, Raise(p, outcome)
    PROVE  /\ CallTyped' /\ OthersKeep(p) /\ SameAttempt(p)
           /\ call'[p].pc = "idle"
           /\ call'[p].outcome = outcome
           /\ call'[p].created = call[p].created
           /\ call'[p].receipt = {}
<1> QED
    BY ReturnMoves DEF Raise

\* BuildCandidate goes on to the transaction, or ends the call as rejected.
LEMMA BuildCandidateMoves ==
    ASSUME CallTyped, NEW p \in Publishers, call[p].attempt # 0,
           NEW created \in BOOLEAN, BuildCandidate(p, created)
    PROVE  /\ CallTyped' /\ OthersKeep(p) /\ SameAttempt(p)
           /\ \/ call'[p].pc = "idle" /\ call'[p].outcome = "rejected"
              \/ call'[p].pc = "put_resource" /\ call'[p].outcome = call[p].outcome
           /\ call'[p].created = created
           /\ call'[p].receipt = call[p].receipt
<1> DEFINE refused == call[p].req.document \in Rejected
           c == [call[p] EXCEPT !.pc = IF refused THEN "idle" ELSE "put_resource",
                                !.outcome = IF refused THEN "rejected" ELSE call[p].outcome,
                                !.created = created]
<1>1. call' = [call EXCEPT ![p] = c]
  <2>1. CASE refused
    BY <2>1 DEF BuildCandidate, CallTyped
  <2>2. CASE ~ refused
    <3>1. call' = [call EXCEPT ![p] = [call[p] EXCEPT !.pc = "put_resource", !.created = created]]
        BY <2>2 DEF BuildCandidate, CallTyped
    <3>2. c = [call[p] EXCEPT !.pc = "put_resource", !.created = created]
        BY <2>2 DEF CallTyped, Calls
    <3> QED
        BY <3>1, <3>2
  <2> QED
    BY <2>1, <2>2
<1>2. c \in Calls
    BY DEF CallTyped, Calls, Steps, Outcomes
<1>3. /\ c.req = call[p].req /\ c.attempt = call[p].attempt
      /\ \/ c.pc = "idle" /\ c.outcome = "rejected"
         \/ c.pc = "put_resource" /\ c.outcome = call[p].outcome
      /\ c.created = created /\ c.receipt = call[p].receipt
    BY DEF CallTyped, Calls
<1> HIDE DEF c
<1>4. call'[p] = c /\ OthersKeep(p) /\ call' \in [Publishers -> Calls]
    BY <1>1, <1>2 DEF CallTyped, OthersKeep
<1> QED
    BY <1>3, <1>4 DEF CallTyped, OthersKeep, SameAttempt

\* A failed second phase goes on to record_orphan, or ends the call.
LEMMA FailSecondPhaseMoves ==
    ASSUME CallTyped, NEW p \in Publishers, call[p].attempt # 0, FailSecondPhase(p)
    PROVE  /\ CallTyped' /\ OthersKeep(p) /\ SameAttempt(p)
           /\ \/ /\ call[p].req.profile = "ARTIFACT"
                 /\ call'[p].pc = "record_orphan" /\ call'[p].outcome = call[p].outcome
                 /\ call'[p].receipt = call[p].receipt
              \/ /\ call[p].req.profile # "ARTIFACT"
                 /\ call'[p].pc = "idle" /\ call'[p].outcome = "error"
                 /\ call'[p].receipt = {}
           /\ call'[p].created = call[p].created
<1>1. "record_orphan" \in Steps /\ "error" \in Outcomes
    BY DEF Steps, Outcomes, Retryable
<1> QED
    BY <1>1, GoToMoves, RaiseMoves DEF FailSecondPhase

\* A call that found a row ends with what SettleOn says of it.
LEMMA SettleOnFoundMoves ==
    ASSUME TypeOK, NEW p \in Publishers, SettleOnFound(p, RowsOf(metadata, call[p].req.id))
    PROVE  /\ CallTyped' /\ OthersKeep(p) /\ SameAttempt(p)
           /\ call'[p].pc = "idle"
           /\ call'[p].created = call[p].created
           /\ \E row \in RowsOf(metadata, call[p].req.id) :
                 /\ call'[p].outcome = SettleOn(call[p].req, row)
                 /\ call'[p].receipt =
                       IF SettleOn(call[p].req, row) = "idempotent" THEN {row} ELSE {}
<1>1. PICK row \in RowsOf(metadata, call[p].req.id) :
          Return(p, SettleOn(call[p].req, row),
                 IF SettleOn(call[p].req, row) = "idempotent" THEN {row} ELSE {})
    BY DEF SettleOnFound
<1>2. SettleOn(call[p].req, row) \in Outcomes
    BY DEF SettleOn, Outcomes, Succeeded
<1>3. row \in metadata /\ row \in MetadataRows /\ CallTyped
    BY DEF RowsOf, TypeOK, CallTyped
<1>4. (IF SettleOn(call[p].req, row) = "idempotent" THEN {row} ELSE {}) \in SUBSET MetadataRows
    BY <1>3
<1> HIDE DEF SettleOn
<1>5. /\ CallTyped' /\ OthersKeep(p) /\ SameAttempt(p)
      /\ call'[p].pc = "idle" /\ call'[p].created = call[p].created
      /\ call'[p].outcome = SettleOn(call[p].req, row)
      /\ call'[p].receipt = IF SettleOn(call[p].req, row) = "idempotent" THEN {row} ELSE {}
    BY <1>1, <1>2, <1>3, <1>4, ReturnMoves
<1> QED
    BY <1>5

\* Every step keeps the type.
LEMMA TypeNext == TypeOK /\ [Next]_vars => TypeOK'
<1> SUFFICES ASSUME TypeOK, [Next]_vars PROVE TypeOK'
    OBVIOUS
<1>0. CallTyped
    BY DEF TypeOK, CallTyped
<1>a. /\ Steps = {"idle", "lookup", "put_object", "stat", "put_resource",
                  "put_provenance", "commit", "winner", "record_orphan"}
      /\ {"none", "identity_conflict", "rejected", "published", "idempotent",
          "incomplete", "error", "crashed"} \subseteq Outcomes
    BY DEF Steps, Outcomes, Succeeded, Retryable
<1>b. ASSUME UNCHANGED <<stores, sweep>>, CallTyped', faults' \in 0 .. MaxFaults
      PROVE  TypeOK'
    BY <1>b DEF TypeOK, CallTyped, stores
<1>c. Fault => faults' \in 0 .. MaxFaults
    BY BoundsAssumption DEF Fault, TypeOK
<1>d. faults \in 0 .. MaxFaults
    BY DEF TypeOK
<1>e. \A p \in Publishers : call[p] \in Calls /\ call[p].req \in Requests
                            /\ call[p].req.id \in Resources
                            /\ call[p].req.content \in Contents
    BY RequestsAssumption DEF TypeOK, Calls, Request
<1>1. ASSUME NEW p \in Publishers, Begin(p) PROVE TypeOK'
  <2>1. 1 \in 1 .. MaxAttempts
    BY BoundsAssumption
  <2>2. PICK req \in Requests : Enter(p, req, 1)
    BY <1>1 DEF Begin
  <2> QED
    BY <1>0, <2>1, <2>2, <1>b, <1>d, EnterMoves
<1>2. ASSUME NEW p \in Publishers, Retry(p) PROVE TypeOK'
  <2>1. call[p].req \in Requests /\ call[p].attempt + 1 \in 1 .. MaxAttempts
    BY <1>2, BoundsAssumption DEF Retry, TypeOK, Calls
  <2> QED
    BY <1>0, <1>2, <1>b, <1>d, <2>1, EnterMoves DEF Retry
<1>3. ASSUME NEW p \in Publishers, Lookup(p) PROVE TypeOK'
    BY <1>0, <1>3, <1>a, <1>b, <1>d, SettleOnFoundMoves, GoToMoves DEF Lookup, At, CallTyped
<1>4. ASSUME NEW p \in Publishers, PutObject(p) PROVE TypeOK'
  <2>1. CallTyped'
    BY <1>0, <1>4, <1>a, BuildCandidateMoves, GoToMoves DEF PutObject, At, CallTyped
  <2>2. objects' \subseteq ObjectRows
    <3>1. ObjectOf(call[p].req) \in ObjectRows
        BY <1>e DEF ObjectOf, ObjectRows
    <3> QED
        BY <1>4, <3>1 DEF PutObject, TypeOK
  <2> QED
    BY <1>4, <2>1, <2>2 DEF TypeOK, CallTyped, PutObject, tables
<1>5. ASSUME NEW p \in Publishers, StatObject(p) PROVE TypeOK'
    BY <1>0, <1>5, <1>a, <1>b, <1>d, BuildCandidateMoves, RaiseMoves DEF StatObject, At, CallTyped
<1>6. ASSUME NEW p \in Publishers, PutResource(p) PROVE TypeOK'
    BY <1>0, <1>6, <1>a, <1>b, <1>d, GoToMoves DEF PutResource, At, CallTyped
<1>7. ASSUME NEW p \in Publishers, PutProvenance(p) PROVE TypeOK'
    BY <1>0, <1>7, <1>a, <1>b, <1>d, GoToMoves DEF PutProvenance, At, CallTyped
<1>f. ASSUME NEW p \in Publishers, call[p].pc # "idle"
      PROVE  /\ Candidate(p) \in MetadataRows
             /\ ProvenanceRecords(Candidate(p)) \subseteq ProvenanceRows
    BY <1>f, RequestsAssumption, BoundsAssumption
    DEF TypeOK, Calls, Request, Candidate, MetadataRows, Stamps, ProvenanceRecords, ProvenanceRows
<1>8. ASSUME NEW p \in Publishers, Commit(p) PROVE TypeOK'
  <2>1. CallTyped'
    BY <1>0, <1>8, <1>a, <1>f, ReturnMoves, GoToMoves DEF Commit, At, CallTyped
  <2>2. metadata' \subseteq MetadataRows /\ provenance' \subseteq ProvenanceRows
    BY <1>8, <1>f DEF Commit, At, CommitRows, TypeOK
  <2> QED
    BY <1>8, <2>1, <2>2 DEF TypeOK, CallTyped, Commit
<1>9. ASSUME NEW p \in Publishers, Winner(p) PROVE TypeOK'
    BY <1>0, <1>9, <1>b, <1>d, SettleOnFoundMoves, FailSecondPhaseMoves DEF Winner, At, CallTyped
<1>10. ASSUME NEW p \in Publishers, RecordOrphan(p) PROVE TypeOK'
  <2>1. CallTyped'
    BY <1>0, <1>10, <1>a, RaiseMoves DEF RecordOrphan
  <2>2. orphans' \subseteq OrphanRows
    BY <1>10, <1>e DEF RecordOrphan, PutOrphan, CandidateOrphan, OrphanRows, OrphanStates, TypeOK
  <2> QED
    BY <1>10, <2>1, <2>2 DEF TypeOK, CallTyped, RecordOrphan
<1>11. ASSUME NEW p \in Publishers, PublishFault(p) PROVE TypeOK'
  <2>1. CASE RemoteFailure(p)
    BY <1>0, <2>1, <1>a, <1>b, <1>c, RaiseMoves, FailSecondPhaseMoves
    DEF RemoteFailure, At, CallTyped
  <2>2. CASE LostPutObject(p)
    <3>1. CallTyped'
        BY <1>0, <2>2, <1>a, RaiseMoves DEF LostPutObject
    <3>2. objects' \subseteq ObjectRows
        BY <2>2, <1>e DEF LostPutObject, ObjectOf, ObjectRows, TypeOK
    <3> QED
        BY <2>2, <3>1, <3>2, <1>c DEF TypeOK, CallTyped, LostPutObject, tables
  <2>3. CASE LostCommit(p)
    <3>1. CallTyped'
        BY <1>0, <2>3, FailSecondPhaseMoves DEF LostCommit, At, CallTyped
    <3>2. metadata' \subseteq MetadataRows /\ provenance' \subseteq ProvenanceRows
        BY <2>3, <1>f DEF LostCommit, At, CommitRows, TypeOK
    <3> QED
        BY <2>3, <3>1, <3>2, <1>c DEF TypeOK, CallTyped, LostCommit
  <2>4. CASE SpuriousConflict(p)
    BY <1>0, <2>4, <1>a, <1>b, <1>c, GoToMoves DEF SpuriousConflict, CallTyped
  <2>5. CASE MismatchedPut(p)
    BY <1>0, <2>5, <1>a, <1>b, <1>c, RaiseMoves DEF MismatchedPut
  <2>6. CASE Crash(p)
    BY <1>0, <2>6, <1>a, <1>b, <1>c, RaiseMoves DEF Crash
  <2> QED
    BY <1>11, <2>1, <2>2, <2>3, <2>4, <2>5, <2>6 DEF PublishFault
<1>12. ASSUME NEW s \in Sweepers, SweepStep(s) \/ SweepFails(s) PROVE TypeOK'
  <2>1. CASE DiscoverPage(s)
    <3>1. PICK page \in SUBSET objects :
              sweep' = [sweep EXCEPT ![s] =
                  [listed  |-> IF page = objects \ sweep[s].listed THEN {}
                               ELSE sweep[s].listed \union page,
                   page    |-> page, suspect |-> {}]]
        BY <2>1 DEF DiscoverPage
    <3>2. sweep' \in [Sweepers -> Sweeps]
        BY <3>1 DEF TypeOK, Sweeps
    <3> QED
        BY <2>1, <3>2 DEF DiscoverPage, TypeOK, stores
  <2>2. CASE Inspect(s)
    <3>1. PICK item \in sweep[s].page :
              sweep' = [sweep EXCEPT ![s] = [sweep[s] EXCEPT
                  !.page = sweep[s].page \ {item},
                  !.suspect = IF RowsOf(metadata, item.id) = {} THEN {item} ELSE {}]]
        BY <2>2 DEF Inspect, TypeOK
    <3>2. sweep' \in [Sweepers -> Sweeps]
        BY <3>1 DEF TypeOK, Sweeps
    <3> QED
        BY <2>2, <3>2 DEF Inspect, TypeOK, stores
  <2>3. CASE RecordSuspect(s)
    <3>1. sweep' \in [Sweepers -> Sweeps]
        BY <2>3 DEF RecordSuspect, TypeOK, Sweeps
    <3>2. orphans' \subseteq OrphanRows
        BY <2>3 DEF RecordSuspect, PutOrphan, CandidateOrphan, OrphanRows, OrphanStates,
                    ObjectRows, Sweeps, TypeOK
    <3> QED
        BY <2>3, <3>1, <3>2 DEF RecordSuspect, TypeOK
  <2>4. CASE SweepFails(s)
    <3>1. sweep' \in [Sweepers -> Sweeps]
        BY <2>4 DEF SweepFails, TypeOK, Sweeps
    <3> QED
        BY <2>4, <3>1, <1>c DEF SweepFails, TypeOK, stores
  <2> QED
    BY <1>12, <2>1, <2>2, <2>3, <2>4 DEF SweepStep
<1>13. CASE UNCHANGED vars
    BY <1>13 DEF vars, TypeOK
<1> QED
    BY <1>1, <1>2, <1>3, <1>4, <1>5, <1>6, <1>7, <1>8, <1>9, <1>10, <1>11, <1>12, <1>13
    DEF Next, PublishStep

\* Every table, call and sweep keeps its type, whatever the Catalogs answer.
THEOREM TypeCorrect == Spec => []TypeOK
<1> QED
    BY TypeInit, TypeNext, PTL DEF Spec

--------------------------------------------------------------------------------
(* What a step does to the tables. *)

\* put_orphan adds at most the candidate, and leaves one for its Object.
LEMMA PutOrphanAdds ==
    ASSUME NEW req, NEW state
    PROVE  /\ orphans \subseteq PutOrphan(req, state)
           /\ \A row \in PutOrphan(req, state) :
                  row \in orphans \/ (row.id = req.id /\ row.content = req.content)
           /\ \E row \in PutOrphan(req, state) : row.id = req.id /\ row.content = req.content
<1>1. CandidateOrphan(req, state).id = req.id /\ CandidateOrphan(req, state).content = req.content
    BY DEF CandidateOrphan
<1>2. CASE \E row \in orphans : row.id = req.id /\ row.content = req.content
    BY <1>2 DEF PutOrphan
<1>3. CASE ~ \E row \in orphans : row.id = req.id /\ row.content = req.content
  <2>1. PutOrphan(req, state) = orphans \union {CandidateOrphan(req, state)}
    BY <1>3 DEF PutOrphan
  <2> QED
    BY <1>1, <2>1
<1> QED
    BY <1>2, <1>3

TablesStep ==
    /\ \/ UNCHANGED <<metadata, provenance>>
       \/ \E p \in Publishers :
              /\ At(p, "commit") /\ ~ CommitConflicts(p) /\ CommitRows(p)
              /\ UNCHANGED <<objects, orphans>>
    /\ \/ UNCHANGED objects
       \/ \E p \in Publishers :
              /\ RowsOf(objects, call[p].req.id) = {}
              /\ objects' = objects \union {ObjectOf(call[p].req)}
    /\ \/ UNCHANGED orphans
       \/ \E p \in Publishers :
              At(p, "record_orphan") /\ orphans' = PutOrphan(call[p].req, "RECORDED")
       \/ \E s \in Sweepers : \E item \in sweep[s].suspect :
              orphans' = PutOrphan(item, "DISCOVERED")

\* Every step moves the tables in one of the ways of TablesStep.
LEMMA TablesMove == [Next]_vars => TablesStep
<1> SUFFICES ASSUME [Next]_vars PROVE TablesStep
    OBVIOUS
<1> USE DEF TablesStep, stores, tables
<1>1. ASSUME NEW p \in Publishers, Begin(p) \/ Retry(p) PROVE TablesStep
    BY <1>1 DEF Begin, Retry, Enter
<1>2. ASSUME NEW p \in Publishers, Lookup(p) \/ StatObject(p) \/ PutResource(p)
                                   \/ PutProvenance(p) \/ Winner(p)
      PROVE TablesStep
    BY <1>2 DEF Lookup, StatObject, PutResource, PutProvenance, Winner
<1>3. ASSUME NEW p \in Publishers, PutObject(p) PROVE TablesStep
    BY <1>3 DEF PutObject
<1>4. ASSUME NEW p \in Publishers, Commit(p) PROVE TablesStep
    BY <1>4 DEF Commit
<1>5. ASSUME NEW p \in Publishers, RecordOrphan(p) PROVE TablesStep
    BY <1>5 DEF RecordOrphan
<1>6. ASSUME NEW p \in Publishers, LostPutObject(p) PROVE TablesStep
    BY <1>6 DEF LostPutObject
<1>7. ASSUME NEW p \in Publishers, LostCommit(p) PROVE TablesStep
    BY <1>7 DEF LostCommit
<1>8. ASSUME NEW p \in Publishers, RemoteFailure(p) \/ SpuriousConflict(p)
                                   \/ MismatchedPut(p) \/ Crash(p)
      PROVE TablesStep
    BY <1>8 DEF RemoteFailure, SpuriousConflict, MismatchedPut, Crash
<1>9. ASSUME NEW s \in Sweepers, SweepStep(s) \/ SweepFails(s) PROVE TablesStep
    BY <1>9 DEF SweepStep, SweepFails, DiscoverPage, Inspect, RecordSuspect
<1>10. CASE UNCHANGED vars
    BY <1>10 DEF vars
<1> QED
    BY <1>1, <1>2, <1>3, <1>4, <1>5, <1>6, <1>7, <1>8, <1>9, <1>10
    DEF Next, PublishStep, PublishFault

\* No step removes a row.
LEMMA TablesGrow ==
    TablesStep => /\ metadata \subseteq metadata'  /\ provenance \subseteq provenance'
                  /\ objects \subseteq objects'    /\ orphans \subseteq orphans'
<1> QED
    BY DEF TablesStep, CommitRows, PutOrphan

\* Committed metadata, provenance, Objects and orphan candidates are immutable.
THEOREM Immutability == Spec => NothingRewritten
<1>1. [Next]_vars => [/\ metadata \subseteq metadata'  /\ provenance \subseteq provenance'
                      /\ objects \subseteq objects'    /\ orphans \subseteq orphans']_vars
    BY TablesMove, TablesGrow
<1> QED
    BY <1>1, PTL DEF Spec, NothingRewritten

--------------------------------------------------------------------------------
(* The tables agree with one another. *)

TablesAgree == UniqueIdentity /\ ProvenanceAtomic

\* The tables agree when they are empty.
LEMMA TablesAgreeInit == Init => TablesAgree
<1> QED
    BY DEF Init, TablesAgree, UniqueIdentity, ProvenanceAtomic

\* The provenance of one more metadata row.
LEMMA ProvenanceOfUnion ==
    ASSUME NEW table, NEW new
    PROVE  UNION {ProvenanceRecords(row) : row \in table \union {new}}
           = (UNION {ProvenanceRecords(row) : row \in table}) \union ProvenanceRecords(new)
<1> DEFINE Of(t) == UNION {ProvenanceRecords(row) : row \in t}
<1>1. ASSUME NEW record \in Of(table \union {new})
      PROVE  record \in Of(table) \union ProvenanceRecords(new)
  <2>1. PICK row \in table \union {new} : record \in ProvenanceRecords(row)
    OBVIOUS
  <2> QED
    BY <2>1
<1>2. ASSUME NEW record \in Of(table) PROVE record \in Of(table \union {new})
    OBVIOUS
<1>3. ASSUME NEW record \in ProvenanceRecords(new) PROVE record \in Of(table \union {new})
    OBVIOUS
<1> HIDE DEF Of
<1>4. Of(table \union {new}) = Of(table) \union ProvenanceRecords(new)
    BY <1>1, <1>2, <1>3
<1> QED
    BY <1>4 DEF Of

\* A commit adds its row's provenance to the table.
LEMMA CommittedProvenance ==
    ASSUME NEW p \in Publishers, ProvenanceAtomic, CommitRows(p)
    PROVE  ProvenanceAtomic'
<1>1. provenance' = UNION {ProvenanceRecords(row) : row \in metadata \union {Candidate(p)}}
    BY ProvenanceOfUnion DEF CommitRows, ProvenanceAtomic
<1>2. metadata' = metadata \union {Candidate(p)}
    BY DEF CommitRows
<1>3. provenance' = UNION {ProvenanceRecords(row) : row \in metadata'}
    BY <1>1, <1>2
<1> QED
    BY <1>3 DEF ProvenanceAtomic

\* Every step keeps the tables in agreement.
LEMMA TablesAgreeNext == TypeOK /\ TablesAgree /\ TablesStep => TablesAgree'
<1> SUFFICES ASSUME TypeOK, TablesAgree, TablesStep PROVE TablesAgree'
    OBVIOUS
<1>1. ProvenanceAtomic'
  <2>1. CASE UNCHANGED <<metadata, provenance>>
    BY <2>1 DEF TablesAgree, ProvenanceAtomic
  <2>2. CASE \E p \in Publishers : CommitRows(p)
    BY <2>2, CommittedProvenance DEF TablesAgree
  <2> QED
    BY <2>1, <2>2 DEF TablesStep
<1>2. \A left, right \in metadata' : left.id = right.id => left = right
  <2>1. CASE UNCHANGED metadata
    BY <2>1 DEF TablesAgree, UniqueIdentity
  <2>2. ASSUME NEW p \in Publishers, ~ CommitConflicts(p), CommitRows(p)
        PROVE  \A left, right \in metadata' : left.id = right.id => left = right
    <3>1. \A row \in metadata : row.id # Candidate(p).id
        BY <2>2 DEF CommitConflicts, RowsOf, Candidate
    <3> QED
        BY <2>2, <3>1 DEF CommitRows, TablesAgree, UniqueIdentity
  <2> QED
    BY <2>1, <2>2 DEF TablesStep
<1>3. \A left, right \in provenance' : left.id = right.id => left = right
  <2>1. CASE UNCHANGED provenance
    BY <2>1 DEF TablesAgree, UniqueIdentity
  <2>2. ASSUME NEW p \in Publishers, ~ CommitConflicts(p), CommitRows(p)
        PROVE  \A left, right \in provenance' : left.id = right.id => left = right
    <3>1. \A left, right \in provenance : left.id = right.id => left = right
        BY DEF TablesAgree, UniqueIdentity
    <3>2. \A left, right \in ProvenanceRecords(Candidate(p)) : left = right
        BY DEF ProvenanceRecords
    <3>3. \A left \in provenance, right \in ProvenanceRecords(Candidate(p)) : left.id # right.id
        BY <2>2 DEF CommitConflicts, RowsOf, ProvenanceRecords, Candidate
    <3>4. provenance' = provenance \union ProvenanceRecords(Candidate(p))
        BY <2>2 DEF CommitRows
    <3> QED
        BY <3>1, <3>2, <3>3, <3>4
  <2> QED
    BY <2>1, <2>2 DEF TablesStep
<1>4. \A left, right \in objects' : left.id = right.id => left = right
    BY DEF TablesAgree, UniqueIdentity, TablesStep, RowsOf, ObjectOf
<1> QED
    BY <1>1, <1>2, <1>3, <1>4 DEF TablesAgree, UniqueIdentity

\* One logical identity, one version: in every table, whatever races.
THEOREM IdentityUnique == Spec => []UniqueIdentity
<1>1. Init => TypeOK /\ TablesAgree
    BY TypeInit, TablesAgreeInit
<1>2. TypeOK /\ TablesAgree /\ [Next]_vars => (TypeOK /\ TablesAgree)'
    BY TypeNext, TablesMove, TablesAgreeNext
<1>3. TablesAgree => UniqueIdentity
    BY DEF TablesAgree
<1> QED
    BY <1>1, <1>2, <1>3, PTL DEF Spec

\* Metadata and provenance are committed together or not at all.
THEOREM ProvenanceCommitted == Spec => []ProvenanceAtomic
<1>1. Init => TypeOK /\ TablesAgree
    BY TypeInit, TablesAgreeInit
<1>2. TypeOK /\ TablesAgree /\ [Next]_vars => (TypeOK /\ TablesAgree)'
    BY TypeNext, TablesMove, TablesAgreeNext
<1>3. TablesAgree => ProvenanceAtomic
    BY DEF TablesAgree
<1> QED
    BY <1>1, <1>2, <1>3, PTL DEF Spec

--------------------------------------------------------------------------------
(* What a call relies on, and what it has returned. *)

\* The properties of Publication that speak of one call, for that call.
CallSound(p) ==
    LET c == call[p]
    IN  /\ c.outcome \in Succeeded => c.receipt # {}
        /\ \A row \in c.receipt : row \in metadata /\ Requested(row) = c.req
        /\ c.outcome = "published" =>
               c.receipt = {row \in metadata : row.created = <<p, c.attempt>>}
        /\ c.outcome = "identity_conflict" =>
               \/ \E row \in RowsOf(metadata, c.req.id) : Requested(row) # c.req
               \/ /\ c.req.profile = "ARTIFACT"
                  /\ \/ \E object \in RowsOf(objects, c.req.id) :
                            object.content # c.req.content
                     \/ faults >= 1
        /\ c.outcome \in Retryable => faults >= 1
        /\ c.outcome = "incomplete" => HasOrphanRow(ObjectOf(c.req)) \/ faults >= 2

CallsSound == \A p \in Publishers : CallSound(p)

\* CallsSound gives the properties that callers see.
LEMMA CallsSoundMeans ==
    CallsSound => /\ ReceiptTruthful /\ OnlyTheWriterPublishes /\ ConflictIsReal
                  /\ FailuresNeedFaults /\ IncompleteLeavesEvidence
<1> QED
    BY DEF CallsSound, CallSound, ReceiptTruthful, OnlyTheWriterPublishes, ConflictIsReal,
           FailuresNeedFaults, IncompleteLeavesEvidence

IInv == TypeOK /\ TablesAgree /\ InStep /\ CallsSound

\* Frame: a step of somebody else.
LEMMA OthersUndisturbed ==
    ASSUME TypeOK, TypeOK', TablesStep, NEW q \in Publishers, call'[q] = call[q],
           faults' >= faults, CallInStep(q), CallSound(q),
           \A row \in metadata' : row \in metadata \/ row.created[1] # q
    PROVE  CallInStep(q)' /\ CallSound(q)'
<1>1. /\ metadata \subseteq metadata' /\ objects \subseteq objects' /\ orphans \subseteq orphans'
    BY TablesGrow
<1>2. faults \in Nat /\ faults' \in Nat
    BY BoundsAssumption DEF TypeOK
<1>3. \A id : /\ RowsOf(metadata, id) \subseteq RowsOf(metadata', id)
              /\ RowsOf(objects, id) \subseteq RowsOf(objects', id)
    BY <1>1 DEF RowsOf
<1>4. CallInStep(q)'
    BY <1>1, <1>2, <1>3 DEF CallInStep, ObjectOf, RowsOf
<1>5. {row \in metadata : row.created = <<q, call[q].attempt>>}
      = {row \in metadata' : row.created = <<q, call[q].attempt>>}
    BY <1>1
<1>6. CallSound(q)'
  <2>1. HasOrphanRow(ObjectOf(call[q].req)) => HasOrphanRow(ObjectOf(call[q].req))'
    BY <1>1 DEF HasOrphanRow, ObjectOf
  <2> QED
    BY <1>1, <1>2, <1>3, <1>5, <2>1 DEF CallSound, Requested, RowsOf
<1> QED
    BY <1>4, <1>6

\* The steps of a call that return or raise leave nothing to rely on.
LEMMA AfterReturn ==
    ASSUME TypeOK, TypeOK', NEW p \in Publishers, CallInStep(p), SameAttempt(p),
           call'[p].pc = "idle",
           \A row \in metadata' : row \in metadata \/ row.created = <<p, call[p].attempt>>
    PROVE  CallInStep(p)'
<1>1. call[p].attempt \in Nat
    BY BoundsAssumption DEF TypeOK, Calls
<1> QED
    BY <1>1 DEF CallInStep, SameAttempt

\* What is to show of a call that raises.
LEMMA AfterRaise ==
    ASSUME TypeOK, TypeOK', TablesStep, NEW p \in Publishers, CallInStep(p), SameAttempt(p),
           faults' >= 1, faults' >= faults, call[p].pc # "idle",
           call'[p].pc = "idle", call'[p].receipt = {},
           \/ call'[p].outcome \in {"error", "crashed"}
           \/ call'[p].outcome = "identity_conflict" /\ call[p].req.profile = "ARTIFACT"
           \/ call'[p].outcome = "incomplete" /\ faults' >= 2
    PROVE  CallSound(p)'
<1> QED
    BY DEF CallSound, SameAttempt, Succeeded, Retryable

\* What a step of publisher p does to p and to what others read.
StepOf(p) ==
    /\ CallInStep(p)' /\ CallSound(p)'
    /\ OthersKeep(p) /\ UNCHANGED sweep /\ faults' >= faults
    /\ \A row \in metadata' : row \in metadata \/ row.created = <<p, call[p].attempt>>

\* One step of a publisher, action by action, keeps its call in step and sound.
LEMMA PublisherSteps ==
    ASSUME IInv, [Next]_vars, NEW p \in Publishers,
           Begin(p) \/ Retry(p) \/ PublishStep(p) \/ PublishFault(p)
    PROVE  StepOf(p)
<1>0. /\ TypeOK /\ TypeOK' /\ TablesAgree /\ CallTyped /\ TablesStep
      /\ CallInStep(p) /\ CallSound(p)
    BY TypeNext, TablesMove DEF IInv, InStep, CallsSound, CallTyped, TypeOK
<1>1. /\ faults \in Nat /\ faults' \in Nat /\ call[p].attempt \in Nat
      /\ metadata \subseteq metadata' /\ objects \subseteq objects'
    BY <1>0, TablesGrow, BoundsAssumption DEF TypeOK, Calls
<1>2. Fault => faults' = faults + 1
    BY DEF Fault
<1>a. /\ Steps = {"idle", "lookup", "put_object", "stat", "put_resource",
                  "put_provenance", "commit", "winner", "record_orphan"}
      /\ {"none", "identity_conflict", "rejected", "published", "idempotent",
          "incomplete", "error", "crashed"} \subseteq Outcomes
      /\ Succeeded = {"published", "idempotent"}
      /\ Retryable = {"incomplete", "error", "crashed"}
    BY DEF Steps, Outcomes, Succeeded, Retryable
<1>b. RowsOf(metadata, call[p].req.id) # {} <=> \E row \in metadata : row.id = call[p].req.id
    BY DEF RowsOf
<1>j. ASSUME NEW req \in Requests, NEW attempt \in 1 .. MaxAttempts,
             attempt > call[p].attempt, Enter(p, req, attempt)
      PROVE  StepOf(p)
  <2>1. /\ OthersKeep(p) /\ call'[p].pc \in {"idle", "lookup"}
        /\ call'[p].outcome \in {"none", "rejected"}
        /\ call'[p].attempt = attempt /\ call'[p].receipt = {}
        /\ UNCHANGED <<stores, sweep, faults>>
    BY <1>j, <1>0, EnterMoves
  <2>2. call'[p].pc # "idle" => call'[p].outcome = "none"
    BY <1>j, <1>0 DEF Enter, CallTyped
  <2>3. ASSUME NEW row \in metadata
        PROVE  /\ row.created # <<p, attempt>>
               /\ row.created[1] = p => row.created[2] <= attempt
    <3>1. row.created[2] \in Nat /\ attempt \in Nat
        BY <1>0, BoundsAssumption DEF TypeOK, MetadataRows, Stamps
    <3>2. row.created[1] = p => row.created[2] <= call[p].attempt
        BY <1>0 DEF CallInStep
    <3> QED
        BY <3>1, <3>2, <1>j, <1>1
  <2>4. CallInStep(p)'
    BY <2>1, <2>2, <2>3 DEF CallInStep, stores
  <2>5. CallSound(p)'
    BY <2>1, <1>a DEF CallSound
  <2> QED
    BY <2>1, <2>4, <2>5, <1>1 DEF StepOf, stores
<1>3. ASSUME Begin(p) PROVE StepOf(p)
  <2>1. PICK req \in Requests : Enter(p, req, 1)
    BY <1>3 DEF Begin
  <2>2. 1 \in 1 .. MaxAttempts /\ 1 > call[p].attempt
    BY <1>3, BoundsAssumption DEF Begin
  <2> QED
    BY <2>1, <2>2, <1>j
<1>4. ASSUME Retry(p) PROVE StepOf(p)
  <2>1. call[p].req \in Requests /\ call[p].attempt + 1 \in 1 .. MaxAttempts
    BY <1>4, BoundsAssumption DEF Retry, TypeOK, Calls, IInv
  <2>2. Enter(p, call[p].req, call[p].attempt + 1)
    BY <1>4 DEF Retry
  <2> QED
    BY <2>1, <2>2, <1>1, <1>j
<1>c. ASSUME SettleOnFound(p, RowsOf(metadata, call[p].req.id)),
             UNCHANGED <<stores, sweep, faults>>, call[p].pc # "idle"
      PROVE  StepOf(p)
  <2>1. /\ OthersKeep(p) /\ SameAttempt(p) /\ call'[p].pc = "idle"
    BY <1>c, <1>0, SettleOnFoundMoves
  <2>2. PICK row \in RowsOf(metadata, call[p].req.id) :
            /\ call'[p].outcome = SettleOn(call[p].req, row)
            /\ call'[p].receipt =
                  IF SettleOn(call[p].req, row) = "idempotent" THEN {row} ELSE {}
    BY <1>c, <1>0, SettleOnFoundMoves
  <2>3. row \in metadata' /\ row \in MetadataRows /\ call[p].req \in Request
        /\ row.id = call[p].req.id
    BY <1>0, <1>1, RequestsAssumption DEF RowsOf, TypeOK, Calls
  <2>4. /\ SettleOn(call[p].req, row) \in {"idempotent", "rejected", "identity_conflict"}
        /\ SettleOn(call[p].req, row) = "idempotent" => Requested(row) = call[p].req
        /\ SettleOn(call[p].req, row) = "identity_conflict" => Requested(row) # call[p].req
    BY <2>3 DEF SettleOn, SamePublication, SameContent, Requested, MetadataRows, Request
  <2>5. CallInStep(p)'
    BY <2>1, <1>0, <1>c, AfterReturn DEF stores
  <2>6. CallSound(p)'
    BY <2>1, <2>2, <2>3, <2>4, <1>a DEF CallSound, SameAttempt, RowsOf, Requested
  <2> QED
    BY <1>c, <1>1, <2>1, <2>5, <2>6 DEF StepOf, stores
<1>d. ASSUME NEW step \in Steps, GoTo(p, step), call[p].pc # "idle",
             UNCHANGED <<stores, sweep>>, faults' >= faults, CallInStep(p)'
      PROVE  StepOf(p)
  <2>1. OthersKeep(p) /\ SameAttempt(p) /\ call'[p].outcome = "none" /\ call'[p].receipt = {}
    BY <1>d, <1>0, GoToMoves DEF CallTyped, CallInStep
  <2> QED
    BY <1>d, <1>0, <1>a, <2>1 DEF StepOf, CallSound, stores
<1>5. ASSUME Lookup(p) PROVE StepOf(p)
  <2>1. CASE RowsOf(metadata, call[p].req.id) # {}
    BY <2>1, <1>5, <1>c DEF Lookup, At
  <2>2. CASE RowsOf(metadata, call[p].req.id) = {}
    <3>1. PICK step \in {"put_object", "put_resource"} :
              GoTo(p, step) /\ (step = "put_object" <=> call[p].req.profile = "ARTIFACT")
        BY <2>2, <1>5 DEF Lookup
    <3>2. CallInStep(p)'
        BY <1>5, <3>1, <1>0, <1>a, GoToMoves DEF Lookup, At, CallTyped, CallInStep, SameAttempt, stores
    <3> QED
        BY <1>5, <3>1, <3>2, <1>a, <1>d, <1>1 DEF Lookup, At
  <2> QED
    BY <2>1, <2>2
<1>e. ASSUME NEW created \in BOOLEAN, BuildCandidate(p, created),
             call[p].pc \in {"put_object", "stat"}, ObjectOf(call[p].req) \in objects',
             UNCHANGED <<tables, sweep, faults>>
      PROVE  StepOf(p)
  <2>1. /\ OthersKeep(p) /\ SameAttempt(p) /\ call'[p].receipt = {}
        /\ \/ call'[p].pc = "idle" /\ call'[p].outcome = "rejected"
           \/ call'[p].pc = "put_resource" /\ call'[p].outcome = "none"
    BY <1>e, <1>0, BuildCandidateMoves DEF CallTyped, CallInStep
  <2>2. CallInStep(p)'
    BY <2>1, <1>e, <1>0 DEF CallInStep, SameAttempt, tables, ObjectOf
  <2> QED
    BY <2>1, <2>2, <1>e, <1>1, <1>a DEF StepOf, CallSound, tables
<1>6. ASSUME PutObject(p) PROVE StepOf(p)
  <2>1. CASE RowsOf(objects, call[p].req.id) = {}
    BY <2>1, <1>6, <1>e DEF PutObject, At
  <2>2. CASE RowsOf(objects, call[p].req.id) # {}
    <3>1. GoTo(p, "stat") /\ UNCHANGED <<stores, sweep, faults>> /\ At(p, "put_object")
        BY <2>2, <1>6 DEF PutObject, stores, tables
    <3>2. CallInStep(p)'
        BY <3>1, <2>2, <1>0, <1>a, GoToMoves DEF At, CallTyped, CallInStep, SameAttempt, stores, RowsOf
    <3> QED
        BY <3>1, <3>2, <1>a, <1>d, <1>1 DEF At
  <2> QED
    BY <2>1, <2>2
<1>7. ASSUME StatObject(p) PROVE StepOf(p)
  <2>1. CASE ObjectOf(call[p].req) \in objects
    BY <2>1, <1>7, <1>e DEF StatObject, At, stores, tables
  <2>2. CASE ObjectOf(call[p].req) \notin objects
    <3>1. /\ Raise(p, "identity_conflict") /\ UNCHANGED <<stores, sweep, faults>>
          /\ call[p].pc = "stat" /\ call[p].req.profile = "ARTIFACT"
        BY <2>2, <1>7, <1>0 DEF StatObject, At, CallInStep
    <3>2. PICK object \in objects : object.id = call[p].req.id
        BY <3>1, <1>0 DEF CallInStep, RowsOf
    <3>3. object.content # call[p].req.content
        BY <2>2, <3>2, <1>0 DEF ObjectOf, TypeOK, ObjectRows
    <3>4. /\ OthersKeep(p) /\ SameAttempt(p) /\ call'[p].pc = "idle" /\ call'[p].receipt = {}
          /\ call'[p].outcome = "identity_conflict"
        BY <3>1, <1>0, <1>a, RaiseMoves
    <3>5. CallInStep(p)'
        BY <3>1, <3>4, <1>0, AfterReturn DEF stores
    <3>6. CallSound(p)'
        BY <3>1, <3>2, <3>3, <3>4, <1>a DEF CallSound, SameAttempt, RowsOf, stores
    <3> QED
        BY <3>1, <3>4, <3>5, <3>6, <1>1 DEF StepOf, stores
  <2> QED
    BY <2>1, <2>2
<1>f. RowsOf(provenance, call[p].req.id) # {} => RowsOf(metadata, call[p].req.id) # {}
  <2>1. ASSUME NEW record \in provenance, record.id = call[p].req.id
        PROVE  \E row \in metadata : row.id = call[p].req.id
    <3>1. PICK row \in metadata : record \in ProvenanceRecords(row)
        BY <1>0 DEF TablesAgree, ProvenanceAtomic
    <3> QED
        BY <2>1, <3>1 DEF ProvenanceRecords
  <2> QED
    BY <2>1 DEF RowsOf
<1>g. ASSUME NEW step \in {"put_provenance", "commit", "winner"}, GoTo(p, step),
             call[p].pc \in {"put_resource", "put_provenance", "commit"},
             step = "winner" => RowsOf(metadata, call[p].req.id) # {} \/ faults' >= 1,
             step = "put_provenance" => call[p].pc = "put_resource",
             UNCHANGED <<stores, sweep>>, faults' >= faults
      PROVE  StepOf(p)
  <2>1. CallInStep(p)'
    BY <1>g, <1>0, <1>a, GoToMoves DEF CallTyped, CallInStep, SameAttempt, stores, RowsOf, ObjectOf
  <2> QED
    BY <2>1, <1>g, <1>a, <1>d
<1>8. ASSUME PutResource(p) PROVE StepOf(p)
    BY <1>8, <1>g, <1>1 DEF PutResource, At
<1>9. ASSUME PutProvenance(p) PROVE StepOf(p)
    BY <1>9, <1>f, <1>g, <1>1 DEF PutProvenance, At
<1>10. ASSUME Commit(p) PROVE StepOf(p)
  <2>1. CASE CommitConflicts(p)
    BY <2>1, <1>10, <1>f, <1>g, <1>1 DEF Commit, At, CommitConflicts, stores
  <2>2. CASE ~ CommitConflicts(p)
    <3>1. PICK outcome \in Succeeded :
              Return(p, outcome, {Candidate(p)}) /\ call[p].pc = "commit"
        BY <2>2, <1>10, <1>a DEF Commit, At
    <3>2. metadata' = metadata \union {Candidate(p)} /\ UNCHANGED <<orphans, objects, sweep, faults>>
        BY <2>2, <1>10 DEF Commit, CommitRows
    <3>3. Candidate(p) \in metadata' /\ Candidate(p) \in MetadataRows
        BY <3>2, <1>0 DEF TypeOK
    <3>4. /\ OthersKeep(p) /\ SameAttempt(p) /\ call'[p].pc = "idle"
          /\ call'[p].receipt = {Candidate(p)} /\ call'[p].outcome = outcome
        BY <3>1, <3>3, <1>0, <1>a, ReturnMoves
    <3>5. Candidate(p).created = <<p, call[p].attempt>> /\ Requested(Candidate(p)) = call[p].req
        BY <1>0, RequestsAssumption DEF Candidate, Requested, TypeOK, Calls, Request
    <3>6. CallInStep(p)'
        BY <3>2, <3>4, <3>5, <1>0, AfterReturn
    <3>7. \A row \in metadata : row.created # <<p, call[p].attempt>>
        BY <3>1, <1>0 DEF CallInStep
    <3>8. {Candidate(p)} = {row \in metadata' : row.created = <<p, call[p].attempt>>}
        BY <3>2, <3>5, <3>7
    <3>9. CallSound(p)'
        BY <3>1, <3>3, <3>4, <3>5, <3>8, <1>a DEF CallSound, SameAttempt, Requested
    <3> QED
        BY <3>2, <3>4, <3>5, <3>6, <3>9, <1>1 DEF StepOf
  <2> QED
    BY <2>1, <2>2
<1>h. ASSUME FailSecondPhase(p), UNCHANGED sweep, faults' >= 1, faults' >= faults,
             call[p].pc \in {"put_resource", "put_provenance", "commit", "winner"},
             \A row \in metadata' : row \in metadata \/ row.created = <<p, call[p].attempt>>
      PROVE  StepOf(p)
  <2>0. /\ OthersKeep(p) /\ SameAttempt(p)
        /\ \/ /\ call[p].req.profile = "ARTIFACT"
              /\ call'[p].pc = "record_orphan" /\ call'[p].outcome = "none"
              /\ call'[p].receipt = {}
           \/ /\ call'[p].pc = "idle" /\ call'[p].outcome = "error"
              /\ call'[p].receipt = {}
    BY <1>h, <1>0, FailSecondPhaseMoves DEF CallTyped, CallInStep
  <2>1. CASE call'[p].pc = "idle"
    <3>1. CallInStep(p)'
        BY <2>0, <2>1, <1>h, <1>0, AfterReturn
    <3>2. CallSound(p)'
        BY <2>0, <2>1, <1>h, <1>0, <1>1, AfterRaise
    <3> QED
        BY <2>0, <3>1, <3>2, <1>h DEF StepOf
  <2>2. CASE call'[p].pc = "record_orphan"
    <3>1. ObjectOf(call[p].req) \in objects'
        BY <2>0, <2>2, <1>h, <1>0, <1>1 DEF CallInStep
    <3>2. CallInStep(p)'
        BY <2>0, <2>2, <3>1, <1>h, <1>0, <1>1 DEF CallInStep, SameAttempt, ObjectOf
    <3>3. CallSound(p)'
        BY <2>0, <2>2, <1>a DEF CallSound
    <3> QED
        BY <2>0, <3>2, <3>3, <1>h DEF StepOf
  <2> QED
    BY <2>0, <2>1, <2>2
<1>11. ASSUME Winner(p) PROVE StepOf(p)
  <2>1. CASE RowsOf(metadata, call[p].req.id) # {}
    BY <2>1, <1>11, <1>c DEF Winner, At
  <2>2. CASE RowsOf(metadata, call[p].req.id) = {}
    <3>1. faults' >= 1
        BY <2>2, <1>11, <1>0, <1>1 DEF Winner, At, CallInStep
    <3> QED
        BY <2>2, <3>1, <1>11, <1>h, <1>1 DEF Winner, At, stores
  <2> QED
    BY <2>1, <2>2
<1>12. ASSUME RecordOrphan(p) PROVE StepOf(p)
  <2>1. /\ OthersKeep(p) /\ SameAttempt(p) /\ call'[p].pc = "idle" /\ call'[p].receipt = {}
        /\ call'[p].outcome = "incomplete" /\ faults >= 1
    BY <1>12, <1>0, <1>a, RaiseMoves DEF RecordOrphan, At, CallInStep
  <2>2. HasOrphanRow(ObjectOf(call[p].req))'
    <3>1. \E row \in orphans' : row.id = call[p].req.id /\ row.content = call[p].req.content
        BY <1>12, PutOrphanAdds DEF RecordOrphan
    <3> QED
        BY <2>1, <3>1 DEF HasOrphanRow, ObjectOf, SameAttempt
  <2>3. CallInStep(p)'
    BY <2>1, <1>12, <1>0, AfterReturn DEF RecordOrphan
  <2>4. CallSound(p)'
    BY <2>1, <2>2, <1>12, <1>a DEF CallSound, RecordOrphan, SameAttempt
  <2> QED
    BY <2>1, <2>3, <2>4, <1>12, <1>1 DEF StepOf, RecordOrphan
<1>i. ASSUME NEW outcome \in {"error", "crashed", "incomplete", "identity_conflict"},
             Raise(p, outcome), Fault, UNCHANGED sweep, UNCHANGED metadata, ~ At(p, "idle"),
             outcome = "identity_conflict" => call[p].req.profile = "ARTIFACT",
             outcome = "incomplete" => At(p, "record_orphan")
      PROVE  StepOf(p)
  <2>1. /\ OthersKeep(p) /\ SameAttempt(p) /\ call'[p].pc = "idle" /\ call'[p].receipt = {}
        /\ call'[p].outcome = outcome
    BY <1>i, <1>0, <1>a, RaiseMoves
  <2>2. faults' = faults + 1 /\ (outcome = "incomplete" => faults >= 1)
    BY <1>i, <1>2, <1>0 DEF At, CallInStep
  <2>3. CallInStep(p)'
    BY <2>1, <1>i, <1>0, AfterReturn
  <2>4. CallSound(p)'
    BY <2>1, <2>2, <1>0, <1>1, <1>i, AfterRaise DEF At
  <2> QED
    BY <2>1, <2>2, <2>3, <2>4, <1>i, <1>1 DEF StepOf
<1>13. ASSUME RemoteFailure(p) PROVE StepOf(p)
  <2>1. UNCHANGED <<stores, sweep>> /\ Fault /\ faults' >= 1 /\ faults' >= faults
    BY <1>13, <1>1, <1>2 DEF RemoteFailure
  <2>2. CASE call[p].pc \in {"lookup", "put_object", "stat", "winner"} /\ Raise(p, "error")
    BY <2>1, <2>2, <1>i DEF At, stores
  <2>3. CASE call[p].pc \in {"put_resource", "put_provenance", "commit"} /\ FailSecondPhase(p)
    BY <2>1, <2>3, <1>h DEF stores
  <2>4. CASE At(p, "record_orphan") /\ Raise(p, "incomplete")
    BY <2>1, <2>4, <1>i DEF At, stores
  <2> QED
    BY <1>13, <2>2, <2>3, <2>4 DEF RemoteFailure
<1>14. ASSUME LostPutObject(p) PROVE StepOf(p)
  <2>1. call[p].req.profile = "ARTIFACT" /\ ~ At(p, "idle")
    BY <1>14, <1>0 DEF LostPutObject, At, CallInStep
  <2> QED
    BY <1>14, <2>1, <1>i DEF LostPutObject, tables, At
<1>15. ASSUME LostCommit(p) PROVE StepOf(p)
  <2>1. \A row \in metadata' : row \in metadata \/ row.created = <<p, call[p].attempt>>
    BY <1>15 DEF LostCommit, CommitRows, Candidate
  <2> QED
    BY <1>15, <2>1, <1>h, <1>1, <1>2 DEF LostCommit, At
<1>16. ASSUME SpuriousConflict(p) PROVE StepOf(p)
    BY <1>16, <1>g, <1>1, <1>2 DEF SpuriousConflict
<1>17. ASSUME MismatchedPut(p) PROVE StepOf(p)
    BY <1>17, <1>i DEF MismatchedPut, At, stores
<1>18. ASSUME Crash(p) PROVE StepOf(p)
    BY <1>18, <1>i DEF Crash, At, stores
<1> QED
    BY <1>3, <1>4, <1>5, <1>6, <1>7, <1>8, <1>9, <1>10, <1>11, <1>12, <1>13, <1>14, <1>15,
       <1>16, <1>17, <1>18 DEF PublishStep, PublishFault

\* One step of a sweeper keeps it in step.
LEMMA SweepSteps ==
    ASSUME TypeOK, [Next]_vars, NEW s \in Sweepers, SweepStep(s) \/ SweepFails(s),
           \A t \in Sweepers : SweepInStep(t)
    PROVE  /\ UNCHANGED <<metadata, call>> /\ faults' >= faults
           /\ \A t \in Sweepers : SweepInStep(t)'
<1>1. faults \in Nat
    BY BoundsAssumption DEF TypeOK
<1>2. UNCHANGED <<metadata, call, objects>> /\ faults' >= faults
    BY <1>1 DEF SweepStep, SweepFails, DiscoverPage, Inspect, RecordSuspect, Fault, stores
<1>3. \A t \in Sweepers : t # s => sweep'[t] = sweep[t]
    BY DEF SweepStep, SweepFails, DiscoverPage, Inspect, RecordSuspect, TypeOK
<1>4. SweepInStep(s)'
  <2>1. CASE DiscoverPage(s)
    <3>1. PICK page, listed :
              /\ page \subseteq objects
              /\ sweep' = [sweep EXCEPT ![s] =
                     [listed |-> listed, page |-> page, suspect |-> {}]]
        BY <2>1 DEF DiscoverPage
    <3> QED
        BY <3>1, <1>2 DEF SweepInStep, TypeOK
  <2>2. CASE Inspect(s)
    <3>1. PICK item \in sweep[s].page :
              sweep' = [sweep EXCEPT ![s] = [sweep[s] EXCEPT
                  !.page = sweep[s].page \ {item},
                  !.suspect = IF RowsOf(metadata, item.id) = {} THEN {item} ELSE {}]]
        BY <2>2 DEF Inspect, TypeOK
    <3> QED
        BY <3>1, <1>2 DEF SweepInStep, TypeOK, Sweeps
  <2>3. CASE RecordSuspect(s)
    <3>1. sweep' = [sweep EXCEPT ![s] = [sweep[s] EXCEPT !.suspect = {}]]
        BY <2>3 DEF RecordSuspect, TypeOK
    <3> QED
        BY <3>1, <1>2 DEF SweepInStep, TypeOK, Sweeps
  <2>4. CASE SweepFails(s)
    BY <2>4, <1>2 DEF SweepFails, SweepInStep, TypeOK
  <2> QED
    BY <2>1, <2>2, <2>3, <2>4 DEF SweepStep
<1> QED
    BY <1>2, <1>3, <1>4 DEF SweepInStep

\* The invariant holds initially.
LEMMA InvariantInit == Init => IInv
<1> SUFFICES ASSUME Init PROVE IInv
    OBVIOUS
<1>1. TypeOK /\ TablesAgree
    BY TypeInit, TablesAgreeInit
<1>2. \A p \in Publishers : /\ call[p].pc = "idle" /\ call[p].outcome = "none"
                            /\ call[p].receipt = {}
    BY DEF Init
<1>3. metadata = {} /\ \A s \in Sweepers : sweep[s].page = {} /\ sweep[s].suspect = {}
    BY DEF Init
<1> QED
    BY <1>1, <1>2, <1>3
    DEF IInv, InStep, CallInStep, SweepInStep, CallsSound, CallSound, Succeeded, Retryable

\* Every step keeps the invariant.
LEMMA InvariantNext == IInv /\ [Next]_vars => IInv'
<1> SUFFICES ASSUME IInv, [Next]_vars PROVE IInv'
    OBVIOUS
<1>1. TypeOK /\ TypeOK' /\ TablesAgree' /\ TablesStep
    BY TypeNext, TablesMove, TablesAgreeNext DEF IInv
<1>2. metadata \subseteq metadata' /\ objects \subseteq objects' /\ faults \in Nat
    BY <1>1, TablesGrow, BoundsAssumption DEF TypeOK
<1>3. ASSUME NEW p \in Publishers, Begin(p) \/ Retry(p) \/ PublishStep(p) \/ PublishFault(p)
      PROVE  InStep' /\ CallsSound'
  <2>1. StepOf(p)
    BY <1>3, PublisherSteps
  <2>2. ASSUME NEW q \in Publishers, q # p PROVE CallInStep(q)' /\ CallSound(q)'
    <3>1. call'[q] = call[q] /\ faults' >= faults /\ CallInStep(q) /\ CallSound(q)
        BY <2>1, <2>2 DEF StepOf, OthersKeep, IInv, InStep, CallsSound
    <3>2. \A row \in metadata' : row \in metadata \/ row.created[1] # q
        BY <2>1, <2>2 DEF StepOf
    <3> QED
        BY <1>1, <3>1, <3>2, OthersUndisturbed
  <2>3. \A s \in Sweepers : SweepInStep(s)'
    BY <2>1, <1>2 DEF StepOf, IInv, InStep, SweepInStep
  <2> QED
    BY <2>1, <2>2, <2>3 DEF StepOf, InStep, CallsSound
<1>4. ASSUME NEW s \in Sweepers, SweepStep(s) \/ SweepFails(s)
      PROVE  InStep' /\ CallsSound'
  <2>1. /\ UNCHANGED <<metadata, call>> /\ faults' >= faults
        /\ \A t \in Sweepers : SweepInStep(t)'
    BY <1>1, <1>4, SweepSteps DEF IInv, InStep
  <2>2. ASSUME NEW q \in Publishers PROVE CallInStep(q)' /\ CallSound(q)'
    <3>1. CallInStep(q) /\ CallSound(q)
        BY DEF IInv, InStep, CallsSound
    <3> QED
        BY <1>1, <2>1, <3>1, OthersUndisturbed
  <2> QED
    BY <2>1, <2>2 DEF InStep, CallsSound
<1>5. CASE UNCHANGED vars
  <2>1. ASSUME NEW q \in Publishers PROVE CallInStep(q)' /\ CallSound(q)'
    <3>1. CallInStep(q) /\ CallSound(q)
        BY DEF IInv, InStep, CallsSound
    <3> QED
        BY <1>1, <1>2, <1>5, <3>1, OthersUndisturbed DEF vars
  <2>2. \A s \in Sweepers : SweepInStep(s)'
    BY <1>5 DEF vars, IInv, InStep, SweepInStep
  <2> QED
    BY <1>1, <2>1, <2>2 DEF IInv, InStep, CallsSound
<1> QED
    BY <1>1, <1>3, <1>4, <1>5 DEF Next, IInv

\* The inductive invariant holds always.
LEMMA Invariant == Spec => []IInv
<1> QED
    BY InvariantInit, InvariantNext, PTL DEF Spec

\* What a call learned stays true until it uses it.
THEOREM CallsStayInStep == Spec => []InStep
<1>1. IInv => InStep
    BY DEF IInv
<1> QED
    BY <1>1, Invariant, PTL

\* A receipt shows a committed row with the content and document asked for.
THEOREM ReceiptsTruthful == Spec => []ReceiptTruthful
<1>1. IInv => ReceiptTruthful
    BY CallsSoundMeans DEF IInv
<1> QED
    BY <1>1, Invariant, PTL

\* At most one call per identity returns a receipt that is not idempotent.
THEOREM WriterPublishes == Spec => []OnlyTheWriterPublishes
<1>1. IInv => OnlyTheWriterPublishes
    BY CallsSoundMeans DEF IInv
<1> QED
    BY <1>1, Invariant, PTL

\* IdentityConflict is raised over a row or an Object that differs.
THEOREM ConflictsReal == Spec => []ConflictIsReal
<1>1. IInv => ConflictIsReal
    BY CallsSoundMeans DEF IInv
<1> QED
    BY <1>1, Invariant, PTL

\* Without a fault no race of publishers makes a call fail.
THEOREM RacesSettle == Spec => []FailuresNeedFaults
<1>1. IInv => FailuresNeedFaults
    BY CallsSoundMeans DEF IInv
<1> QED
    BY <1>1, Invariant, PTL

\* IncompletePublication leaves an orphan candidate unless two faults met.
THEOREM IncompleteHasEvidence == Spec => []IncompleteLeavesEvidence
<1>1. IInv => IncompleteLeavesEvidence
    BY CallsSoundMeans DEF IInv
<1> QED
    BY <1>1, Invariant, PTL

--------------------------------------------------------------------------------
(* Metadata and orphan candidates speak of Objects that exist. *)

\* Every step keeps an Object behind artifact metadata and orphan candidates.
LEMMA ObjectsBehindRows ==
    IInv /\ ArtifactHasObject /\ OrphanNamesObject /\ [Next]_vars
        => ArtifactHasObject' /\ OrphanNamesObject'
<1> SUFFICES ASSUME IInv, ArtifactHasObject, OrphanNamesObject, [Next]_vars
             PROVE  ArtifactHasObject' /\ OrphanNamesObject'
    OBVIOUS
<1>1. TablesStep /\ TypeOK /\ InStep /\ objects \subseteq objects'
    BY TablesMove, TablesGrow DEF IInv
<1>2. ArtifactHasObject'
  <2>1. CASE UNCHANGED metadata
    BY <1>1, <2>1 DEF ArtifactHasObject
  <2>2. ASSUME NEW p \in Publishers, At(p, "commit"), CommitRows(p)
        PROVE  ArtifactHasObject'
    <3>1. Candidate(p).profile = "ARTIFACT" =>
              [id |-> Candidate(p).id, content |-> Candidate(p).content] \in objects
        BY <1>1, <2>2 DEF InStep, CallInStep, At, Candidate, ObjectOf
    <3> QED
        BY <1>1, <2>2, <3>1 DEF CommitRows, ArtifactHasObject
  <2> QED
    BY <1>1, <2>1, <2>2 DEF TablesStep
<1>3. OrphanNamesObject'
  <2>1. CASE UNCHANGED orphans
    BY <1>1, <2>1 DEF OrphanNamesObject
  <2>2. ASSUME NEW p \in Publishers, At(p, "record_orphan"),
               orphans' = PutOrphan(call[p].req, "RECORDED")
        PROVE  OrphanNamesObject'
    <3>1. ObjectOf(call[p].req) \in objects
        BY <1>1, <2>2 DEF InStep, CallInStep, At
    <3>2. \A row \in orphans' :
              row \in orphans \/ (row.id = call[p].req.id /\ row.content = call[p].req.content)
        BY <2>2, PutOrphanAdds
    <3> QED
        BY <1>1, <3>1, <3>2 DEF OrphanNamesObject, ObjectOf
  <2>3. ASSUME NEW s \in Sweepers, NEW item \in sweep[s].suspect,
               orphans' = PutOrphan(item, "DISCOVERED")
        PROVE  OrphanNamesObject'
    <3>1. item \in objects /\ item \in ObjectRows
        BY <1>1, <2>3 DEF InStep, SweepInStep, TypeOK
    <3>2. [id |-> item.id, content |-> item.content] = item
        BY <3>1 DEF ObjectRows
    <3>3. \A row \in orphans' :
              row \in orphans \/ (row.id = item.id /\ row.content = item.content)
        BY <2>3, PutOrphanAdds
    <3> QED
        BY <1>1, <3>1, <3>2, <3>3 DEF OrphanNamesObject
  <2> QED
    BY <1>1, <2>1, <2>2, <2>3 DEF TablesStep
<1> QED
    BY <1>2, <1>3

\* There always is an Object behind them.
LEMMA ObjectsBehindRowsAlways == Spec => [](ArtifactHasObject /\ OrphanNamesObject)
<1>1. Init => IInv /\ ArtifactHasObject /\ OrphanNamesObject
    BY InvariantInit DEF Init, ArtifactHasObject, OrphanNamesObject
<1>2. /\ IInv /\ ArtifactHasObject /\ OrphanNamesObject /\ [Next]_vars
      => (IInv /\ ArtifactHasObject /\ OrphanNamesObject)'
    BY InvariantNext, ObjectsBehindRows
<1> QED
    BY <1>1, <1>2, PTL DEF Spec

\* Artifact metadata is committed only over its Object.
THEOREM ArtifactsHaveObjects == Spec => []ArtifactHasObject
<1> QED
    BY ObjectsBehindRowsAlways, PTL

\* An orphan candidate is never recorded for an Object that does not exist.
THEOREM OrphansNameObjects == Spec => []OrphanNamesObject
<1> QED
    BY ObjectsBehindRowsAlways, PTL

--------------------------------------------------------------------------------
(* Under each identity, a register that is written once. *)

PublishOps == [p \in Publishers |-> PublishOp(p)]
Published == [id \in Resources |-> PublishedUnder(id)]

Refusals == {"identity_conflict", "rejected"}

\* What a step of a call does to the rows, in terms of how the call goes on.
CallMoves(p) ==
    /\ call[p].pc # "idle"
    /\ OthersKeep(p) /\ SameAttempt(p)
    /\ faults' = faults \/ (faults < MaxFaults /\ faults' = faults + 1)
    /\ \/ metadata' = metadata
       \/ /\ call[p].pc = "commit" /\ RowsOf(metadata, call[p].req.id) = {}
          /\ metadata' = metadata \union {Candidate(p)}
          /\ \/ faults' = faults /\ call'[p].pc = "idle" /\ call'[p].outcome \in Succeeded
             \/ faults' # faults /\ call'[p].pc # "idle"
             \/ faults' # faults /\ call'[p].pc = "idle" /\ call'[p].outcome \in Retryable
    /\ call'[p].pc = "idle" =>
           \/ call'[p].outcome \in Succeeded /\ faults' = faults
           \/ /\ call'[p].outcome \in Refusals
              /\ metadata' = metadata /\ call[p].pc # "record_orphan"
           \/ call'[p].outcome \in Retryable

\* Every step of a call that runs is one of these.
LEMMA StepCallMoves ==
    ASSUME TypeOK, NEW p \in Publishers, PublishStep(p) \/ PublishFault(p)
    PROVE  CallMoves(p)
<1>0. /\ CallTyped /\ call[p].pc \in Steps
      /\ {"none", "identity_conflict", "rejected", "published", "idempotent",
          "incomplete", "error", "crashed"} \subseteq Outcomes
      /\ Steps = {"idle", "lookup", "put_object", "stat", "put_resource",
                  "put_provenance", "commit", "winner", "record_orphan"}
      /\ faults \in Nat
    BY BoundsAssumption
       DEF TypeOK, CallTyped, Calls, Steps, Outcomes, Succeeded, Retryable
<1>1. /\ Fault => faults < MaxFaults /\ faults' = faults + 1 /\ faults' # faults
      /\ Succeeded = {"published", "idempotent"}
      /\ Retryable = {"incomplete", "error", "crashed"}
    BY <1>0 DEF Fault, Succeeded, Retryable
<1>2. ASSUME NEW step \in Steps \ {"idle"}, GoTo(p, step), call[p].pc # "idle",
             metadata' = metadata, faults' = faults \/ Fault
      PROVE  CallMoves(p)
    BY <1>0, <1>1, <1>2, GoToMoves DEF CallMoves, CallTyped
<1>3. ASSUME SettleOnFound(p, RowsOf(metadata, call[p].req.id)), call[p].pc \in {"lookup", "winner"},
             metadata' = metadata, faults' = faults
      PROVE  CallMoves(p)
  <2>1. \A row : SettleOn(call[p].req, row) \in {"idempotent", "rejected", "identity_conflict"}
    BY DEF SettleOn
  <2>2. /\ OthersKeep(p) /\ SameAttempt(p) /\ call'[p].pc = "idle"
        /\ call'[p].outcome \in {"idempotent", "rejected", "identity_conflict"}
    BY <1>3, <2>1, SettleOnFoundMoves
  <2> QED
    BY <1>1, <1>3, <2>2 DEF CallMoves, Refusals
<1>4. ASSUME NEW outcome \in {"identity_conflict", "rejected", "incomplete", "error", "crashed"},
             Raise(p, outcome), call[p].pc # "idle",
             outcome = "identity_conflict" => call[p].pc # "record_orphan",
             outcome = "rejected" => call[p].pc # "record_orphan",
             metadata' = metadata, faults' = faults \/ Fault
      PROVE  CallMoves(p)
  <2>1. /\ OthersKeep(p) /\ SameAttempt(p) /\ call'[p].pc = "idle"
        /\ call'[p].outcome = outcome
    BY <1>0, <1>4, RaiseMoves
  <2> QED
    BY <1>1, <1>4, <2>1 DEF CallMoves, Refusals
<1>5. ASSUME NEW created \in BOOLEAN, BuildCandidate(p, created),
             call[p].pc \in {"put_object", "stat"}, metadata' = metadata, faults' = faults
      PROVE  CallMoves(p)
  <2>1. /\ OthersKeep(p) /\ SameAttempt(p)
        /\ \/ call'[p].pc = "idle" /\ call'[p].outcome = "rejected"
           \/ call'[p].pc = "put_resource"
    BY <1>0, <1>5, BuildCandidateMoves DEF CallTyped
  <2> QED
    BY <1>5, <2>1 DEF CallMoves, Refusals
<1>6. ASSUME FailSecondPhase(p), call[p].pc # "idle", faults' = faults \/ Fault,
             metadata' = metadata
      PROVE  CallMoves(p)
  <2>1. /\ OthersKeep(p) /\ SameAttempt(p)
        /\ \/ call'[p].pc = "record_orphan"
           \/ call'[p].pc = "idle" /\ call'[p].outcome = "error"
    BY <1>0, <1>6, FailSecondPhaseMoves DEF CallTyped
  <2> QED
    BY <1>1, <1>6, <2>1 DEF CallMoves
<1>7. CASE Lookup(p)
    BY <1>0, <1>2, <1>3, <1>7 DEF Lookup, At, stores
<1>8. CASE PutObject(p)
    BY <1>0, <1>2, <1>5, <1>8 DEF PutObject, At, tables
<1>9. CASE StatObject(p)
    BY <1>0, <1>4, <1>5, <1>9 DEF StatObject, At, stores
<1>10. CASE PutResource(p)
    BY <1>0, <1>2, <1>10 DEF PutResource, At, stores
<1>11. CASE PutProvenance(p)
    BY <1>0, <1>2, <1>11 DEF PutProvenance, At, stores
<1>12. CASE Commit(p)
  <2>1. CASE CommitConflicts(p)
    BY <1>0, <1>2, <1>12, <2>1 DEF Commit, At
  <2>2. CASE ~ CommitConflicts(p)
    <3>1. PICK outcome \in Succeeded :
              Return(p, outcome, {Candidate(p)}) /\ call[p].pc = "commit"
        BY <1>1, <1>12, <2>2 DEF Commit, At
    <3>2. /\ metadata' = metadata \union {Candidate(p)} /\ faults' = faults
          /\ RowsOf(metadata, call[p].req.id) = {}
        BY <1>12, <2>2 DEF Commit, CommitRows, CommitConflicts
    <3>3. call[p].attempt \in 1 .. MaxAttempts
        BY <3>1, BoundsAssumption DEF TypeOK, Calls
    <3>4. Candidate(p) \in MetadataRows
        BY <3>3, RequestsAssumption
           DEF Candidate, TypeOK, Calls, Request, MetadataRows, Stamps
    <3>5. /\ OthersKeep(p) /\ SameAttempt(p) /\ call'[p].pc = "idle"
          /\ call'[p].outcome = outcome
        BY <1>0, <1>1, <3>1, <3>4, ReturnMoves
    <3> QED
        BY <3>1, <3>2, <3>5 DEF CallMoves
  <2> QED
    BY <2>1, <2>2
<1>13. CASE Winner(p)
    BY <1>0, <1>3, <1>6, <1>13 DEF Winner, At, stores
<1>14. CASE RecordOrphan(p)
    BY <1>0, <1>4, <1>14 DEF RecordOrphan, At
<1>15. CASE RemoteFailure(p)
  <2>1. /\ Fault /\ metadata' = metadata /\ call[p].pc # "idle"
        /\ \/ Raise(p, "error") \/ FailSecondPhase(p) \/ Raise(p, "incomplete")
    BY <1>15 DEF RemoteFailure, stores, At
  <2> QED
    BY <1>4, <1>6, <2>1
<1>16. CASE LostPutObject(p)
    BY <1>4, <1>16 DEF LostPutObject, At, tables
<1>17. CASE LostCommit(p)
  <2>1. /\ Fault /\ FailSecondPhase(p) /\ call[p].pc = "commit"
        /\ metadata' = metadata \union {Candidate(p)}
        /\ RowsOf(metadata, call[p].req.id) = {}
    BY <1>17 DEF LostCommit, At, CommitRows, CommitConflicts
  <2>2. /\ OthersKeep(p) /\ SameAttempt(p)
        /\ \/ call'[p].pc = "record_orphan"
           \/ call'[p].pc = "idle" /\ call'[p].outcome = "error"
    BY <1>0, <2>1, FailSecondPhaseMoves DEF CallTyped
  <2> QED
    BY <1>1, <2>1, <2>2 DEF CallMoves
<1>18. CASE SpuriousConflict(p)
    BY <1>0, <1>2, <1>18 DEF SpuriousConflict, stores
<1>19. CASE MismatchedPut(p)
    BY <1>4, <1>19 DEF MismatchedPut, At, stores
<1>20. CASE Crash(p)
    BY <1>4, <1>20 DEF Crash, At, stores
<1> QED
    BY <1>7, <1>8, <1>9, <1>10, <1>11, <1>12, <1>13, <1>14, <1>15, <1>16, <1>17, <1>18,
       <1>19, <1>20 DEF PublishStep, PublishFault

\* A call that runs is pending, or in doubt once its attempt has written a row;
\* a call that is over has answered.
LEMMA PhaseMeans ==
    ASSUME NEW p \in Publishers
    PROVE  /\ call[p].pc # "idle" =>
                  /\ PhaseOf(p) \in {"pending", "in doubt"}
                  /\ (\A row \in metadata : row.created # <<p, call[p].attempt>>)
                         => PhaseOf(p) = "pending"
                  /\ (\E row \in metadata : row.created = <<p, call[p].attempt>>)
                         => PhaseOf(p) = "in doubt"
           /\ call[p].pc = "idle" =>
                  /\ PhaseOf(p) \notin {"pending", "in doubt"}
                  /\ call[p].outcome = "none" => PhaseOf(p) = "new"
                  /\ call[p].outcome \in Succeeded => PhaseOf(p) = "stored"
                  /\ call[p].outcome \in Refusals => PhaseOf(p) = "declined"
                  /\ call[p].outcome \in Retryable => PhaseOf(p) = "unknown"
BY DEF PhaseOf, Succeeded, Refusals, Retryable

\* The same of the next state.
LEMMA PhaseNext ==
    ASSUME NEW p \in Publishers
    PROVE  /\ call'[p].pc # "idle" =>
                  /\ PhaseOf(p)' \in {"pending", "in doubt"}
                  /\ (\A row \in metadata' : row.created # <<p, call'[p].attempt>>)
                         => PhaseOf(p)' = "pending"
                  /\ (\E row \in metadata' : row.created = <<p, call'[p].attempt>>)
                         => PhaseOf(p)' = "in doubt"
           /\ call'[p].pc = "idle" =>
                  /\ call'[p].outcome \in Succeeded => PhaseOf(p)' = "stored"
                  /\ call'[p].outcome \in Refusals => PhaseOf(p)' = "declined"
                  /\ call'[p].outcome \in Retryable => PhaseOf(p)' = "unknown"
BY DEF PhaseOf, Succeeded, Refusals, Retryable

\* The phases of other calls do not change.
LEMMA OtherPhases ==
    ASSUME NEW p \in Publishers, OthersKeep(p), metadata \subseteq metadata',
           \A row \in metadata' : row \in metadata \/ row.created[1] = p
    PROVE  \A q \in Publishers : q # p => PublishOp(q)' = PublishOp(q)
<1> SUFFICES ASSUME NEW q \in Publishers, q # p PROVE PublishOp(q)' = PublishOp(q)
    OBVIOUS
<1>1. call'[q] = call[q]
    BY DEF OthersKeep
<1>2. (\E row \in metadata' : row.created = <<q, call[q].attempt>>)
          <=> (\E row \in metadata : row.created = <<q, call[q].attempt>>)
    OBVIOUS
<1>3. PhaseOf(q)' = PhaseOf(q)
    BY <1>1, <1>2 DEF PhaseOf, Succeeded, Retryable
<1> QED
    BY <1>1, <1>3 DEF PublishOp

\* Of a running call, the registers see the phase.
LEMMA PhaseMove ==
    ASSUME NEW p \in Publishers, CallMoves(p)
    PROVE  /\ PublishOps' = [PublishOps EXCEPT ![p].phase = PhaseOf(p)']
           /\ metadata \subseteq metadata'
<1>1. /\ metadata \subseteq metadata' /\ OthersKeep(p)
      /\ \A row \in metadata' : row \in metadata \/ row.created[1] = p
    BY DEF CallMoves, Candidate
<1>2. PublishOp(p)' = [PublishOp(p) EXCEPT !.phase = PhaseOf(p)']
    BY DEF PublishOp, CallMoves, SameAttempt
<1> QED
    BY <1>1, <1>2, OtherPhases DEF PublishOps

\* A row that commits is written to an empty register.
LEMMA CommitWrites ==
    ASSUME TypeOK, NEW p \in Publishers, RowsOf(metadata, call[p].req.id) = {},
           metadata' = metadata \union {Candidate(p)}
    PROVE  /\ Published[call[p].req.id] = {}
           /\ Published' = [Published EXCEPT ![call[p].req.id] = {call[p].req}]
<1> SUFFICES ASSUME NEW req, req = call[p].req, NEW new, new = Candidate(p)
             PROVE  /\ Published[req.id] = {}
                    /\ Published' = [Published EXCEPT ![req.id] = {req}]
    OBVIOUS
<1>1. /\ req \in Request /\ new.id = req.id /\ Requested(new) = req
      /\ metadata' = metadata \union {new}
    BY RequestsAssumption DEF TypeOK, Calls, Request, Candidate, Requested
<1>2. PublishedUnder(req.id) = {}
    BY DEF PublishedUnder
<1>3. RowsOf(metadata, req.id)' = {new}
    BY <1>1 DEF RowsOf
<1>4. PublishedUnder(req.id)' = {req}
    BY <1>1, <1>3 DEF PublishedUnder, Requested
<1>5. \A id : id # req.id => RowsOf(metadata, id)' = RowsOf(metadata, id)
    BY <1>1 DEF RowsOf
<1>6. \A id : id # req.id => PublishedUnder(id)' = PublishedUnder(id)
    BY <1>5 DEF PublishedUnder, Requested
<1>7. req.id \in Resources
    BY <1>1 DEF Request
<1> QED
    BY <1>2, <1>4, <1>6, <1>7 DEF Published

\* A step that writes no row writes no register.
LEMMA RowsStay == ASSUME UNCHANGED metadata PROVE Published' = Published
BY DEF Published, PublishedUnder, RowsOf, Requested

\* A call that succeeds leaves its request in the register.
LEMMA SuccessHolds ==
    ASSUME IInv, IInv', NEW p \in Publishers, CallMoves(p),
           call'[p].pc = "idle", call'[p].outcome \in Succeeded
    PROVE  Registers!Write(p)
<1>0. /\ TypeOK /\ CallSound(p)' /\ UniqueIdentity' /\ call[p].req.id \in Resources
    BY RequestsAssumption DEF IInv, CallsSound, TablesAgree, TypeOK, Calls, Request
<1>1. PublishOps[p].key = call[p].req.id /\ PublishOps[p].value = call[p].req
    BY DEF PublishOps, PublishOp
<1>2. CASE metadata' = metadata
  <2>1. PICK row \in metadata : Requested(row) = call[p].req
    BY <1>0, <1>2 DEF CallSound, CallMoves, SameAttempt, Requested
  <2>2. row.id = call[p].req.id
    BY <2>1 DEF Requested
  <2>3. \A other \in metadata : other.id = call[p].req.id => other = row
    BY <1>0, <1>2, <2>2 DEF UniqueIdentity
  <2>4. PublishedUnder(call[p].req.id) = {call[p].req}
    BY <2>1, <2>2, <2>3 DEF PublishedUnder, RowsOf
  <2>5. Published[call[p].req.id] = {call[p].req} /\ Published' = Published
    BY <1>0, <1>2, <2>4, RowsStay DEF Published
  <2>6. Published' = [Published EXCEPT ![call[p].req.id] = {call[p].req}]
    BY <2>5 DEF Published
  <2> QED
    BY <1>1, <2>5, <2>6 DEF Registers!Write, PublishOps, Published
<1>3. CASE metadata' # metadata
  <2>1. RowsOf(metadata, call[p].req.id) = {} /\ metadata' = metadata \union {Candidate(p)}
    BY <1>3 DEF CallMoves
  <2> QED
    BY <1>0, <1>1, <2>1, CommitWrites DEF Registers!Write, PublishOps, Published
<1> QED
    BY <1>2, <1>3

\* A step of a running call is a step of the registers, or one they do not see.
LEMMA CallRefines ==
    ASSUME IInv, IInv', NEW p \in Publishers, CallMoves(p)
    PROVE  Registers!Next \/ UNCHANGED Registers!vars
<1>0. /\ TypeOK /\ CallInStep(p) /\ CallSound(p)' /\ faults \in Nat
      /\ call'[p].attempt = call[p].attempt
    BY BoundsAssumption DEF IInv, InStep, CallsSound, TypeOK, CallMoves, SameAttempt
<1>1. /\ PublishOps[p].key = call[p].req.id /\ PublishOps[p].value = call[p].req
      /\ PublishOps[p].phase = PhaseOf(p) /\ PhaseOf(p) \in {"pending", "in doubt"}
    BY PhaseMeans DEF PublishOps, PublishOp, CallMoves
<1>2. /\ PublishOps' = [PublishOps EXCEPT ![p].phase = PhaseOf(p)']
      /\ metadata \subseteq metadata'
    BY PhaseMove
<1>3. call[p].pc # "record_orphan" => PhaseOf(p) = "pending"
  <2>1. call[p].pc # "record_orphan" =>
            call[p].pc \in {"lookup", "put_object", "stat",
                            "put_resource", "put_provenance", "commit", "winner"}
    BY <1>0 DEF TypeOK, Calls, Steps, CallMoves
  <2> QED
    BY <1>0, <2>1, PhaseMeans DEF CallInStep, CallMoves
<1>4. faults' = faults \/ (faults < MaxFaults /\ faults' = faults + 1)
    BY DEF CallMoves
<1>5. CASE call'[p].pc = "idle" /\ call'[p].outcome \in Succeeded
  <2>1. PhaseOf(p)' = "stored" /\ Registers!Write(p)
    BY <1>5, PhaseNext, SuccessHolds
  <2>2. faults' = faults
    BY <1>5 DEF CallMoves, Succeeded, Refusals, Retryable
  <2>3. Registers!Store(p)
    BY <1>1, <1>2, <2>1, <2>2
       DEF Registers!Store, Registers!Running, Registers!Answer, PublishOps
  <2> QED
    BY <2>3 DEF Registers!Next
<1>6. CASE call'[p].pc = "idle" /\ call'[p].outcome \in Refusals
  <2>1. PhaseOf(p)' = "declined"
    BY <1>6, PhaseNext
  <2>2. metadata' = metadata /\ call[p].pc # "record_orphan"
    BY <1>6 DEF CallMoves, Succeeded, Refusals, Retryable
  <2>3. Published' = Published /\ PhaseOf(p) = "pending"
    BY <1>3, <2>2, RowsStay
  <2>4. CASE faults' = faults
    <3>1. Registers!Decline(p)
        BY <1>1, <1>2, <2>1, <2>3, <2>4
           DEF Registers!Decline, Registers!Answer, PublishOps, Published
    <3> QED
        BY <3>1 DEF Registers!Next
  <2>5. CASE faults < MaxFaults /\ faults' = faults + 1
    <3>1. Registers!Disturb(p)
        BY <1>1, <1>2, <2>1, <2>3, <2>5
           DEF Registers!Disturb, Registers!Running, Registers!Answer, PublishOps, Published
    <3> QED
        BY <3>1 DEF Registers!Next
  <2> QED
    BY <1>4, <2>4, <2>5
<1>7. CASE call'[p].pc = "idle" /\ call'[p].outcome \in Retryable
  <2>1. PhaseOf(p)' = "unknown" /\ faults' >= 1
    BY <1>0, <1>7, PhaseNext DEF CallSound
  <2>2. metadata' # metadata =>
            faults' # faults /\ Registers!Write(p)
    BY <1>0, <1>1, <1>7, CommitWrites
       DEF CallMoves, Succeeded, Retryable, Registers!Write, PublishOps, Published
  <2>3. metadata' = metadata => Published' = Published
    BY RowsStay
  <2>4. CASE faults' = faults
    <3>1. faults > 0 /\ metadata' = metadata
        BY <1>0, <2>1, <2>2, <2>4
    <3>2. Registers!Fail(p)
        BY <1>1, <1>2, <2>1, <2>3, <2>4, <3>1
           DEF Registers!Fail, Registers!Running, Registers!Answer, PublishOps, Published
    <3> QED
        BY <3>2 DEF Registers!Next
  <2>5. CASE faults < MaxFaults /\ faults' = faults + 1
    <3>1. Registers!Disturb(p)
        BY <1>1, <1>2, <2>1, <2>2, <2>3, <2>5
           DEF Registers!Disturb, Registers!Running, Registers!Answer, PublishOps, Published
    <3> QED
        BY <3>1 DEF Registers!Next
  <2> QED
    BY <1>4, <2>4, <2>5
<1>8. CASE call'[p].pc # "idle" /\ metadata' = metadata
  <2>1. PhaseOf(p)' = PhaseOf(p)
    BY <1>0, <1>8, PhaseMeans, PhaseNext DEF CallMoves
  <2>2. PublishOps' = PublishOps /\ Published' = Published
    BY <1>1, <1>2, <1>8, <2>1, RowsStay DEF PublishOps, PublishOp
  <2>3. CASE faults' = faults
    BY <2>2, <2>3 DEF Registers!vars, PublishOps, Published
  <2>4. CASE faults < MaxFaults /\ faults' = faults + 1
    <3>1. Registers!Disturb(p)
        BY <1>1, <2>2, <2>4 DEF Registers!Disturb, Registers!Running, PublishOps, Published
    <3> QED
        BY <3>1 DEF Registers!Next
  <2> QED
    BY <1>4, <2>3, <2>4
<1>9. CASE call'[p].pc # "idle" /\ metadata' # metadata
  <2>1. /\ RowsOf(metadata, call[p].req.id) = {} /\ metadata' = metadata \union {Candidate(p)}
        /\ faults' # faults
    BY <1>9 DEF CallMoves
  <2>2. Registers!Write(p)
    BY <1>0, <1>1, <2>1, CommitWrites DEF Registers!Write, PublishOps, Published
  <2>3. \E row \in metadata' : row.created = <<p, call'[p].attempt>>
    <3>1. Candidate(p).created = <<p, call'[p].attempt>>
        BY <1>0 DEF Candidate
    <3> QED
        BY <2>1, <3>1
  <2>4. PhaseOf(p)' = "in doubt"
    BY <1>9, <2>3, PhaseNext
  <2>5. Registers!Disturb(p)
    BY <1>1, <1>2, <1>4, <2>1, <2>2, <2>4
       DEF Registers!Disturb, Registers!Running, Registers!Answer, PublishOps
  <2> QED
    BY <2>5 DEF Registers!Next
<1> QED
    BY <1>5, <1>6, <1>7, <1>8, <1>9 DEF CallMoves

\* Entering a call invokes an operation, or one that is declined at once.
LEMMA EnterInvokes ==
    ASSUME IInv, IInv', NEW p \in Publishers, NEW req \in Requests,
           NEW attempt \in 1 .. MaxAttempts, Enter(p, req, attempt), call[p].pc = "idle",
           attempt > call[p].attempt
    PROVE  Registers!Invoke(p) \/ Registers!InvokeDeclined(p)
<1>0. CallTyped /\ metadata' = metadata /\ faults' = faults
    BY DEF IInv, TypeOK, CallTyped, Enter, stores
<1>1. /\ OthersKeep(p) /\ call'[p].req = req /\ call'[p].attempt = attempt
      /\ call'[p].pc \in {"idle", "lookup"} /\ call'[p].outcome \in {"none", "rejected"}
    BY <1>0, EnterMoves, ZenonT(30)
<1>2. call'[p].pc = "idle" => call'[p].outcome = "rejected"
    BY <1>0 DEF Enter, CallTyped
<1>3. \A row \in metadata' : row.created # <<p, call'[p].attempt>>
  <2>1. \A row \in metadata : row.created[1] = p => row.created[2] <= call[p].attempt
    BY DEF IInv, InStep, CallInStep
  <2>2. \A row \in metadata : row.created[2] \in Nat
    BY BoundsAssumption DEF IInv, TypeOK, MetadataRows, Stamps
  <2>3. call[p].attempt \in Nat /\ attempt \in Nat
    BY BoundsAssumption DEF IInv, TypeOK, Calls
  <2> QED
    BY <1>0, <1>1, <2>1, <2>2, <2>3
<1>4. PhaseOf(p)' \in {"pending", "declined"}
    BY <1>1, <1>2, <1>3, PhaseNext DEF Refusals
<1>5. PhaseOf(p) \notin {"pending", "in doubt"}
    BY PhaseMeans
<1> DEFINE o == [key |-> req.id, value |-> req, phase |-> PhaseOf(p)']
<1>6. PublishOp(p)' = o
    BY <1>1 DEF PublishOp
<1>7. \A q \in Publishers : q # p => PublishOp(q)' = PublishOp(q)
    BY <1>0, <1>1, OtherPhases
<1>8. PublishOps' = [PublishOps EXCEPT ![p] = o]
    BY <1>6, <1>7 DEF PublishOps
<1>9. o \in Registers!Ops /\ o.phase \in {"pending", "declined"}
    BY <1>4, RequestsAssumption
       DEF Registers!Ops, Registers!Phases, Registers!Answers, Request
<1>10. PublishOps[p].phase \notin {"pending", "in doubt"}
    BY <1>5 DEF PublishOps, PublishOp
<1>11. Published' = Published
    BY <1>0, RowsStay
<1> HIDE DEF o
<1> QED
    BY <1>0, <1>8, <1>9, <1>10, <1>11
       DEF Registers!Invoke, Registers!InvokeDeclined, Registers!Running, PublishOps, Published

\* The initial state is one of the registers.
LEMMA RegistersInit == Init => Registers!Init
<1> SUFFICES ASSUME Init PROVE Registers!Init
    OBVIOUS
<1>1. metadata = {} /\ faults = 0
    BY DEF Init
<1>2. Published = [id \in Resources |-> {}]
    BY <1>1 DEF Published, PublishedUnder, RowsOf
<1>3. ASSUME NEW p \in Publishers
      PROVE  PublishOp(p) \in {o \in Registers!Ops : o.phase = "new"}
  <2>1. call[p].pc = "idle" /\ call[p].outcome = "none" /\ call[p].req \in Request
    BY InvariantInit, RequestsAssumption DEF Init, IInv, TypeOK, Calls
  <2>2. PhaseOf(p) = "new"
    BY <2>1, PhaseMeans
  <2>3. call[p].req \in Requests
    BY InvariantInit DEF IInv, TypeOK, Calls
  <2> QED
    BY <2>1, <2>2, <2>3 DEF PublishOp, Registers!Ops, Registers!Phases, Request
<1>4. PublishOps \in [Publishers -> {o \in Registers!Ops : o.phase = "new"}]
    BY <1>3 DEF PublishOps
<1> QED
    BY <1>1, <1>2, <1>4 DEF Registers!Init, PublishOps, Published

\* Every step is a step of the registers or a stutter.
LEMMA RegistersStep == IInv /\ IInv' /\ [Next]_vars => [Registers!Next]_(Registers!vars)
<1> SUFFICES ASSUME IInv, IInv', [Next]_vars
             PROVE  Registers!Next \/ UNCHANGED Registers!vars
    BY DEF Registers!vars
<1>1. ASSUME UNCHANGED <<metadata, call>>
      PROVE  PublishOps' = PublishOps /\ Published' = Published
    BY <1>1, RowsStay DEF PublishOps, PublishOp, PhaseOf, Succeeded, Retryable
<1>2. CASE UNCHANGED vars
    BY <1>1, <1>2 DEF vars, Registers!vars, PublishOps, Published
<1>3. ASSUME NEW p \in Publishers, Begin(p) PROVE Registers!Next
  <2>1. PICK req \in Requests : Enter(p, req, 1)
    BY <1>3 DEF Begin
  <2>2. 1 \in 1 .. MaxAttempts /\ 1 > call[p].attempt /\ call[p].pc = "idle"
    BY <1>3, BoundsAssumption DEF Begin, At
  <2> QED
    BY <2>1, <2>2, EnterInvokes DEF Registers!Next
<1>4. ASSUME NEW p \in Publishers, Retry(p) PROVE Registers!Next
  <2>1. /\ call[p].req \in Requests /\ call[p].attempt + 1 \in 1 .. MaxAttempts
        /\ call[p].attempt + 1 > call[p].attempt
    BY <1>4, BoundsAssumption DEF Retry, TypeOK, Calls, IInv
  <2>2. Enter(p, call[p].req, call[p].attempt + 1) /\ call[p].pc = "idle"
    BY <1>4 DEF Retry, At
  <2> QED
    BY <2>1, <2>2, EnterInvokes DEF Registers!Next
<1>5. ASSUME NEW p \in Publishers, PublishStep(p) \/ PublishFault(p)
      PROVE  Registers!Next \/ UNCHANGED Registers!vars
    BY <1>5, StepCallMoves, CallRefines DEF IInv
<1>6. ASSUME NEW s \in Sweepers, SweepStep(s) PROVE UNCHANGED Registers!vars
  <2>1. UNCHANGED <<metadata, call, faults>>
    BY <1>6 DEF SweepStep, DiscoverPage, Inspect, RecordSuspect, stores
  <2> QED
    BY <1>1, <2>1 DEF Registers!vars, PublishOps, Published
<1>7. ASSUME NEW s \in Sweepers, SweepFails(s) PROVE Registers!Next
  <2>1. UNCHANGED <<metadata, call>> /\ faults < MaxFaults /\ faults' = faults + 1
    BY <1>7 DEF SweepFails, Fault, stores
  <2>2. Registers!DisturbOther
    BY <1>1, <2>1 DEF Registers!DisturbOther, PublishOps, Published
  <2> QED
    BY <2>2 DEF Registers!Next
<1> QED
    BY <1>2, <1>3, <1>4, <1>5, <1>6, <1>7 DEF Next

\* Publication implements the abstract register that is written once: under an
\* identity there is nothing or the one thing that was published.
THEOREM PublicationsWriteOnce == Spec => PublicationIsWriteOnce
<1> QED
    BY RegistersInit, RegistersStep, Invariant, PTL DEF Spec, PublicationIsWriteOnce, Registers!Spec

\* Whatever fails, dies or races, the tables of stored resources, provenance,
\* orphan candidates and Objects agree, and with what running calls have seen.
THEOREM StateConsistent == Spec => []Consistent
<1>1. TypeOK /\ InStep /\ UniqueIdentity /\ ArtifactHasObject /\ ProvenanceAtomic
          /\ OrphanNamesObject => Consistent
    BY DEF Consistent
<1> QED
    BY <1>1, TypeCorrect, CallsStayInStep, IdentityUnique, ArtifactsHaveObjects,
       ProvenanceCommitted, OrphansNameObjects, PTL
================================================================================
