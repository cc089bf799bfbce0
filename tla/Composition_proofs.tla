--------------------------- MODULE Composition_proofs ---------------------------
(***************************************************************************)
(* Publication implements the first half of ResourceStore, for every set   *)
(* of publishers, sweepers, identities, contents, documents and requests,  *)
(* and for every bound.                                                    *)
(***************************************************************************)
EXTENDS Composition, Publication_proofs

--------------------------------------------------------------------------------
(* No refused document reaches a transaction. *)

\* A step of a running call goes into a transaction from the validation of its
\* document, or from within.
LEMMA IntoTransaction ==
    ASSUME IInv, NEW p \in Publishers, PublishStep(p) \/ PublishFault(p),
           call'[p].pc \in Transaction
    PROVE  \/ call[p].pc \in Transaction
           \/ call[p].req.profile = "CONFIGURATION"
           \/ call[p].req.document \notin Rejected
<1>0. /\ TypeOK /\ CallTyped /\ call[p].pc \in Steps /\ call[p].req.profile \in Profiles
    BY RequestsAssumption DEF IInv, TypeOK, CallTyped, Calls, Request
<1>1. CASE Lookup(p)
  <2>1. CASE RowsOf(metadata, call[p].req.id) # {}
    <3>1. SettleOnFound(p, RowsOf(metadata, call[p].req.id))
        BY <1>1, <2>1 DEF Lookup
    <3>2. call'[p].pc = "idle"
        BY <1>0, <3>1, SettleOnFoundMoves
    <3> QED
        BY <3>2 DEF Transaction
  <2>2. CASE RowsOf(metadata, call[p].req.id) = {}
    <3>1. CASE call[p].req.profile = "ARTIFACT"
      <4>1. GoTo(p, "put_object") /\ call[p].attempt # 0
        BY <1>0, <1>1, <2>2, <3>1 DEF Lookup, At, CallTyped
      <4>2. call'[p].pc = "put_object"
        BY <1>0, <4>1, GoToMoves DEF Steps
      <4> QED
        BY <4>2 DEF Transaction
    <3> QED
        BY <1>0, <3>1 DEF Profiles
  <2> QED
    BY <2>1, <2>2
<1>2. ASSUME NEW created \in BOOLEAN, BuildCandidate(p, created), call[p].pc # "idle",
             call[p].req.document \in Rejected
      PROVE  FALSE
  <2>1. call'[p].pc = "idle"
    BY <1>0, <1>2 DEF BuildCandidate, CallTyped, Calls
  <2> QED
    BY <2>1 DEF Transaction
<1>3. CASE PutObject(p)
  <2>1. GoTo(p, "stat") => call'[p].pc = "stat"
    BY <1>0, <1>3, GoToMoves DEF PutObject, At, CallTyped, Steps
  <2> QED
    BY <1>2, <1>3, <2>1 DEF PutObject, At, Transaction
<1>4. CASE StatObject(p)
  <2>1. Raise(p, "identity_conflict") => call'[p].pc = "idle"
    BY <1>0, RaiseMoves DEF Outcomes
  <2> QED
    BY <1>2, <1>4, <2>1 DEF StatObject, At, Transaction
<1>5. CASE call[p].pc \in Transaction
    BY <1>5
<1>6. CASE RemoteFailure(p) \/ LostPutObject(p) \/ Crash(p)
  <2>1. ASSUME NEW outcome \in Outcomes, Raise(p, outcome) PROVE FALSE
    <3>1. call'[p].pc = "idle"
        BY <1>0, <2>1, RaiseMoves
    <3> QED
        BY <3>1 DEF Transaction
  <2>2. {"error", "identity_conflict", "incomplete", "crashed"} \subseteq Outcomes
    BY DEF Outcomes, Retryable
  <2> QED
    BY <1>5, <1>6, <2>1, <2>2 DEF RemoteFailure, LostPutObject, Crash, Transaction
<1> QED
    BY <1>1, <1>3, <1>4, <1>5, <1>6
       DEF PublishStep, PublishFault, PutResource, PutProvenance, Commit, Winner, RecordOrphan,
           LostCommit, SpuriousConflict, MismatchedPut, At, Transaction

\* Every step keeps what is validated so.
LEMMA ValidatedNext == IInv /\ Validated /\ [Next]_vars => Validated'
<1> SUFFICES ASSUME IInv, Validated, [Next]_vars,
                    NEW q \in Publishers, PastValidation(call'[q])
             PROVE  call'[q].req.document \notin Rejected
    BY DEF Validated
<1>0. TypeOK /\ CallTyped
    BY DEF IInv, TypeOK, CallTyped
<1>1. CASE call'[q] = call[q]
    BY <1>1 DEF Validated
<1>2. ASSUME NEW p \in Publishers, PublishStep(p) \/ PublishFault(p), p = q
      PROVE  call'[q].req.document \notin Rejected
  <2>1. call[p].pc # "idle" /\ call'[p].req = call[p].req
    BY <1>0, <1>2, StepCallMoves DEF CallMoves, SameAttempt
  <2>2. CASE call[p].req.profile = "CONFIGURATION" \/ call[p].pc \in Transaction
    BY <1>2, <2>1, <2>2 DEF Validated, PastValidation
  <2>3. CASE call[p].req.profile # "CONFIGURATION" /\ call[p].pc \notin Transaction
    BY <1>2, <2>1, <2>3, IntoTransaction DEF PastValidation
  <2> QED
    BY <2>2, <2>3
<1>3. ASSUME NEW p \in Publishers, NEW req \in Requests, NEW attempt \in 1 .. MaxAttempts,
             Enter(p, req, attempt), p = q
      PROVE  call'[q].req.document \notin Rejected
  <2>1. /\ call'[q].req = req
        /\ call'[q].pc = IF req.profile = "CONFIGURATION" /\ req.document \in Rejected
                         THEN "idle" ELSE "lookup"
        /\ call'[q].outcome = IF req.profile = "CONFIGURATION" /\ req.document \in Rejected
                              THEN "rejected" ELSE "none"
    BY <1>0, <1>3 DEF Enter, CallTyped
  <2> QED
    BY <2>1 DEF PastValidation, Transaction, Retryable
<1>4. ASSUME NEW p \in Publishers, Begin(p) \/ Retry(p), p = q
      PROVE  call'[q].req.document \notin Rejected
  <2>1. CASE Begin(p)
    <3>1. PICK req \in Requests : Enter(p, req, 1)
        BY <2>1 DEF Begin
    <3>2. 1 \in 1 .. MaxAttempts
        BY BoundsAssumption
    <3> QED
        BY <1>3, <1>4, <3>1, <3>2
  <2>2. CASE Retry(p)
    <3>1. /\ Enter(p, call[p].req, call[p].attempt + 1)
          /\ call[p].req \in Requests /\ call[p].attempt + 1 \in 1 .. MaxAttempts
        BY <1>0, <2>2, BoundsAssumption DEF Retry, TypeOK, Calls
    <3> QED
        BY <1>3, <1>4, <3>1
  <2> QED
    BY <1>4, <2>1, <2>2
<1>5. ASSUME NEW p \in Publishers, Begin(p) \/ Retry(p) \/ PublishStep(p) \/ PublishFault(p)
      PROVE  call'[q] = call[q] \/ p = q
  <2>1. OthersKeep(p)
    BY <1>5, PublisherSteps DEF StepOf
  <2> QED
    BY <2>1 DEF OthersKeep
<1>6. ASSUME NEW s \in Sweepers, SweepStep(s) \/ SweepFails(s) PROVE call' = call
    BY <1>6 DEF SweepStep, SweepFails, DiscoverPage, Inspect, RecordSuspect
<1> QED
    BY <1>1, <1>2, <1>4, <1>5, <1>6 DEF Next, vars

\* The invariant of Publication, and this.
LEMMA ValidatedAlways == Spec => [](IInv /\ Validated)
<1>1. Init => Validated
    BY DEF Init, Validated, PastValidation, Transaction, Retryable
<1> QED
    BY <1>1, InvariantInit, InvariantNext, ValidatedNext, PTL DEF Spec

--------------------------------------------------------------------------------
(* Rows and requests, as the store sees them. *)

\* The rows of an identity.
LEMMA StoredById ==
    ASSUME NEW id
    PROVE  Halves!ById(id) = {Stored(row) : row \in RowsOf(metadata, id)}
BY DEF Halves!ById, StoredRows, Stored, RowsOf

\* Both compare everything immutable.
LEMMA SameStored ==
    ASSUME NEW req \in Request, NEW row \in MetadataRows
    PROVE  Halves!SamePublication(Asked(req), Stored(row))
               <=> row.id = req.id /\ SamePublication(req, row)
BY DEF Halves!SamePublication, SamePublication, SameContent, Asked, Stored, Request, MetadataRows

\* Both build the same row.
LEMMA StoredCandidate ==
    ASSUME NEW p \in Publishers
    PROVE  Stored(Candidate(p)) = Halves!Candidate(Asked(call[p].req))
BY DEF Stored, Candidate, Halves!Candidate, Asked

\* A commit inserts it.
LEMMA StoredCommit ==
    ASSUME NEW p \in Publishers, metadata' = metadata \union {Candidate(p)}
    PROVE  StoredRows' = StoredRows \union {Halves!Candidate(Asked(call[p].req))}
<1>1. StoredRows' = StoredRows \union {Stored(Candidate(p))}
  <2>1. \A row : row \in metadata' <=> row \in metadata \/ row = Candidate(p)
    OBVIOUS
  <2>2. ASSUME NEW new PROVE new \in StoredRows' <=> new \in StoredRows \/ new = Stored(Candidate(p))
    <3> DEFINE mine == Candidate(p)
    <3>1. \A row : row \in metadata' <=> row \in metadata \/ row = mine
        BY <2>1
    <3> HIDE DEF mine
    <3>2. new \in StoredRows' <=> new \in StoredRows \/ new = Stored(mine)
        BY <3>1 DEF StoredRows, Stored
    <3> QED
        BY <3>2 DEF mine
  <2> QED
    BY <2>2
<1> QED
    BY <1>1, StoredCandidate

\* What is asked for is a request of the store.
LEMMA AskedTyped ==
    ASSUME NEW req \in Request PROVE Asked(req) \in Halves!PublishRequests
BY DEF Request, Asked, Halves!PublishRequests, Halves!Profiles, Profiles, Halves!Pairings

\* Rows that do not change.
LEMMA StoredStay == ASSUME UNCHANGED metadata PROVE StoredRows' = StoredRows
BY DEF StoredRows, Stored

--------------------------------------------------------------------------------
(* The call, as the store sees it. *)

\* A step changes the half of its own call only.
LEMMA HalfMoves ==
    ASSUME NEW p \in Publishers, OthersKeep(p)
    PROVE  HalfCalls' = [HalfCalls EXCEPT ![p] = HalfOf(call'[p])]
<1>1. \A q \in Publishers : q # p => HalfOf(call[q])' = HalfOf(call[q])
    BY DEF OthersKeep, HalfOf, Progress, Answered, Asked, Stored, Succeeded, Retryable
<1>2. HalfOf(call[p])' = HalfOf(call'[p])
    BY DEF HalfOf, Progress, Answered, Asked, Stored, Succeeded, Retryable
<1> HIDE DEF HalfOf
<1> QED
    BY <1>1, <1>2 DEF HalfCalls

\* A half without a row.
LEMMA HalfWithoutRow ==
    ASSUME NEW c, c.receipt = {}
    PROVE  HalfOf(c) = [pc |-> Progress(c), req |-> Asked(c.req), held |-> {},
                        outcome |-> Answered(c)]
<1>1. {Stored(row) : row \in c.receipt} = {}
    OBVIOUS
<1> QED
    BY <1>1 DEF HalfOf

\* What the store sees of a call that runs.
LEMMA RunningHalf ==
    ASSUME IInv, NEW p \in Publishers, call[p].pc # "idle"
    PROVE  /\ call[p].receipt = {} /\ call[p].outcome = "none"
           /\ Answered(call[p]) = IF call[p].pc = "record_orphan" THEN "failed" ELSE "none"
           /\ HalfCalls[p] = [pc |-> Progress(call[p]), req |-> Asked(call[p].req),
                              held |-> {}, outcome |-> Answered(call[p])]
<1>1. call[p].receipt = {} /\ call[p].outcome = "none"
    BY DEF IInv, InStep, CallInStep
<1>2. HalfCalls[p] = HalfOf(call[p])
    BY DEF HalfCalls
<1> QED
    BY <1>1, <1>2, HalfWithoutRow DEF Answered, Retryable

\* A half of which two fields change ...
LEMMA StepAndOutcome ==
    ASSUME NEW r, NEW step, NEW new,
           r = [pc |-> r.pc, req |-> r.req, held |-> r.held, outcome |-> r.outcome]
    PROVE  [r EXCEPT !.pc = step, !.outcome = new]
               = [pc |-> step, req |-> r.req, held |-> r.held, outcome |-> new]
<1> DEFINE s == [r EXCEPT !.pc = step]
<1>1. s = [pc |-> step, req |-> r.req, held |-> r.held, outcome |-> r.outcome]
    OBVIOUS
<1>2. [r EXCEPT !.pc = step, !.outcome = new] = [s EXCEPT !.outcome = new]
    OBVIOUS
<1> HIDE DEF s
<1>3. [s EXCEPT !.outcome = new]
          = [pc |-> step, req |-> r.req, held |-> r.held, outcome |-> new]
    BY <1>1
<1> QED
    BY <1>2, <1>3

\* ... these two, or those.
LEMMA StepAndRow ==
    ASSUME NEW r, NEW step, NEW new,
           r = [pc |-> r.pc, req |-> r.req, held |-> r.held, outcome |-> r.outcome]
    PROVE  [r EXCEPT !.pc = step, !.held = new]
               = [pc |-> step, req |-> r.req, held |-> new, outcome |-> r.outcome]
<1> DEFINE s == [r EXCEPT !.pc = step]
<1>1. s = [pc |-> step, req |-> r.req, held |-> r.held, outcome |-> r.outcome]
    OBVIOUS
<1>2. [r EXCEPT !.pc = step, !.held = new] = [s EXCEPT !.held = new]
    OBVIOUS
<1> HIDE DEF s
<1>3. [s EXCEPT !.held = new]
          = [pc |-> step, req |-> r.req, held |-> new, outcome |-> r.outcome]
    BY <1>1
<1> QED
    BY <1>2, <1>3

\* The calls, of which one changes so ...
LEMMA CallStepAndOutcome ==
    ASSUME NEW D, NEW f, f = [q \in D |-> f[q]], NEW p \in D, NEW step, NEW new
    PROVE  [f EXCEPT ![p].pc = step, ![p].outcome = new]
               = [f EXCEPT ![p] = [f[p] EXCEPT !.pc = step, !.outcome = new]]
<1> DEFINE g == [f EXCEPT ![p].pc = step]
           h == [f[p] EXCEPT !.pc = step]
<1>1. g = [f EXCEPT ![p] = h]
    OBVIOUS
<1>2. [f EXCEPT ![p].pc = step, ![p].outcome = new] = [g EXCEPT ![p].outcome = new]
    OBVIOUS
<1>3. [f[p] EXCEPT !.pc = step, !.outcome = new] = [h EXCEPT !.outcome = new]
    OBVIOUS
<1> HIDE DEF g, h
<1>4. g[p] = h
    BY <1>1
<1>5. [g EXCEPT ![p].outcome = new] = [f EXCEPT ![p] = [h EXCEPT !.outcome = new]]
    BY <1>1, <1>4
<1> QED
    BY <1>2, <1>3, <1>5

\* ... or so.
LEMMA CallStepAndRow ==
    ASSUME NEW D, NEW f, f = [q \in D |-> f[q]], NEW p \in D, NEW step, NEW new
    PROVE  [f EXCEPT ![p].pc = step, ![p].held = new]
               = [f EXCEPT ![p] = [f[p] EXCEPT !.pc = step, !.held = new]]
<1> DEFINE g == [f EXCEPT ![p].pc = step]
           h == [f[p] EXCEPT !.pc = step]
<1>1. g = [f EXCEPT ![p] = h]
    OBVIOUS
<1>2. [f EXCEPT ![p].pc = step, ![p].held = new] = [g EXCEPT ![p].held = new]
    OBVIOUS
<1>3. [f[p] EXCEPT !.pc = step, !.held = new] = [h EXCEPT !.held = new]
    OBVIOUS
<1> HIDE DEF g, h
<1>4. g[p] = h
    BY <1>1
<1>5. [g EXCEPT ![p].held = new] = [f EXCEPT ![p] = [h EXCEPT !.held = new]]
    BY <1>1, <1>4
<1> QED
    BY <1>2, <1>3, <1>5

\* The store's moves of a call, from the half that comes out.
LEMMA HalfAdvances ==
    ASSUME IInv, NEW p \in Publishers, OthersKeep(p), SameAttempt(p), NEW step,
           call[p].pc \notin {"idle", "record_orphan"}, call'[p].receipt = {},
           Progress(call'[p]) = step, Answered(call'[p]) = "none"
    PROVE  Halves!Advance(p, step)
<1>1. HalfCalls' = [HalfCalls EXCEPT ![p] = HalfOf(call'[p])]
    BY HalfMoves
<1>2. HalfOf(call'[p]) = [HalfCalls[p] EXCEPT !.pc = step]
  <2>1. HalfCalls[p] = [pc |-> Progress(call[p]), req |-> Asked(call[p].req),
                        held |-> {}, outcome |-> "none"]
    BY RunningHalf
  <2>2. HalfOf(call'[p]) = [pc |-> step, req |-> Asked(call[p].req),
                            held |-> {}, outcome |-> "none"]
    BY HalfWithoutRow DEF SameAttempt
  <2> QED
    BY <2>1, <2>2
<1> QED
    BY <1>1, <1>2 DEF Halves!Advance, HalfCalls

\* Return
LEMMA HalfReturns ==
    ASSUME IInv, NEW p \in Publishers, OthersKeep(p), SameAttempt(p), NEW outcome,
           call[p].pc # "idle", call'[p].receipt = {},
           Progress(call'[p]) = "idle", Answered(call'[p]) = outcome
    PROVE  Halves!Return(p, outcome)
<1>1. HalfCalls' = [HalfCalls EXCEPT ![p] = HalfOf(call'[p])]
    BY HalfMoves
<1>2. HalfOf(call'[p]) = [HalfCalls[p] EXCEPT !.pc = "idle", !.outcome = outcome]
  <2>1. HalfCalls[p] = [pc |-> Progress(call[p]), req |-> Asked(call[p].req),
                        held |-> {}, outcome |-> Answered(call[p])]
    BY RunningHalf
  <2>2. HalfOf(call'[p]) = [pc |-> "idle", req |-> Asked(call[p].req),
                            held |-> {}, outcome |-> outcome]
    BY HalfWithoutRow DEF SameAttempt
  <2>3. HalfCalls[p] = [pc |-> HalfCalls[p].pc, req |-> HalfCalls[p].req,
                        held |-> HalfCalls[p].held, outcome |-> HalfCalls[p].outcome]
    BY <2>1
  <2>4. [HalfCalls[p] EXCEPT !.pc = "idle", !.outcome = outcome]
            = [pc |-> "idle", req |-> HalfCalls[p].req, held |-> HalfCalls[p].held,
               outcome |-> outcome]
    BY <2>3, StepAndOutcome
  <2> QED
    BY <2>1, <2>2, <2>4
<1>3. HalfCalls = [q \in Publishers |-> HalfCalls[q]]
    BY DEF HalfCalls
<1> QED
    BY <1>1, <1>2, <1>3, CallStepAndOutcome DEF Halves!Return

\* The call settles on a row.
LEMMA HalfSettles ==
    ASSUME IInv, NEW p \in Publishers, OthersKeep(p), SameAttempt(p), NEW row,
           call[p].pc \notin {"idle", "record_orphan"}, call'[p].receipt = {row},
           call'[p].pc = "idle", call'[p].outcome \in Succeeded,
           NEW held, held = {Stored(row)}
    PROVE  HalfCalls' = [HalfCalls EXCEPT ![p].pc = "settled", ![p].held = held]
<1>1. HalfCalls' = [HalfCalls EXCEPT ![p] = HalfOf(call'[p])]
    BY HalfMoves
<1>2. Progress(call'[p]) = "settled" /\ Answered(call'[p]) = "none"
    BY DEF Progress, Answered, Succeeded, Retryable
<1>3. {Stored(other) : other \in call'[p].receipt} = held
    OBVIOUS
<1>4. HalfOf(call'[p]) = [pc |-> "settled", req |-> Asked(call[p].req),
                          held |-> held, outcome |-> "none"]
    BY <1>2, <1>3 DEF HalfOf, SameAttempt
<1>5. HalfCalls[p] = [pc |-> Progress(call[p]), req |-> Asked(call[p].req),
                      held |-> {}, outcome |-> "none"]
    BY RunningHalf
<1>6. [HalfCalls[p] EXCEPT !.pc = "settled", !.held = held]
          = [pc |-> "settled", req |-> HalfCalls[p].req, held |-> held,
             outcome |-> HalfCalls[p].outcome]
  <2>1. HalfCalls[p] = [pc |-> HalfCalls[p].pc, req |-> HalfCalls[p].req,
                        held |-> HalfCalls[p].held, outcome |-> HalfCalls[p].outcome]
    BY <1>5
  <2> DEFINE s == [HalfCalls[p] EXCEPT !.pc = "settled"]
  <2>2. s = [pc |-> "settled", req |-> HalfCalls[p].req, held |-> HalfCalls[p].held,
             outcome |-> HalfCalls[p].outcome]
    BY <2>1
  <2>3. [HalfCalls[p] EXCEPT !.pc = "settled", !.held = held] = [s EXCEPT !.held = held]
    OBVIOUS
  <2> HIDE DEF s
  <2> QED
    BY <2>2, <2>3
<1>7. HalfOf(call'[p]) = [HalfCalls[p] EXCEPT !.pc = "settled", !.held = held]
    BY <1>4, <1>5, <1>6
<1>8. HalfCalls = [q \in Publishers |-> HalfCalls[q]]
    BY DEF HalfCalls
<1>9. [HalfCalls EXCEPT ![p].pc = "settled", ![p].held = held]
          = [HalfCalls EXCEPT ![p] = [HalfCalls[p] EXCEPT !.pc = "settled", !.held = held]]
    BY <1>8, CallStepAndRow
<1> QED
    BY <1>1, <1>7, <1>9

\* A move between two steps that the store does not tell apart.
LEMMA HalfStays ==
    ASSUME IInv, NEW p \in Publishers, OthersKeep(p), SameAttempt(p),
           call[p].pc # "idle", call'[p].receipt = {},
           Progress(call'[p]) = Progress(call[p]), Answered(call'[p]) = Answered(call[p])
    PROVE  HalfCalls' = HalfCalls
<1>1. HalfCalls' = [HalfCalls EXCEPT ![p] = HalfOf(call'[p])]
    BY HalfMoves
<1>2. HalfOf(call'[p]) = HalfCalls[p]
    BY RunningHalf, HalfWithoutRow DEF SameAttempt
<1> QED
    BY <1>1, <1>2 DEF HalfCalls

--------------------------------------------------------------------------------
(* Every step of Publication is one of the store. *)

\* A call that has not begun has no outcome.
Unbegun == \A p \in Publishers : call[p].attempt = 0 => call[p].outcome = "none"

\* The store's variables that Publication has nothing of.
LEMMA Frame == {}' = {} /\ NoPromotions' = NoPromotions /\ NoReads' = NoReads /\ 0' = 0
BY DEF NoPromotions, NoReads, Snapshots, Profiles

\* The rows of an identity, in both.
LEMMA StoredEmpty ==
    ASSUME NEW id
    PROVE  Halves!ById(id) = {} <=> RowsOf(metadata, id) = {}
<1>1. \A row : row \in RowsOf(metadata, id) => Stored(row) \in Halves!ById(id)
    BY StoredById
<1>2. \A new \in Halves!ById(id) : \E row \in RowsOf(metadata, id) : new = Stored(row)
    BY StoredById
<1> QED
    BY <1>1, <1>2

\* Where a call stands and what it asks for, in both.
LEMMA HalfFields ==
    ASSUME NEW p \in Publishers
    PROVE  /\ HalfCalls[p].pc = Progress(call[p])
           /\ HalfCalls[p].req = Asked(call[p].req)
           /\ HalfCalls[p].outcome = Answered(call[p])
           /\ HalfCalls[p].req.id = call[p].req.id
           /\ HalfCalls[p].req.profile = call[p].req.profile
BY DEF HalfCalls, HalfOf, Asked

\* An attempt begins in both.
LEMMA HalfStarts ==
    ASSUME CallTyped, NEW p \in Publishers, NEW req \in Requests,
           NEW attempt \in 1 .. MaxAttempts, Enter(p, req, attempt)
    PROVE  /\ Halves!Start(p, Asked(req))
           /\ UNCHANGED <<StoredRows, {}, NoPromotions, NoReads, 0, faults>>
<1>1. OthersKeep(p) /\ call'[p].req = req /\ call'[p].receipt = {}
    BY EnterMoves
<1> DEFINE refused == req.profile = "CONFIGURATION" /\ req.document \in Rejected
           outcome == IF refused THEN "rejected" ELSE "none"
           half == [pc |-> IF outcome = "none" THEN "lookup" ELSE "idle", req |-> Asked(req),
                    held |-> {}, outcome |-> outcome]
<1>2. /\ call'[p].pc = IF refused THEN "idle" ELSE "lookup"
      /\ call'[p].outcome = outcome
    BY DEF Enter, CallTyped
<1>3. HalfOf(call'[p]) = half
  <2>1. /\ Progress(call'[p]) = IF outcome = "none" THEN "lookup" ELSE "idle"
        /\ Answered(call'[p]) = outcome
    BY <1>2 DEF Progress, Answered, Succeeded, Retryable
  <2> QED
    BY <1>1, <2>1, HalfWithoutRow
<1>4. HalfCalls' = [HalfCalls EXCEPT ![p] = half]
    BY <1>1, <1>3, HalfMoves
<1>5. /\ outcome \in IF Asked(req).profile = "CONFIGURATION" THEN {"none", "rejected"}
                      ELSE {"none"}
    BY DEF Asked
<1>6. Halves!Start(p, Asked(req))
    BY <1>4, <1>5 DEF Halves!Start
<1>7. UNCHANGED metadata /\ UNCHANGED faults
    BY DEF Enter, stores
<1> QED
    BY <1>6, <1>7, StoredStay, Frame

\* An attempt, the first or a later one.
LEMMA AttemptRefines ==
    ASSUME IInv, Unbegun, NEW p \in Publishers, Begin(p) \/ Retry(p)
    PROVE  Halves!BeginPublish(p) \/ Halves!Repeat(p)
<1>0. TypeOK /\ CallTyped /\ call[p] \in Calls /\ call[p].req \in Requests
    BY DEF IInv, TypeOK, CallTyped, Calls
<1>1. CASE Begin(p)
  <2>1. PICK req \in Requests : Enter(p, req, 1)
    BY <1>1 DEF Begin
  <2>2. 1 \in 1 .. MaxAttempts /\ req \in Request
    BY BoundsAssumption, RequestsAssumption
  <2>3. /\ Halves!Start(p, Asked(req)) /\ Asked(req) \in Halves!PublishRequests
        /\ UNCHANGED <<StoredRows, {}, NoPromotions, NoReads, 0, faults>>
    BY <1>0, <2>1, <2>2, HalfStarts, AskedTyped
  <2>4. HalfCalls[p].pc = "idle" /\ HalfCalls[p].outcome = "none"
    <3>1. call[p].pc = "idle" /\ call[p].outcome = "none"
        BY <1>1 DEF Begin, At, Unbegun
    <3> QED
        BY <3>1, HalfFields DEF Progress, Answered, Succeeded, Retryable
  <2> QED
    BY <2>3, <2>4 DEF Halves!BeginPublish, Halves!Is
<1>2. CASE Retry(p)
  <2>1. /\ Enter(p, call[p].req, call[p].attempt + 1)
        /\ call[p].attempt + 1 \in 1 .. MaxAttempts
        /\ call[p].pc = "idle" /\ call[p].outcome \in Retryable
    BY <1>0, <1>2, BoundsAssumption DEF Retry, Calls, At
  <2>2. /\ Halves!Start(p, Asked(call[p].req))
        /\ UNCHANGED <<StoredRows, {}, NoPromotions, NoReads, 0, faults>>
    BY <1>0, <2>1, HalfStarts
  <2>3. HalfCalls[p].pc = "idle" /\ HalfCalls[p].outcome = "failed"
    BY <2>1, HalfFields DEF Progress, Answered, Succeeded, Retryable
  <2>4. Asked(call[p].req) = [HalfCalls[p].req EXCEPT !.expected = HalfCalls[p].req.expected]
    <3>1. HalfCalls[p].req = Asked(call[p].req)
        BY HalfFields
    <3>2. Asked(call[p].req) = [Asked(call[p].req) EXCEPT !.expected = Asked(call[p].req).expected]
        BY DEF Asked
    <3> QED
        BY <3>1, <3>2
  <2> QED
    BY <2>2, <2>3, <2>4 DEF Halves!Repeat, Halves!RetryWith, Halves!Is
<1> QED
    BY <1>1, <1>2

\* A call that found a row settles on it in the store too, or is refused it.
LEMMA FoundRefines ==
    ASSUME IInv, Validated, NEW p \in Publishers, call[p].pc \in {"lookup", "winner"},
           SettleOnFound(p, RowsOf(metadata, call[p].req.id))
    PROVE  \/ \E row \in Halves!ById(HalfCalls[p].req.id) : Halves!SettleOn(p, row)
           \/ /\ call[p].pc = "lookup" /\ call[p].req.profile = "ARTIFACT"
              /\ Halves!Return(p, "rejected")
<1>0. TypeOK /\ call[p].req \in Request /\ call[p].req.profile \in Profiles
    BY RequestsAssumption DEF IInv, TypeOK, Calls, Request
<1>1. /\ OthersKeep(p) /\ SameAttempt(p) /\ call'[p].pc = "idle"
      /\ \E row \in RowsOf(metadata, call[p].req.id) :
            /\ call'[p].outcome = SettleOn(call[p].req, row)
            /\ call'[p].receipt =
                  IF SettleOn(call[p].req, row) = "idempotent" THEN {row} ELSE {}
    BY <1>0, SettleOnFoundMoves
<1>2. PICK row \in RowsOf(metadata, call[p].req.id) :
            /\ call'[p].outcome = SettleOn(call[p].req, row)
            /\ call'[p].receipt =
                  IF SettleOn(call[p].req, row) = "idempotent" THEN {row} ELSE {}
    BY <1>1
<1>3. row \in MetadataRows /\ row.id = call[p].req.id
    BY <1>0 DEF RowsOf, TypeOK
<1>4. Stored(row) \in Halves!ById(HalfCalls[p].req.id)
    BY HalfFields, StoredById
<1>5. /\ HalfCalls[p].req = Asked(call[p].req)
      /\ Halves!SamePublication(HalfCalls[p].req, Stored(row))
             <=> SamePublication(call[p].req, row)
  <2>1. HalfCalls[p].req = Asked(call[p].req)
    BY HalfFields
  <2> QED
    BY <1>0, <1>3, <2>1, SameStored
<1>6. CASE SettleOn(call[p].req, row) = "idempotent"
  <2>1. SamePublication(call[p].req, row)
    BY <1>6 DEF SettleOn
  <2>2. HalfCalls' = [HalfCalls EXCEPT ![p].pc = "settled", ![p].held = {Stored(row)}]
    <3>1. call'[p].receipt = {row} /\ call'[p].outcome \in Succeeded
        BY <1>2, <1>6 DEF Succeeded
    <3> QED
        BY <1>1, <3>1, HalfSettles
  <2> QED
    BY <1>4, <1>5, <2>1, <2>2 DEF Halves!SettleOn
<1>7. CASE SettleOn(call[p].req, row) = "identity_conflict"
  <2>1. ~ SamePublication(call[p].req, row)
    BY <1>7 DEF SettleOn, SamePublication
  <2>2. Halves!Return(p, "identity_conflict")
    <3>1. /\ call'[p].receipt = {} /\ Progress(call'[p]) = "idle"
          /\ Answered(call'[p]) = "identity_conflict"
        BY <1>1, <1>2, <1>7 DEF Progress, Answered, Succeeded, Retryable
    <3> QED
        BY <1>1, <3>1, HalfReturns
  <2> QED
    BY <1>4, <1>5, <2>1, <2>2 DEF Halves!SettleOn
<1>8. CASE SettleOn(call[p].req, row) = "rejected"
  <2>1. call[p].req.document \in Rejected
    BY <1>8 DEF SettleOn
  <2>2. call[p].pc = "lookup" /\ call[p].req.profile = "ARTIFACT"
    BY <1>0, <2>1 DEF Validated, PastValidation, Transaction, Profiles
  <2>3. Halves!Return(p, "rejected")
    <3>1. /\ call'[p].receipt = {} /\ Progress(call'[p]) = "idle"
          /\ Answered(call'[p]) = "rejected"
        BY <1>1, <1>2, <1>8 DEF Progress, Answered, Succeeded, Retryable
    <3> QED
        BY <1>1, <3>1, HalfReturns
  <2> QED
    BY <2>2, <2>3
<1> QED
    BY <1>6, <1>7, <1>8 DEF SettleOn

\* A call that goes on to the transaction, or whose document is refused.
LEMMA BuildRefines ==
    ASSUME IInv, NEW p \in Publishers, call[p].pc \in {"put_object", "stat"},
           NEW created \in BOOLEAN, BuildCandidate(p, created), UNCHANGED <<metadata, faults>>
    PROVE  \/ HalfCalls' = HalfCalls
           \/ Halves!Refuse(p)
<1>0. /\ CallTyped /\ call[p].attempt # 0 /\ call[p].req.profile = "ARTIFACT"
      /\ call[p].receipt = {} /\ call[p].outcome = "none"
    BY DEF IInv, TypeOK, CallTyped, InStep, CallInStep
<1>1. /\ OthersKeep(p) /\ SameAttempt(p) /\ call'[p].receipt = {}
      /\ \/ call'[p].pc = "idle" /\ call'[p].outcome = "rejected"
         \/ call'[p].pc = "put_resource" /\ call'[p].outcome = "none"
    BY <1>0, BuildCandidateMoves
<1>2. Progress(call[p]) = "commit" /\ Answered(call[p]) = "none"
    BY <1>0 DEF Progress, Answered, Retryable
<1>3. CASE call'[p].pc = "idle" /\ call'[p].outcome = "rejected"
  <2>1. Progress(call'[p]) = "idle" /\ Answered(call'[p]) = "rejected"
    BY <1>3 DEF Progress, Answered, Succeeded, Retryable
  <2>2. Halves!Return(p, "rejected")
    BY <1>1, <2>1, HalfReturns
  <2> QED
    BY <1>0, <1>2, <2>2, HalfFields, StoredStay, Frame DEF Halves!Refuse
<1>4. CASE call'[p].pc = "put_resource" /\ call'[p].outcome = "none"
  <2>1. Progress(call'[p]) = "commit" /\ Answered(call'[p]) = "none"
    BY <1>4 DEF Progress, Answered, Retryable
  <2> QED
    BY <1>1, <1>2, <2>1, HalfStays
<1> QED
    BY <1>1, <1>3, <1>4
\* A row of provenance is a row of metadata.
LEMMA ConflictIsOfRow ==
    ASSUME ProvenanceAtomic, NEW id, RowsOf(provenance, id) # {}
    PROVE  RowsOf(metadata, id) # {}
<1>1. PICK record \in provenance : record.id = id
    BY DEF RowsOf
<1>2. PICK row \in metadata : record \in ProvenanceRecords(row)
    BY <1>1 DEF ProvenanceAtomic
<1>3. row.id = id
    BY <1>1, <1>2 DEF ProvenanceRecords
<1> QED
    BY <1>2, <1>3 DEF RowsOf

\* From one remote operation to the next.
LEMMA GoToRefines ==
    ASSUME IInv, NEW p \in Publishers, NEW step \in Steps \ {"idle"}, GoTo(p, step),
           call[p].pc \notin {"idle", "record_orphan"}
    PROVE  /\ step \in {"put_object", "stat", "put_resource", "put_provenance", "commit"} =>
                  /\ call[p].pc = "lookup" => Halves!Advance(p, "commit")
                  /\ Progress(call[p]) = "commit" => HalfCalls' = HalfCalls
           /\ step = "winner" => Halves!Advance(p, "winner")
<1>0. /\ CallTyped /\ call[p].attempt # 0 /\ call[p].receipt = {}
      /\ call[p].outcome = "none" /\ Answered(call[p]) = "none"
    BY RunningHalf DEF IInv, TypeOK, CallTyped
<1>1. /\ OthersKeep(p) /\ SameAttempt(p) /\ call'[p].receipt = {}
      /\ call'[p].pc = step /\ call'[p].outcome = "none"
    BY <1>0, GoToMoves
<1>2. CASE step \in {"put_object", "stat", "put_resource", "put_provenance", "commit"}
  <2>1. Progress(call'[p]) = "commit" /\ Answered(call'[p]) = "none"
    BY <1>1, <1>2 DEF Progress, Answered, Retryable
  <2>2. Halves!Advance(p, "commit")
    BY <1>1, <2>1, HalfAdvances
  <2>3. Progress(call[p]) = "commit" => HalfCalls' = HalfCalls
    BY <1>0, <1>1, <2>1, HalfStays
  <2> QED
    BY <1>2, <2>2, <2>3
<1>3. CASE step = "winner"
  <2>1. Progress(call'[p]) = "winner" /\ Answered(call'[p]) = "none"
    BY <1>1, <1>3 DEF Progress, Answered, Retryable
  <2> QED
    BY <1>1, <1>3, <2>1, HalfAdvances
<1> QED
    BY <1>2, <1>3

\* From a remote operation to the end of the call.
LEMMA RaiseRefines ==
    ASSUME IInv, NEW p \in Publishers, call[p].pc # "idle",
           NEW outcome \in {"identity_conflict"} \union Retryable, Raise(p, outcome)
    PROVE  /\ outcome = "identity_conflict" => Halves!Return(p, "identity_conflict")
           /\ outcome # "identity_conflict" => Halves!Return(p, "failed")
           /\ outcome # "identity_conflict" /\ call[p].pc = "record_orphan" =>
                  HalfCalls' = HalfCalls
<1>0. CallTyped /\ outcome \in Outcomes
    BY DEF IInv, TypeOK, CallTyped, Outcomes
<1>1. /\ OthersKeep(p) /\ SameAttempt(p) /\ call'[p].receipt = {}
      /\ call'[p].pc = "idle" /\ call'[p].outcome = outcome
    BY <1>0, RaiseMoves
<1>2. Progress(call'[p]) = "idle"
    BY <1>1 DEF Progress, Succeeded, Retryable
<1>3. CASE outcome = "identity_conflict"
  <2>1. Answered(call'[p]) = "identity_conflict"
    BY <1>1, <1>3 DEF Answered, Retryable
  <2> QED
    BY <1>1, <1>2, <1>3, <2>1, HalfReturns
<1>4. CASE outcome # "identity_conflict"
  <2>1. Answered(call'[p]) = "failed"
    BY <1>1, <1>4 DEF Answered
  <2>2. Halves!Return(p, "failed")
    BY <1>1, <1>2, <2>1, HalfReturns
  <2>3. ASSUME call[p].pc = "record_orphan" PROVE HalfCalls' = HalfCalls
    <3>1. Progress(call[p]) = "idle" /\ Answered(call[p]) = "failed"
        BY <2>3, RunningHalf DEF Progress, Succeeded
    <3> QED
        BY <1>1, <1>2, <2>1, <3>1, HalfStays
  <2> QED
    BY <1>4, <2>2, <2>3
<1> QED
    BY <1>3, <1>4

\* From the transaction to its failure.
LEMMA FailRefines ==
    ASSUME IInv, NEW p \in Publishers, FailSecondPhase(p), call[p].pc # "idle"
    PROVE  Halves!Return(p, "failed")
<1>0. CallTyped /\ call[p].attempt # 0 /\ call[p].receipt = {}
    BY RunningHalf DEF IInv, TypeOK, CallTyped
<1>1. /\ OthersKeep(p) /\ SameAttempt(p) /\ call'[p].receipt = {}
      /\ \/ call'[p].pc = "record_orphan"
         \/ call'[p].pc = "idle" /\ call'[p].outcome = "error"
    BY <1>0, FailSecondPhaseMoves
<1>2. Progress(call'[p]) = "idle" /\ Answered(call'[p]) = "failed"
    BY <1>1 DEF Progress, Answered, Succeeded, Retryable
<1> QED
    BY <1>1, <1>2, HalfReturns
\* What the store sees of a step that leaves the rows alone.
LEMMA RowsKept ==
    /\ UNCHANGED metadata => UNCHANGED <<StoredRows, {}, NoPromotions, NoReads, 0>>
    /\ UNCHANGED <<metadata, faults>> =>
           UNCHANGED <<StoredRows, {}, NoPromotions, NoReads, 0, faults>>
BY StoredStay, Frame

StoreStutters == UNCHANGED Halves!storeVars

\* A step that the store does not see.
LEMMA Unseen ==
    ASSUME UNCHANGED <<metadata, faults>>, HalfCalls' = HalfCalls
    PROVE  StoreStutters
BY RowsKept DEF StoreStutters, Halves!storeVars

\* The steps of a call that runs.
LEMMA StepRefines ==
    ASSUME IInv, Validated, NEW p \in Publishers, PublishStep(p)
    PROVE  Halves!PublishStep(p) \/ StoreStutters
<1>0. /\ CallInStep(p) /\ ProvenanceAtomic /\ CallTyped
      /\ Candidate(p).id = call[p].req.id
    BY DEF IInv, TypeOK, CallTyped, InStep, TablesAgree, Candidate
<1>a. Steps = {"idle", "lookup", "put_object", "stat", "put_resource",
               "put_provenance", "commit", "winner", "record_orphan"}
    BY DEF Steps
<1>b. /\ HalfCalls[p].req.id = call[p].req.id
      /\ HalfCalls[p].req.profile = call[p].req.profile
      /\ HalfCalls[p].req = Asked(call[p].req)
      /\ HalfCalls[p].pc = Progress(call[p])
    BY HalfFields
<1>c. /\ call[p].pc = "lookup" => HalfCalls[p].pc = "lookup"
      /\ call[p].pc = "winner" => HalfCalls[p].pc = "winner"
      /\ call[p].pc \in {"put_object", "stat", "put_resource", "put_provenance", "commit"} =>
             HalfCalls[p].pc = "commit" /\ Progress(call[p]) = "commit"
    BY <1>b DEF Progress
<1>d. Halves!ById(HalfCalls[p].req.id) = {} <=> RowsOf(metadata, call[p].req.id) = {}
    BY <1>b, StoredEmpty
<1>e. ASSUME UNCHANGED <<metadata, faults>>
      PROVE  UNCHANGED <<StoredRows, {}, NoPromotions, NoReads, 0, faults>>
    BY <1>e, RowsKept
<1>f. ASSUME GoTo(p, "winner"), UNCHANGED <<metadata, faults>>,
             call[p].pc \in {"put_resource", "put_provenance", "commit"},
             RowsOf(metadata, call[p].req.id) # {}
      PROVE  Halves!Commit(p)
  <2>1. Halves!Advance(p, "winner")
    BY <1>a, <1>f, GoToRefines
  <2> QED
    BY <1>c, <1>d, <1>e, <1>f, <2>1 DEF Halves!Commit, Halves!Is
<1>g. ASSUME NEW step \in {"put_object", "stat", "put_resource", "put_provenance", "commit"},
             GoTo(p, step), UNCHANGED <<metadata, faults>>,
             call[p].pc \in {"put_object", "stat", "put_resource", "put_provenance", "commit"}
      PROVE  StoreStutters
  <2>1. HalfCalls' = HalfCalls
    BY <1>a, <1>c, <1>g, GoToRefines
  <2> QED
    BY <1>g, <2>1, Unseen
<1>1. CASE Lookup(p)
  <2>0. call[p].pc = "lookup" /\ UNCHANGED <<metadata, faults>>
    BY <1>1 DEF Lookup, At, stores
  <2>1. CASE RowsOf(metadata, call[p].req.id) # {}
    <3>1. SettleOnFound(p, RowsOf(metadata, call[p].req.id))
        BY <1>1, <2>1 DEF Lookup
    <3>2. \/ \E row \in Halves!ById(HalfCalls[p].req.id) : Halves!SettleOn(p, row)
          \/ call[p].req.profile = "ARTIFACT" /\ Halves!Return(p, "rejected")
        BY <2>0, <3>1, FoundRefines
    <3>3. Halves!Lookup(p) \/ Halves!Refuse(p)
        BY <1>b, <1>c, <1>e, <2>0, <3>2 DEF Halves!Lookup, Halves!Refuse, Halves!Is
    <3> QED
        BY <3>3 DEF Halves!PublishStep
  <2>2. CASE RowsOf(metadata, call[p].req.id) = {}
    <3>1. PICK step \in {"put_object", "put_resource"} : GoTo(p, step)
        BY <1>1, <2>2 DEF Lookup
    <3>2. Halves!Advance(p, "commit")
        BY <1>a, <2>0, <3>1, GoToRefines
    <3>3. Halves!Lookup(p)
        BY <1>c, <1>d, <1>e, <2>0, <2>2, <3>2 DEF Halves!Lookup, Halves!Is
    <3> QED
        BY <3>3 DEF Halves!PublishStep
  <2> QED
    BY <2>1, <2>2
<1>2. CASE PutObject(p)
  <2>0. call[p].pc = "put_object" /\ UNCHANGED <<metadata, faults>>
    BY <1>2 DEF PutObject, At, tables
  <2>1. CASE BuildCandidate(p, TRUE)
    BY <2>0, <2>1, BuildRefines, Unseen DEF Halves!PublishStep
  <2>2. CASE GoTo(p, "stat")
    BY <1>g, <2>0, <2>2
  <2> QED
    BY <1>2, <2>1, <2>2 DEF PutObject
<1>3. CASE StatObject(p)
  <2>0. call[p].pc = "stat" /\ UNCHANGED <<metadata, faults>>
    BY <1>3 DEF StatObject, At, stores
  <2>1. CASE BuildCandidate(p, FALSE)
    BY <2>0, <2>1, BuildRefines, Unseen DEF Halves!PublishStep
  <2>2. CASE Raise(p, "identity_conflict")
    <3>1. Halves!Return(p, "identity_conflict") /\ call[p].req.profile = "ARTIFACT"
        BY <1>0, <2>0, <2>2, RaiseRefines DEF CallInStep
    <3>2. Halves!Refuse(p)
        BY <1>b, <1>c, <1>e, <2>0, <3>1 DEF Halves!Refuse, Halves!Is
    <3> QED
        BY <3>2 DEF Halves!PublishStep
  <2> QED
    BY <1>3, <2>1, <2>2 DEF StatObject
<1>4. CASE PutResource(p)
  <2>0. call[p].pc = "put_resource" /\ UNCHANGED <<metadata, faults>>
    BY <1>4 DEF PutResource, At, stores
  <2>1. CASE RowsOf(metadata, call[p].req.id) # {}
    <3>1. GoTo(p, "winner")
        BY <1>4, <2>1 DEF PutResource
    <3> QED
        BY <1>f, <2>0, <2>1, <3>1 DEF Halves!PublishStep
  <2>2. CASE RowsOf(metadata, call[p].req.id) = {}
    <3>1. GoTo(p, "put_provenance") \/ GoTo(p, "commit")
        BY <1>4, <2>2 DEF PutResource
    <3> QED
        BY <1>g, <2>0, <3>1
  <2> QED
    BY <2>1, <2>2
<1>5. CASE PutProvenance(p)
  <2>0. call[p].pc = "put_provenance" /\ UNCHANGED <<metadata, faults>>
    BY <1>5 DEF PutProvenance, At, stores
  <2>1. CASE RowsOf(provenance, call[p].req.id) # {}
    <3>1. GoTo(p, "winner") /\ RowsOf(metadata, call[p].req.id) # {}
        BY <1>0, <1>5, <2>1, ConflictIsOfRow DEF PutProvenance
    <3> QED
        BY <1>f, <2>0, <3>1 DEF Halves!PublishStep
  <2>2. CASE RowsOf(provenance, call[p].req.id) = {}
    <3>1. GoTo(p, "commit")
        BY <1>5, <2>2 DEF PutProvenance
    <3> QED
        BY <1>g, <2>0, <3>1
  <2> QED
    BY <2>1, <2>2
<1>6. CASE Commit(p)
  <2>0. call[p].pc = "commit" /\ UNCHANGED faults
    BY <1>6 DEF Commit, At
  <2>1. CASE CommitConflicts(p)
    <3>1. /\ GoTo(p, "winner") /\ UNCHANGED metadata
          /\ RowsOf(metadata, call[p].req.id) # {}
        BY <1>0, <1>6, <2>1, ConflictIsOfRow DEF Commit, CommitConflicts
    <3> QED
        BY <1>f, <2>0, <3>1 DEF Halves!PublishStep
  <2>2. CASE ~ CommitConflicts(p)
    <3>1. PICK outcome \in Succeeded : Return(p, outcome, {Candidate(p)})
        BY <1>6, <2>2 DEF Commit, Succeeded
    <3>2. /\ metadata' = metadata \union {Candidate(p)}
          /\ RowsOf(metadata, call[p].req.id) = {}
        BY <1>6, <2>2 DEF Commit, CommitRows, CommitConflicts
    <3>3. Candidate(p) \in MetadataRows
      <4>1. call[p].attempt \in 1 .. MaxAttempts
        BY <1>0, <2>0, BoundsAssumption DEF CallTyped, Calls
      <4> QED
        BY <1>0, <4>1, RequestsAssumption
           DEF Candidate, CallTyped, Calls, Request, MetadataRows, Stamps
    <3>4. /\ OthersKeep(p) /\ SameAttempt(p) /\ call'[p].pc = "idle"
          /\ call'[p].outcome \in Succeeded /\ call'[p].receipt = {Candidate(p)}
        BY <1>0, <3>1, <3>3, ReturnMoves DEF Outcomes
    <3> DEFINE mine == {Halves!Candidate(Asked(call[p].req))}
               row == Candidate(p)
    <3>5. mine = {Stored(row)}
        BY StoredCandidate
    <3> HIDE DEF mine, row
    <3>6. HalfCalls' = [HalfCalls EXCEPT ![p].pc = "settled", ![p].held = mine]
      <4>1. call[p].pc \notin {"idle", "record_orphan"} /\ call'[p].receipt = {row}
        BY <2>0, <3>4 DEF row
      <4> QED
        BY <3>4, <3>5, <4>1, HalfSettles
    <3>7. StoredRows' = StoredRows \union {Halves!Candidate(Asked(call[p].req))}
        BY <3>2, StoredCommit
    <3>8. Halves!Commit(p)
        BY <1>b, <1>c, <1>d, <2>0, <3>2, <3>6, <3>7, Frame DEF Halves!Commit, Halves!Is, mine
    <3> QED
        BY <3>8 DEF Halves!PublishStep
  <2> QED
    BY <2>1, <2>2
<1>7. CASE Winner(p)
  <2>0. call[p].pc = "winner" /\ UNCHANGED <<metadata, faults>>
    BY <1>7 DEF Winner, At, stores
  <2>1. CASE RowsOf(metadata, call[p].req.id) # {}
    <3>1. SettleOnFound(p, RowsOf(metadata, call[p].req.id))
        BY <1>7, <2>1 DEF Winner
    <3>2. \E row \in Halves!ById(HalfCalls[p].req.id) : Halves!SettleOn(p, row)
        BY <2>0, <3>1, FoundRefines
    <3>3. Halves!Winner(p)
        BY <1>c, <1>e, <2>0, <3>2 DEF Halves!Winner, Halves!Is
    <3> QED
        BY <3>3 DEF Halves!PublishStep
  <2>2. CASE RowsOf(metadata, call[p].req.id) = {}
    <3>1. Halves!Return(p, "failed")
        BY <1>7, <2>0, <2>2, FailRefines DEF Winner
    <3>2. Halves!Winner(p)
        BY <1>c, <1>d, <1>e, <2>0, <2>2, <3>1 DEF Halves!Winner, Halves!Is
    <3> QED
        BY <3>2 DEF Halves!PublishStep
  <2> QED
    BY <2>1, <2>2
<1>8. CASE RecordOrphan(p)
  <2>0. call[p].pc = "record_orphan" /\ Raise(p, "incomplete")
        /\ UNCHANGED <<metadata, faults>>
    BY <1>8 DEF RecordOrphan, At
  <2>1. HalfCalls' = HalfCalls
    BY <2>0, RaiseRefines DEF Retryable
  <2> QED
    BY <2>0, <2>1, Unseen
<1> QED
    BY <1>1, <1>2, <1>3, <1>4, <1>5, <1>6, <1>7, <1>8 DEF PublishStep
\* What goes wrong in a call.
LEMMA FaultRefines ==
    ASSUME IInv, Validated, NEW p \in Publishers, PublishFault(p)
    PROVE  \/ Halves!PublishFails(p) \/ Halves!LostCommit(p)
           \/ Halves!SpuriousPublishConflict(p) \/ Halves!LapseElsewhere
<1>0. CallInStep(p) /\ call[p].pc \in Steps
    BY DEF IInv, TypeOK, InStep, Calls
<1>a. Steps = {"idle", "lookup", "put_object", "stat", "put_resource",
               "put_provenance", "commit", "winner", "record_orphan"}
    BY DEF Steps
<1>b. /\ HalfCalls[p].req.id = call[p].req.id
      /\ HalfCalls[p].req.profile = call[p].req.profile
      /\ HalfCalls[p].req = Asked(call[p].req)
      /\ HalfCalls[p].pc = Progress(call[p])
    BY HalfFields
<1>c. /\ call[p].pc \in {"put_object", "stat", "put_resource", "put_provenance", "commit"} =>
             HalfCalls[p].pc = "commit"
      /\ call[p].pc \notin {"idle", "record_orphan"} =>
             HalfCalls[p].pc \in {"lookup", "commit", "winner"}
    BY <1>0, <1>a, <1>b DEF Progress
<1>d. Halves!ById(HalfCalls[p].req.id) = {} <=> RowsOf(metadata, call[p].req.id) = {}
    BY <1>b, StoredEmpty
<1>e. Fault => Halves!Lapse
    BY DEF Fault, Halves!Lapse
<1>f. UNCHANGED metadata => UNCHANGED <<StoredRows, {}, NoPromotions, NoReads, 0>>
    BY RowsKept
<1>1. ASSUME Fault, UNCHANGED metadata, call[p].pc \notin {"idle", "record_orphan"},
             Halves!Return(p, "failed")
      PROVE  Halves!PublishFails(p)
    BY <1>1, <1>c, <1>e, <1>f DEF Halves!PublishFails
<1>2. ASSUME Fault, UNCHANGED metadata, Raise(p, "identity_conflict"),
             call[p].pc \in {"put_object", "put_resource"},
             call[p].req.profile = "ARTIFACT"
      PROVE  Halves!PublishFails(p)
  <2>1. Halves!Return(p, "identity_conflict")
    BY <1>2, RaiseRefines
  <2> QED
    BY <1>2, <1>b, <1>c, <1>e, <1>f, <2>1 DEF Halves!PublishFails, Halves!Is
<1>3. ASSUME NEW outcome \in Retryable, Fault, UNCHANGED metadata, Raise(p, outcome),
             call[p].pc # "idle"
      PROVE  Halves!PublishFails(p) \/ Halves!LapseElsewhere
  <2>1. outcome # "identity_conflict"
    BY <1>3 DEF Retryable
  <2>2. CASE call[p].pc = "record_orphan"
    <3>1. HalfCalls' = HalfCalls
        BY <1>3, <2>1, <2>2, RaiseRefines
    <3> QED
        BY <1>3, <1>e, <1>f, <3>1 DEF Halves!LapseElsewhere
  <2>3. CASE call[p].pc # "record_orphan"
    <3>1. Halves!Return(p, "failed")
        BY <1>3, <2>1, RaiseRefines
    <3> QED
        BY <1>1, <1>3, <2>3, <3>1
  <2> QED
    BY <2>2, <2>3
<1>4. CASE RemoteFailure(p)
  <2>0. Fault /\ UNCHANGED metadata /\ {"error", "incomplete"} \subseteq Retryable
    BY <1>4 DEF RemoteFailure, stores, Retryable
  <2>1. CASE call[p].pc # "idle" /\ (Raise(p, "error") \/ Raise(p, "incomplete"))
    BY <1>3, <2>0, <2>1
  <2>2. CASE call[p].pc \notin {"idle", "record_orphan"} /\ FailSecondPhase(p)
    BY <1>1, <2>0, <2>2, FailRefines
  <2> QED
    BY <1>4, <2>1, <2>2 DEF RemoteFailure, At
<1>5. CASE LostPutObject(p)
  <2>0. /\ Fault /\ UNCHANGED metadata /\ "error" \in Retryable
        /\ call[p].pc = "put_object" /\ call[p].req.profile = "ARTIFACT"
    BY <1>0, <1>5 DEF LostPutObject, At, tables, Retryable, CallInStep
  <2> QED
    BY <1>2, <1>3, <1>5, <2>0 DEF LostPutObject
<1>6. CASE LostCommit(p)
  <2>1. /\ Fault /\ call[p].pc = "commit" /\ FailSecondPhase(p)
        /\ metadata' = metadata \union {Candidate(p)}
        /\ RowsOf(metadata, call[p].req.id) = {}
    BY <1>6 DEF LostCommit, At, CommitRows, CommitConflicts
  <2>2. Halves!Return(p, "failed")
    BY <2>1, FailRefines
  <2>3. StoredRows' = StoredRows \union {Halves!Candidate(Asked(call[p].req))}
    BY <2>1, StoredCommit
  <2> QED
    BY <1>b, <1>c, <1>d, <1>e, <2>1, <2>2, <2>3, Frame DEF Halves!LostCommit, Halves!Is
<1>7. CASE SpuriousConflict(p)
  <2>1. /\ Fault /\ UNCHANGED metadata /\ GoTo(p, "winner")
        /\ call[p].pc \in {"put_resource", "put_provenance", "commit"}
    BY <1>7 DEF SpuriousConflict, stores
  <2>2. Halves!Advance(p, "winner")
    BY <1>a, <2>1, GoToRefines
  <2> QED
    BY <1>c, <1>e, <1>f, <2>1, <2>2 DEF Halves!SpuriousPublishConflict, Halves!Is
<1>8. CASE MismatchedPut(p)
    BY <1>2, <1>8 DEF MismatchedPut, At, stores
<1>9. CASE Crash(p)
    BY <1>3, <1>9 DEF Crash, At, stores, Retryable
<1> QED
    BY <1>4, <1>5, <1>6, <1>7, <1>8, <1>9 DEF PublishFault

\* A sweep publishes nothing.
LEMMA SweepRefines ==
    ASSUME NEW s \in Sweepers, SweepStep(s) \/ SweepFails(s)
    PROVE  StoreStutters \/ Halves!LapseElsewhere
<1>1. UNCHANGED <<metadata, call>>
    BY DEF SweepStep, SweepFails, DiscoverPage, Inspect, RecordSuspect, stores
<1>2. HalfCalls' = HalfCalls
    BY <1>1 DEF HalfCalls, HalfOf, Progress, Answered, Asked, Stored, Succeeded, Retryable
<1>3. CASE SweepStep(s)
  <2>1. UNCHANGED faults
    BY <1>3 DEF SweepStep, DiscoverPage, Inspect, RecordSuspect
  <2> QED
    BY <1>1, <1>2, <2>1, Unseen
<1>4. CASE SweepFails(s)
  <2>1. Halves!Lapse
    BY <1>4 DEF SweepFails, Fault, Halves!Lapse
  <2> QED
    BY <1>1, <1>2, <2>1, RowsKept DEF Halves!LapseElsewhere
<1> QED
    BY <1>3, <1>4

--------------------------------------------------------------------------------

\* Attempts are counted from the first.
LEMMA UnbegunNext == IInv /\ Unbegun /\ [Next]_vars => Unbegun'
<1> SUFFICES ASSUME IInv, Unbegun, [Next]_vars, NEW q \in Publishers, call'[q].attempt = 0
             PROVE  call'[q].outcome = "none"
    BY DEF Unbegun
<1>0. TypeOK /\ CallTyped /\ call \in [Publishers -> Calls]
    BY DEF IInv, TypeOK, CallTyped
<1>1. CASE call'[q] = call[q]
    BY <1>1 DEF Unbegun
<1>2. ASSUME NEW p \in Publishers, Begin(p) \/ Retry(p) \/ PublishStep(p) \/ PublishFault(p)
      PROVE  call'[q] = call[q]
  <2>1. OthersKeep(p)
    BY <1>2, PublisherSteps DEF StepOf
  <2>2. CASE p = q
    <3>1. CASE PublishStep(p) \/ PublishFault(p)
      <4>1. call[p].pc # "idle" /\ call'[p].attempt = call[p].attempt
        BY <1>0, <3>1, StepCallMoves DEF CallMoves, SameAttempt
      <4> QED
        BY <1>0, <2>2, <4>1 DEF CallTyped
    <3>2. ASSUME NEW req \in Requests, NEW attempt \in 1 .. MaxAttempts,
                 Enter(p, req, attempt)
          PROVE  FALSE
      <4>1. call'[p].attempt = attempt
        BY <1>0, <3>2, EnterMoves
      <4> QED
        BY <2>2, <4>1, BoundsAssumption
    <3>3. CASE Begin(p)
        BY <3>2, <3>3, BoundsAssumption DEF Begin
    <3>4. CASE Retry(p)
      <4>1. /\ Enter(p, call[p].req, call[p].attempt + 1)
            /\ call[p].req \in Requests /\ call[p].attempt + 1 \in 1 .. MaxAttempts
        BY <1>0, <3>4, BoundsAssumption DEF Retry, Calls
      <4> QED
        BY <3>2, <4>1
    <3> QED
        BY <1>2, <3>1, <3>3, <3>4
  <2> QED
    BY <2>1, <2>2 DEF OthersKeep
<1>3. ASSUME NEW s \in Sweepers, SweepStep(s) \/ SweepFails(s) PROVE call' = call
    BY <1>3 DEF SweepStep, SweepFails, DiscoverPage, Inspect, RecordSuspect
<1> QED
    BY <1>1, <1>2, <1>3 DEF Next, vars

\* The initial states.
LEMMA StoreBegins == Init => Halves!StoreInit
<1> SUFFICES ASSUME Init PROVE Halves!StoreInit
    OBVIOUS
<1>1. StoredRows = {}
    BY DEF Init, StoredRows
<1>2. Halves!Init
    BY <1>1 DEF Halves!Init, NoPromotions, NoReads, Halves!Keys
<1>3. ASSUME NEW p \in Publishers
      PROVE  /\ HalfOf(call[p]) \in Halves!PublishCalls
             /\ HalfOf(call[p]).pc = "idle" /\ HalfOf(call[p]).held = {}
             /\ HalfOf(call[p]).outcome = "none"
  <2>1. /\ call[p].pc = "idle" /\ call[p].outcome = "none" /\ call[p].receipt = {}
        /\ call[p].req \in Request
    BY RequestsAssumption DEF Init
  <2>2. Progress(call[p]) = "idle" /\ Answered(call[p]) = "none"
    BY <2>1 DEF Progress, Answered, Succeeded, Retryable
  <2>3. HalfOf(call[p]) = [pc |-> "idle", req |-> Asked(call[p].req), held |-> {},
                           outcome |-> "none"]
    BY <2>1, <2>2, HalfWithoutRow
  <2>4. Asked(call[p].req) \in Halves!PublishRequests
    BY <2>1, AskedTyped
  <2> QED
    BY <2>3, <2>4 DEF Halves!PublishCalls, Halves!Verdicts, Halves!Unpublished
<1>4. HalfCalls \in [Publishers ->
          {c \in Halves!PublishCalls : c.pc = "idle" /\ c.held = {} /\ c.outcome = "none"}]
    BY <1>3 DEF HalfCalls
<1> QED
    BY <1>2, <1>4 DEF Halves!StoreInit, Init

\* A step of Publication is a step of the store, or one that it does not see.
LEMMA StoreMoves ==
    IInv /\ Validated /\ Unbegun /\ [Next]_vars => [Halves!StoreNext]_(Halves!storeVars)
<1> SUFFICES ASSUME IInv, Validated, Unbegun, [Next]_vars
             PROVE  Halves!StoreNext \/ StoreStutters
    BY DEF StoreStutters
<1>1. ASSUME NEW p \in Publishers, Begin(p) \/ Retry(p) PROVE Halves!StoreNext
    BY <1>1, AttemptRefines DEF Halves!StoreNext
<1>2. ASSUME NEW p \in Publishers, PublishStep(p) PROVE Halves!StoreNext \/ StoreStutters
    BY <1>2, StepRefines DEF Halves!StoreNext
<1>3. ASSUME NEW p \in Publishers, PublishFault(p) PROVE Halves!StoreNext
    BY <1>3, FaultRefines DEF Halves!StoreNext
<1>4. ASSUME NEW s \in Sweepers, SweepStep(s) \/ SweepFails(s)
      PROVE  Halves!StoreNext \/ StoreStutters
    BY <1>4, SweepRefines DEF Halves!StoreNext
<1>5. CASE UNCHANGED vars
  <2>1. UNCHANGED <<metadata, call, faults>>
    BY <1>5 DEF vars
  <2>2. HalfCalls' = HalfCalls
    BY <2>1 DEF HalfCalls, HalfOf, Progress, Answered, Asked, Stored, Succeeded, Retryable
  <2> QED
    BY <2>1, <2>2, Unseen
<1> QED
    BY <1>1, <1>2, <1>3, <1>4, <1>5 DEF Next

\* Publication, with its Object, its transaction and its orphan records, is the
\* first half of the publish call of ResourceStore: what ResourceStore has in one
\* commit, and what it leaves open, is what the code does with all of its
\* remote operations.
THEOREM PublicationsAreStore == Spec => PublicationIsStore
<1>1. Init => Unbegun
    BY DEF Init, Unbegun
<1> QED
    BY <1>1, StoreBegins, StoreMoves, UnbegunNext, ValidatedAlways, PTL
       DEF Spec, PublicationIsStore, Halves!StoreSpec

\* A document that StoredResourceV1 refuses is never stored, in a row of either
\* profile: the validation comes before the transaction on every way into it.
THEOREM RefusedNeverStored == Spec => []OnlyAccepted
<1>1. Init => OnlyAccepted
    BY DEF Init, OnlyAccepted
<1>2. IInv /\ Validated /\ OnlyAccepted /\ [Next]_vars => OnlyAccepted'
  <2> SUFFICES ASSUME IInv, Validated, OnlyAccepted, [Next]_vars PROVE OnlyAccepted'
    OBVIOUS
  <2>1. TablesStep
    BY TablesMove
  <2>2. CASE UNCHANGED metadata
    BY <2>2 DEF OnlyAccepted
  <2>3. ASSUME NEW p \in Publishers, At(p, "commit"), CommitRows(p) PROVE OnlyAccepted'
    <3>1. call[p].req.document \notin Rejected
        BY <2>3 DEF At, Validated, PastValidation, Transaction
    <3>2. Candidate(p).document \notin Rejected
        BY <3>1 DEF Candidate
    <3> QED
        BY <2>3, <3>2 DEF CommitRows, OnlyAccepted
  <2> QED
    BY <2>1, <2>2, <2>3 DEF TablesStep
<1> QED
    BY <1>1, <1>2, ValidatedAlways, PTL DEF Spec
================================================================================
