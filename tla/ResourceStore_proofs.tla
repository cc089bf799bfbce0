-------------------------- MODULE ResourceStore_proofs --------------------------
(***************************************************************************)
(* Theorems about ResourceStore, for every set of publishers, promoters,   *)
(* resources and channel names, and for every bound.  The store is shown   *)
(* to implement Channels first; what Channels_proofs has then holds of it. *)
(***************************************************************************)
EXTENDS ResourceStore, Channels_proofs

--------------------------------------------------------------------------------
(* The invariant. *)

OneRowEach == \A row, other \in resources : row.id = other.id => row = other

SInv == /\ IInv /\ StoreTypeOK /\ OneRowEach
        /\ \A p \in Publishers : HandOver(p)

\* The steps that a publisher takes, but for those of its promotion.
PublisherStep(p) ==
    BeginPublish(p) \/ Repeat(p) \/ Reread(p) \/ PublishStep(p)
        \/ PublishFails(p) \/ LostCommit(p) \/ SpuriousPublishConflict(p)

--------------------------------------------------------------------------------
(* Rows, and how a step moves them. *)

\* The row that a commit inserts is a row, and no other row of its identity is.
LEMMA CandidateTyped ==
    ASSUME NEW req \in PublishRequests
    PROVE  /\ Candidate(req) \in ResourceRows
           /\ Candidate(req).id = req.id /\ Candidate(req).profile = req.profile
           /\ Candidate(req).digest = req.digest /\ Candidate(req).state = "PUBLISHED"
<1> QED
    BY DEF Candidate, PublishRequests, ResourceRows, States

\* What Carries compares: everything of a row but its state.
LEMMA CarriesFields ==
    ASSUME NEW req \in PublishRequests, NEW row \in ResourceRows
    PROVE  Carries(row, req) <=>
               row.id = req.id /\ row.profile = req.profile /\ row.digest = req.digest
<1>1. [row EXCEPT !.state = "PUBLISHED"] =
          [id |-> row.id, profile |-> row.profile, digest |-> row.digest, state |-> "PUBLISHED"]
    BY DEF ResourceRows
<1> QED
    BY <1>1 DEF Carries, Candidate

\* Rows appear under free identities, or are deprecated, one in a step; a
\* deprecated row stays.
RowsStep ==
    /\ resources' \subseteq ResourceRows
    /\ \A row \in resources :
           \/ row \in resources'
           \/ /\ row.state = "PUBLISHED"
              /\ \E new \in resources' : /\ new.id = row.id /\ new.profile = row.profile
                                         /\ new.digest = row.digest
    /\ \A new \in resources' :
           \/ new \in resources
           \/ ById(new.id) = {}
           \/ \E row \in resources \ resources' :
                  /\ new.id = row.id /\ new.profile = row.profile /\ new.digest = row.digest
    /\ \A new, other \in resources' \ resources : new = other

\* A row that is inserted under a free identity moves the rows so.
LEMMA InsertedRow ==
    ASSUME StoreTypeOK, NEW req \in PublishRequests, ById(req.id) = {},
           resources' = resources \union {Candidate(req)}
    PROVE  RowsStep
<1> QED
    BY CandidateTyped DEF RowsStep, StoreTypeOK, TypeOK

\* Every step moves the rows so.
LEMMA RowsMove == StoreTypeOK /\ [StoreNext]_storeVars => RowsStep
<1> SUFFICES ASSUME StoreTypeOK, [StoreNext]_storeVars PROVE RowsStep
    OBVIOUS
<1>0. TypeOK /\ resources \subseteq ResourceRows
    BY DEF StoreTypeOK, TypeOK
<1>1. CASE UNCHANGED resources
    BY <1>0, <1>1 DEF RowsStep
<1>2. ASSUME NEW id \in Resources, Publish(id) PROVE RowsStep
  <2>1. PICK profile \in Profiles, digest \in Digests :
            resources' = resources \union
                {[id |-> id, profile |-> profile, digest |-> digest, state |-> "PUBLISHED"]}
    BY <1>2 DEF Publish
  <2> DEFINE new == [id |-> id, profile |-> profile, digest |-> digest, state |-> "PUBLISHED"]
  <2>2. new \in ResourceRows /\ new.id = id
    BY DEF ResourceRows, States
  <2>3. ById(id) = {}
    BY <1>2 DEF Publish
  <2> HIDE DEF new
  <2> QED
    BY <1>0, <2>1, <2>2, <2>3 DEF RowsStep, new
<1>3. ASSUME NEW id \in Resources, Deprecate(id) PROVE RowsStep
  <2>1. PICK row \in ById(id) :
            /\ row.state = "PUBLISHED"
            /\ resources' = (resources \ {row}) \union {[row EXCEPT !.state = "DEPRECATED"]}
    BY <1>3 DEF Deprecate
  <2> DEFINE new == [row EXCEPT !.state = "DEPRECATED"]
  <2>2. row \in resources /\ row \in ResourceRows
    BY <1>0 DEF ById
  <2>3. /\ new \in ResourceRows /\ new.id = row.id /\ new.profile = row.profile
        /\ new.digest = row.digest /\ new # row
    BY <2>1, <2>2 DEF ResourceRows, States
  <2>4. resources' = (resources \ {row}) \union {new}
    BY <2>1
  <2> HIDE DEF new
  <2>5. resources' \subseteq ResourceRows /\ row \notin resources' /\ new \in resources'
    BY <1>0, <2>3, <2>4
  <2>6. \A other \in resources : other \in resources' \/ other = row
    BY <2>4
  <2>7. \A other \in resources' : other \in resources \/ other = new
    BY <2>4
  <2> QED
    BY <2>1, <2>2, <2>3, <2>5, <2>6, <2>7 DEF RowsStep
<1>4. ASSUME NEW p \in Promoters,
             \/ Begin(p) \/ PromoteStep(p) \/ PromoteFails(p)
             \/ LostPutChannel(p) \/ SpuriousConflict(p)
      PROVE  UNCHANGED resources
    BY <1>0, <1>4, PromoterActions
<1>5. ASSUME NEW p \in Publishers, PublisherStep(p) PROVE RowsStep
  <2>1. publish[p].req \in PublishRequests
    BY DEF StoreTypeOK, PublishCalls
  <2>2. \/ UNCHANGED resources
        \/ /\ ById(publish[p].req.id) = {}
           /\ resources' = resources \union {Candidate(publish[p].req)}
    BY <1>5 DEF PublisherStep, BeginPublish, Repeat, Reread, RetryWith, PublishStep, Lookup,
       Commit, Winner, Refuse, Finish, PromoteHeld, Receipt, PublishFails, LostCommit,
       SpuriousPublishConflict
  <2> QED
    BY <1>1, <2>1, <2>2, InsertedRow
<1> QED
    BY <1>1, <1>2, <1>3, <1>4, <1>5
       DEF StoreNext, storeVars, ChannelsStep, PublisherStep, LapseElsewhere

\* No identity has two rows.
LEMMA OneRowNext == OneRowEach /\ RowsStep => OneRowEach'
<1> SUFFICES ASSUME OneRowEach, RowsStep,
                    NEW row \in resources', NEW other \in resources', row.id = other.id
             PROVE  row = other
    BY DEF OneRowEach
<1>1. CASE row \in resources /\ other \in resources
    BY <1>1 DEF OneRowEach
<1>2. CASE row \notin resources /\ other \notin resources
    BY <1>2 DEF RowsStep
<1>3. ASSUME NEW old \in resources, old \in resources',
             NEW new \in resources' \ resources, new.id = old.id
      PROVE  FALSE
  <2>1. ById(new.id) # {}
    BY <1>3 DEF ById
  <2>2. PICK gone \in resources \ resources' : new.id = gone.id
    BY <1>3, <2>1 DEF RowsStep
  <2> QED
    BY <1>3, <2>2 DEF OneRowEach
<1> QED
    BY <1>1, <1>2, <1>3

\* What was published stays published, deprecated or not ...
LEMMA PublishedStays ==
    ASSUME RowsStep, resources \subseteq ResourceRows, NEW req \in PublishRequests, Published(req)
    PROVE  Published(req)'
<1>1. PICK row \in resources : Carries(row, req)
    BY DEF Published
<1>2. row.id = req.id /\ row.profile = req.profile /\ row.digest = req.digest
    BY <1>1, CarriesFields
<1>3. \E new \in resources' :
          new.id = req.id /\ new.profile = req.profile /\ new.digest = req.digest
    BY <1>2 DEF RowsStep
<1>4. \E new \in resources' : Carries(new, req)
    BY <1>3, CarriesFields DEF RowsStep
<1> QED
    BY <1>4 DEF Published, Carries, Candidate

\* ... and an identity that is another's stays another's.
LEMMA TakenStays ==
    ASSUME RowsStep, resources \subseteq ResourceRows, NEW req \in PublishRequests,
           ById(req.id) # {}, ~ Published(req)
    PROVE  (ById(req.id) # {} /\ ~ Published(req))'
<1>1. PICK row \in resources : row.id = req.id
    BY DEF ById
<1>2. \E new \in resources' : new.id = req.id
    BY <1>1 DEF RowsStep
<1>3. ASSUME NEW new \in resources', Carries(new, req) PROVE FALSE
  <2>1. new.id = req.id /\ new.profile = req.profile /\ new.digest = req.digest
    BY <1>3, CarriesFields DEF RowsStep
  <2>2. \E old \in resources :
            old.id = req.id /\ old.profile = req.profile /\ old.digest = req.digest
    BY <2>1 DEF RowsStep
  <2> QED
    BY <2>2, CarriesFields DEF Published
<1> QED
    BY <1>2, <1>3 DEF ById, Published, Carries, Candidate

--------------------------------------------------------------------------------
(* How a step moves the publish calls, and that it keeps their type. *)

PublishTyped == publish \in [Publishers -> PublishCalls]

\* The other publish calls, and this one's request, stay as they are.
OthersWait(p) == \A q \in Publishers : q # p => publish'[q] = publish[q]
Continues(p) == OthersWait(p) /\ publish'[p].req = publish[p].req

\* Advance changes the program counter.
LEMMA AdvanceMoves ==
    ASSUME PublishTyped, NEW p \in Publishers,
           NEW step \in {"commit", "winner", "promoting"}, Advance(p, step)
    PROVE  /\ PublishTyped' /\ Continues(p) /\ publish'[p].pc = step
           /\ publish'[p].held = publish[p].held /\ publish'[p].outcome = publish[p].outcome
<1> DEFINE c == [publish[p] EXCEPT !.pc = step]
<1>1. publish' = [publish EXCEPT ![p] = c]
    BY DEF Advance, PublishTyped
<1>2. /\ c \in PublishCalls /\ c.pc = step /\ c.req = publish[p].req
      /\ c.held = publish[p].held /\ c.outcome = publish[p].outcome
    BY DEF PublishTyped, PublishCalls
<1> HIDE DEF c
<1> QED
    BY <1>1, <1>2 DEF PublishTyped, Continues, OthersWait

\* Return ends the call.
LEMMA ReturnMoves ==
    ASSUME PublishTyped, NEW p \in Publishers, NEW outcome \in Verdicts, Return(p, outcome)
    PROVE  /\ PublishTyped' /\ Continues(p) /\ publish'[p].pc = "idle"
           /\ publish'[p].held = publish[p].held /\ publish'[p].outcome = outcome
<1> DEFINE c == [publish[p] EXCEPT !.pc = "idle", !.outcome = outcome]
<1>1. publish' = [publish EXCEPT ![p] = c]
    BY DEF Return, PublishTyped
<1>2. /\ c \in PublishCalls /\ c.pc = "idle" /\ c.req = publish[p].req
      /\ c.held = publish[p].held /\ c.outcome = outcome
    BY DEF PublishTyped, PublishCalls
<1> HIDE DEF c
<1> QED
    BY <1>1, <1>2 DEF PublishTyped, Continues, OthersWait

\* A call settles on a row.
LEMMA SettledMoves ==
    ASSUME PublishTyped, NEW p \in Publishers, NEW row \in ResourceRows,
           publish' = [publish EXCEPT ![p].pc = "settled", ![p].held = {row}]
    PROVE  /\ PublishTyped' /\ Continues(p) /\ publish'[p].pc = "settled"
           /\ publish'[p].held = {row} /\ publish'[p].outcome = publish[p].outcome
<1> DEFINE c == [publish[p] EXCEPT !.pc = "settled", !.held = {row}]
<1>1. publish' = [publish EXCEPT ![p] = c]
    BY DEF PublishTyped
<1>2. /\ c \in PublishCalls /\ c.pc = "settled" /\ c.req = publish[p].req
      /\ c.held = {row} /\ c.outcome = publish[p].outcome
    BY DEF PublishTyped, PublishCalls
<1> HIDE DEF c
<1> QED
    BY <1>1, <1>2 DEF PublishTyped, Continues, OthersWait

\* A call begins, with a request of its own.
LEMMA StartMoves ==
    ASSUME PublishTyped, NEW p \in Publishers, NEW req \in PublishRequests, Start(p, req)
    PROVE  /\ PublishTyped' /\ OthersWait(p) /\ publish'[p].pc \in {"idle", "lookup"}
           /\ publish'[p].outcome \in {"none", "rejected"}
<1>1. PICK outcome \in {"none", "rejected"} :
          publish' = [publish EXCEPT ![p] =
              [pc |-> IF outcome = "none" THEN "lookup" ELSE "idle", req |-> req,
               held |-> {}, outcome |-> outcome]]
    BY DEF Start
<1> DEFINE c == [pc |-> IF outcome = "none" THEN "lookup" ELSE "idle", req |-> req,
                 held |-> {}, outcome |-> outcome]
<1>2. c \in PublishCalls /\ c.pc \in {"idle", "lookup"} /\ c.outcome = outcome
    BY DEF PublishCalls, Verdicts, Unpublished
<1>3. publish' = [publish EXCEPT ![p] = c]
    BY <1>1
<1> HIDE DEF c
<1> QED
    BY <1>2, <1>3 DEF PublishTyped, OthersWait

\* What a call that has settled holds: one row with what its caller published, as
\* it is stored, or as it was stored before its deprecation.
Settled(c) ==
    /\ Published(c.req)
    /\ \E row \in c.held : /\ c.held = {row} /\ Carries(row, c.req)
                           /\ row \in resources \/ row.state = "PUBLISHED"

\* A lookup or a lost race ends with the row of its own publication, or with the
\* conflict with another's.
LEMMA SettleOnMoves ==
    ASSUME SInv, NEW p \in Publishers, NEW row \in ById(publish[p].req.id),
           SettleOn(p, row), UNCHANGED resources
    PROVE  /\ PublishTyped' /\ Continues(p)
           /\ \/ /\ publish'[p].pc = "settled" /\ Settled(publish[p])'
                 /\ publish'[p].outcome = publish[p].outcome
              \/ /\ publish'[p].pc = "idle" /\ publish'[p].outcome = "identity_conflict"
                 /\ ~ Published(publish[p].req)
<1> DEFINE req == publish[p].req
<1>1. /\ PublishTyped /\ req \in PublishRequests /\ row \in resources /\ row \in ResourceRows
      /\ row.id = req.id /\ OneRowEach
    BY DEF SInv, StoreTypeOK, TypeOK, PublishTyped, PublishCalls, ById
<1>2. CASE SamePublication(req, row)
  <2>1. publish' = [publish EXCEPT ![p].pc = "settled", ![p].held = {row}]
    BY <1>2 DEF SettleOn
  <2>2. /\ PublishTyped' /\ Continues(p) /\ publish'[p].pc = "settled"
        /\ publish'[p].held = {row} /\ publish'[p].outcome = publish[p].outcome
    BY <1>1, <2>1, SettledMoves
  <2>3. Carries(row, req)
    BY <1>1, <1>2, CarriesFields DEF SamePublication
  <2>4. Settled(publish[p])'
    BY <1>1, <2>2, <2>3 DEF Settled, Published, Carries, Candidate, Continues
  <2> QED
    BY <2>2, <2>4
<1>3. CASE ~ SamePublication(req, row)
  <2>1. Return(p, "identity_conflict")
    BY <1>3 DEF SettleOn
  <2>2. /\ PublishTyped' /\ Continues(p)
        /\ publish'[p].pc = "idle" /\ publish'[p].outcome = "identity_conflict"
    BY <1>1, <2>1, ReturnMoves DEF Verdicts, Unpublished
  <2>3. ASSUME NEW other \in resources, Carries(other, req) PROVE FALSE
    <3>1. /\ other \in ResourceRows /\ other.id = req.id
          /\ other.profile = req.profile /\ other.digest = req.digest
        BY <1>1, <2>3, CarriesFields DEF SInv, StoreTypeOK, TypeOK
    <3>2. other = row
        BY <1>1, <3>1 DEF OneRowEach
    <3> QED
        BY <1>1, <1>3, <3>1, <3>2 DEF SamePublication
  <2> QED
    BY <2>2, <2>3 DEF Published
<1> QED
    BY <1>2, <1>3

--------------------------------------------------------------------------------
(* What the two halves hand to each other. *)

AnswerFits(c, d) ==
    /\ d.pc = "idle" => d.outcome \in {"promoted"} \union Unpromoted
    /\ d.outcome = "incompatible" => \A row \in c.held : row.state = "DEPRECATED"

\* A settled call stays settled while others go on.
LEMMA SettledStays ==
    ASSUME RowsStep, resources \subseteq ResourceRows, NEW c \in PublishCalls, Settled(c)
    PROVE  Settled(c)'
<1>1. c.req \in PublishRequests
    BY DEF PublishCalls
<1>2. Published(c.req)'
    BY <1>1, PublishedStays DEF Settled
<1>3. PICK row \in c.held : /\ c.held = {row} /\ Carries(row, c.req)
                            /\ row \in resources \/ row.state = "PUBLISHED"
    BY DEF Settled
<1>4. row \in resources' \/ row.state = "PUBLISHED"
    BY <1>3 DEF RowsStep
<1> QED
    BY <1>2, <1>3, <1>4 DEF Settled, Published, Carries, Candidate

\* The hand-over stays as it is while others go on.
LEMMA HandOverStays ==
    ASSUME SInv, RowsStep, NEW p \in Publishers,
           publish'[p] = publish[p], call'[p] = call[p]
    PROVE  HandOver(p)'
<1>1. publish[p] \in PublishCalls /\ resources \subseteq ResourceRows /\ HandOver(p)
    BY DEF SInv, StoreTypeOK, TypeOK
<1>2. publish[p].pc \in {"settled", "promoting"} => Settled(publish[p])
    BY <1>1 DEF HandOver, Settled
<1> DEFINE c == publish[p]
<1>3. ASSUME NEW d, d = publish[p], d.pc \in {"settled", "promoting"}
      PROVE  Settled(d)'
    BY <1>1, <1>2, <1>3, SettledStays
<1>4. publish'[p].pc \in {"settled", "promoting"} => Settled(publish[p])'
    BY <1>3 DEF Settled, Published, Carries, Candidate
<1>5. publish'[p].pc # "promoting" => At(p, "idle")'
    BY <1>1 DEF HandOver, At
<1>6. publish'[p].pc = "promoting" => publish'[p].req.pairing = "both"
          /\ PromotesFor(publish[p], call[p])' /\ AnswerFits(publish[p], call[p])'
    BY <1>1 DEF HandOver, AnswerFits, At, PromotesFor
<1> QED
    BY <1>4, <1>5, <1>6 DEF HandOver, AnswerFits, At, Settled

\* A publish call that has not settled has no promotion.
LEMMA HandOverBefore ==
    ASSUME NEW p \in Publishers, At(p, "idle")',
           publish'[p].pc \in {"idle", "lookup", "commit", "winner"}
    PROVE  HandOver(p)'
<1> QED
    BY DEF HandOver, At

--------------------------------------------------------------------------------
(* The steps of a publisher. *)

\* The pointer row that the call of p asks for.
PointerOf(p) ==
    [key |-> ChannelOf(publish[p].req), version |-> publish[p].req.expected + 1,
     target |-> publish[p].req.id, actor |-> p]

\* What the last publish call of p was told is so.
AnswerTrue(p) ==
    LET c == publish[p]
    IN  /\ c.outcome = "published" =>
               Published(c.req) /\ (c.req.pairing = "both" => PointerOf(p) \in pointers)
        /\ c.outcome \in Unpromoted => Published(c.req)
        /\ c.outcome = "incompatible" =>
               \E row \in resources : Carries(row, c.req) /\ row.state = "DEPRECATED"
        /\ c.outcome = "identity_conflict" /\ c.req.profile = "CONFIGURATION" =>
               ById(c.req.id) # {} /\ ~ Published(c.req)

\* An answer stays true while others go on.
LEMMA AnswerTrueStays ==
    ASSUME SInv, RowsStep, pointers \subseteq pointers', NEW p \in Publishers,
           publish'[p].req = publish[p].req, publish'[p].outcome = publish[p].outcome,
           AnswerTrue(p)
    PROVE  AnswerTrue(p)'
<1>1. publish[p].req \in PublishRequests /\ resources \subseteq ResourceRows
    BY DEF SInv, StoreTypeOK, TypeOK, PublishCalls
<1>2. ASSUME NEW req \in PublishRequests, Published(req) PROVE Published(req)'
    BY <1>1, <1>2, PublishedStays
<1>3. ASSUME NEW req \in PublishRequests, ById(req.id) # {}, ~ Published(req)
      PROVE  (ById(req.id) # {} /\ ~ Published(req))'
    BY <1>1, <1>3, TakenStays
<1>4. ASSUME NEW req, \E row \in resources : Carries(row, req) /\ row.state = "DEPRECATED"
      PROVE  (\E row \in resources : Carries(row, req) /\ row.state = "DEPRECATED")'
  <2>1. PICK row \in resources : Carries(row, req) /\ row.state = "DEPRECATED"
    BY <1>4
  <2>2. row \in resources'
    BY <2>1 DEF RowsStep
  <2> QED
    BY <2>1, <2>2 DEF Carries, Candidate
<1>5. PointerOf(p)' = PointerOf(p)
    BY DEF PointerOf, ChannelOf
<1>6. PICK req \in PublishRequests : req = publish[p].req
    BY <1>1
<1>7. publish[p].outcome = "published" => Published(req)'
    BY <1>2, <1>6 DEF AnswerTrue
<1>8. publish[p].outcome \in Unpromoted => Published(req)'
    BY <1>2, <1>6 DEF AnswerTrue
<1>9. publish[p].outcome = "incompatible" =>
          (\E row \in resources : Carries(row, req) /\ row.state = "DEPRECATED")'
    BY <1>4, <1>6 DEF AnswerTrue
<1>10. publish[p].outcome = "identity_conflict" /\ req.profile = "CONFIGURATION" =>
           (ById(req.id) # {} /\ ~ Published(req))'
    BY <1>3, <1>6 DEF AnswerTrue
<1>11. publish[p].outcome = "published" /\ req.pairing = "both" => PointerOf(p) \in pointers'
    BY <1>6 DEF AnswerTrue
<1> QED
    BY <1>5, <1>6, <1>7, <1>8, <1>9, <1>10, <1>11
       DEF AnswerTrue, Published, Carries, Candidate, ById

\* What a step of publisher p leaves right: its own calls, and what it was told.
PublisherRight(p) ==
    /\ PublishTyped' /\ OthersWait(p) /\ HandOver(p)'
    /\ AnswerTrue(p) => AnswerTrue(p)'

\* A step that leaves the call without a row, and says nothing new.
LEMMA SilentStep ==
    ASSUME SInv, RowsStep, NEW p \in Publishers, PublishTyped', Continues(p),
           UNCHANGED <<pointers, call>>, At(p, "idle"),
           publish'[p].outcome = publish[p].outcome,
           publish'[p].pc \in {"idle", "lookup", "commit", "winner"}
    PROVE  PublisherRight(p)
<1>1. At(p, "idle")'
    BY DEF At
<1>2. HandOver(p)'
    BY <1>1, HandOverBefore
<1>3. AnswerTrue(p) => AnswerTrue(p)'
    BY AnswerTrueStays DEF Continues
<1> QED
    BY <1>2, <1>3 DEF PublisherRight, Continues

\* A step that settles the call on a row.
LEMMA SettlingStep ==
    ASSUME SInv, RowsStep, NEW p \in Publishers, PublishTyped', Continues(p),
           UNCHANGED <<pointers, call>>, At(p, "idle"),
           publish'[p].outcome = publish[p].outcome,
           publish'[p].pc = "settled", Settled(publish[p])'
    PROVE  PublisherRight(p)
<1>1. At(p, "idle")'
    BY DEF At
<1>2. HandOver(p)'
    BY <1>1 DEF HandOver, Settled, At
<1>3. AnswerTrue(p) => AnswerTrue(p)'
    BY AnswerTrueStays DEF Continues
<1> QED
    BY <1>2, <1>3 DEF PublisherRight, Continues

\* A step that ends the call with an answer that is true.
LEMMA EndingStep ==
    ASSUME SInv, NEW p \in Publishers, PublishTyped', Continues(p),
           UNCHANGED call, At(p, "idle"), publish'[p].pc = "idle", AnswerTrue(p)'
    PROVE  PublisherRight(p)
<1>1. At(p, "idle")'
    BY DEF At
<1>2. HandOver(p)'
    BY <1>1, HandOverBefore
<1> QED
    BY <1>2 DEF PublisherRight, Continues

\* A call that is told of a failure, or that its document is refused, is told
\* nothing that the tables could belie.
LEMMA FailedIsTrue ==
    ASSUME NEW p \in Publishers, publish'[p].outcome \in {"none", "failed", "rejected"}
    PROVE  AnswerTrue(p)'
<1> QED
    BY DEF AnswerTrue, Unpromoted

\* The calls begin again, and again.
LEMMA StartRight ==
    ASSUME SInv, NEW p \in Publishers, BeginPublish(p) \/ Repeat(p) \/ Reread(p)
    PROVE  PublisherRight(p)
<1>1. /\ PublishTyped /\ publish[p] \in PublishCalls /\ call \in [Promoters -> Calls]
      /\ HandOver(p) /\ p \in Promoters
    BY PublishersAssumption DEF SInv, StoreTypeOK, TypeOK, PublishTyped
<1>2. \E req \in PublishRequests : Start(p, req)
  <2>1. CASE BeginPublish(p)
    BY <2>1 DEF BeginPublish
  <2>2. ASSUME NEW expected \in 0 .. MaxVersion - 1, RetryWith(p, expected)
        PROVE  \E req \in PublishRequests : Start(p, req)
    <3>1. [publish[p].req EXCEPT !.expected = expected] \in PublishRequests
        BY <1>1 DEF PublishCalls, PublishRequests
    <3> QED
        BY <2>2, <3>1 DEF RetryWith
  <2>3. CASE Repeat(p)
    <3>1. publish[p].req.expected \in 0 .. MaxVersion - 1
        BY <1>1 DEF PublishCalls, PublishRequests
    <3> QED
        BY <2>2, <2>3, <3>1 DEF Repeat
  <2>4. CASE Reread(p)
    <3> DEFINE n == CurrentVersion(ChannelOf(publish[p].req))
    <3>1. n \in 0 .. MaxVersion
      <4>1. ChannelOf(publish[p].req) \in Keys
        BY <1>1, FamiliesAssumption DEF ChannelOf, PublishCalls, PublishRequests, Keys
      <4> QED
        BY <4>1, CurrentVersionObserved DEF SInv, IInv
    <3>2. n < MaxVersion /\ RetryWith(p, n)
        BY <2>4 DEF Reread
    <3> HIDE DEF n
    <3>3. n \in 0 .. MaxVersion - 1
        BY <3>1, <3>2, BoundsAssumption
    <3> QED
        BY <2>2, <3>2, <3>3
  <2> QED
    BY <2>1, <2>3, <2>4
<1>3. PICK req \in PublishRequests : Start(p, req)
    BY <1>2
<1>4. /\ PublishTyped' /\ OthersWait(p) /\ publish'[p].pc \in {"idle", "lookup"}
      /\ publish'[p].outcome \in {"none", "rejected"}
    BY <1>1, <1>3, StartMoves
<1>5. UNCHANGED call /\ publish[p].pc = "idle"
    BY DEF BeginPublish, Repeat, Reread, RetryWith, Is
<1>6. At(p, "idle")'
    BY <1>1, <1>5 DEF HandOver, At
<1>7. HandOver(p)'
    BY <1>4, <1>6, HandOverBefore
<1> QED
    BY <1>4, <1>7, FailedIsTrue DEF PublisherRight

\* The facts of SInv about one publisher.
LEMMA PublisherFacts ==
    ASSUME SInv, NEW p \in Publishers
    PROVE  /\ PublishTyped /\ publish[p] \in PublishCalls /\ publish[p].req \in PublishRequests
           /\ p \in Promoters /\ call[p] \in Calls /\ call \in [Promoters -> Calls]
           /\ resources \subseteq ResourceRows /\ HandOver(p)
           /\ publish[p].pc # "promoting" => At(p, "idle")
           /\ publish[p].pc \in {"settled", "promoting"} => Settled(publish[p])
<1> QED
    BY PublishersAssumption
       DEF SInv, StoreTypeOK, TypeOK, PublishTyped, PublishCalls, HandOver, Settled

\* A lookup, or the look for the winner, settles or ends on what it finds.
LEMMA FoundRight ==
    ASSUME SInv, RowsStep, NEW p \in Publishers, NEW row \in ById(publish[p].req.id),
           SettleOn(p, row), UNCHANGED <<resources, pointers, call>>, At(p, "idle")
    PROVE  PublisherRight(p)
<1>1. /\ PublishTyped' /\ Continues(p)
      /\ \/ /\ publish'[p].pc = "settled" /\ Settled(publish[p])'
            /\ publish'[p].outcome = publish[p].outcome
         \/ /\ publish'[p].pc = "idle" /\ publish'[p].outcome = "identity_conflict"
            /\ ~ Published(publish[p].req)
    BY SettleOnMoves
<1>2. CASE publish'[p].pc = "settled" /\ Settled(publish[p])'
           /\ publish'[p].outcome = publish[p].outcome
    BY <1>1, <1>2, SettlingStep
<1>3. CASE /\ publish'[p].pc = "idle" /\ publish'[p].outcome = "identity_conflict"
           /\ ~ Published(publish[p].req)
  <2>1. AnswerTrue(p)'
    BY <1>1, <1>3 DEF AnswerTrue, Unpromoted, Continues, ById, Published, Carries, Candidate
  <2> QED
    BY <1>1, <1>3, <2>1, EndingStep
<1> QED
    BY <1>1, <1>2, <1>3

\* Lookup
LEMMA LookupRight ==
    ASSUME SInv, RowsStep, NEW p \in Publishers, Lookup(p)
    PROVE  PublisherRight(p)
<1>1. /\ At(p, "idle") /\ PublishTyped /\ UNCHANGED <<resources, pointers, call>>
      /\ \/ Advance(p, "commit")
         \/ \E row \in ById(publish[p].req.id) : SettleOn(p, row)
    BY PublisherFacts DEF Lookup, Is
<1>2. CASE Advance(p, "commit")
    BY <1>1, <1>2, AdvanceMoves, SilentStep
<1> QED
    BY <1>1, <1>2, FoundRight

\* Winner
LEMMA WinnerRight ==
    ASSUME SInv, RowsStep, NEW p \in Publishers, Winner(p)
    PROVE  PublisherRight(p)
<1>1. /\ At(p, "idle") /\ PublishTyped /\ UNCHANGED <<resources, pointers, call>>
      /\ \/ Return(p, "failed")
         \/ \E row \in ById(publish[p].req.id) : SettleOn(p, row)
    BY PublisherFacts DEF Winner, Is
<1>2. CASE Return(p, "failed")
    BY <1>1, <1>2, ReturnMoves, FailedIsTrue, EndingStep DEF Verdicts, Unpublished
<1> QED
    BY <1>1, <1>2, FoundRight

\* Commit
LEMMA CommitRight ==
    ASSUME SInv, RowsStep, NEW p \in Publishers, Commit(p)
    PROVE  PublisherRight(p)
<1> DEFINE req == publish[p].req
<1>1. /\ At(p, "idle") /\ PublishTyped /\ UNCHANGED <<pointers, call>> /\ req \in PublishRequests
    BY PublisherFacts DEF Commit, Is
<1>2. CASE Advance(p, "winner")
    BY <1>1, <1>2, AdvanceMoves, SilentStep
<1>3. CASE /\ resources' = resources \union {Candidate(req)}
           /\ publish' = [publish EXCEPT ![p].pc = "settled", ![p].held = {Candidate(req)}]
  <2>1. /\ PublishTyped' /\ Continues(p) /\ publish'[p].pc = "settled"
        /\ publish'[p].held = {Candidate(req)} /\ publish'[p].outcome = publish[p].outcome
    BY <1>1, <1>3, CandidateTyped, SettledMoves
  <2>2. Candidate(req) \in resources' /\ Carries(Candidate(req), req)
    BY <1>1, <1>3, CandidateTyped, CarriesFields
  <2>3. Settled(publish[p])'
    BY <2>1, <2>2 DEF Settled, Published, Carries, Candidate, Continues
  <2> QED
    BY <1>1, <2>1, <2>3, SettlingStep
<1> QED
    BY <1>2, <1>3 DEF Commit

\* A conflict that an artifact is told of, or a document that is refused.
LEMMA ArtifactRefused ==
    ASSUME SInv, NEW p \in Publishers, UNCHANGED call, At(p, "idle"),
           publish[p].req.profile = "ARTIFACT",
           NEW outcome \in {"rejected", "identity_conflict"}, Return(p, outcome)
    PROVE  PublisherRight(p)
<1>1. /\ PublishTyped' /\ Continues(p) /\ publish'[p].pc = "idle"
      /\ publish'[p].outcome = outcome
    BY PublisherFacts, ReturnMoves DEF Verdicts, Unpublished
<1>2. publish'[p].req.profile = "ARTIFACT"
    BY <1>1 DEF Continues
<1>3. AnswerTrue(p)'
    BY <1>1, <1>2 DEF AnswerTrue, Unpromoted
<1> QED
    BY <1>1, <1>3, EndingStep

\* Refuse
LEMMA RefuseRight ==
    ASSUME SInv, NEW p \in Publishers, Refuse(p)
    PROVE  PublisherRight(p)
<1>1. At(p, "idle") /\ UNCHANGED call /\ publish[p].req.profile = "ARTIFACT"
    BY PublisherFacts DEF Refuse, Is
<1>2. \E outcome \in {"rejected", "identity_conflict"} : Return(p, outcome)
    BY DEF Refuse
<1> QED
    BY <1>1, <1>2, ArtifactRefused

\* Finish
LEMMA FinishRight ==
    ASSUME SInv, RowsStep, NEW p \in Publishers, Finish(p)
    PROVE  PublisherRight(p)
<1>1. /\ At(p, "idle") /\ PublishTyped /\ UNCHANGED <<resources, pointers, call>>
      /\ Published(publish[p].req)
    BY PublisherFacts DEF Finish, Is, Settled
<1>2. PICK outcome \in {"published", "bad_arguments"} :
          /\ Return(p, outcome)
          /\ outcome = "published" => publish[p].req.pairing # "both"
    BY DEF Finish
<1>3. /\ PublishTyped' /\ Continues(p) /\ publish'[p].pc = "idle"
      /\ publish'[p].outcome = outcome
    BY <1>1, <1>2, ReturnMoves DEF Verdicts, Unpromoted
<1>4. Published(publish[p].req)' /\ publish'[p].req = publish[p].req
    BY <1>1, <1>3 DEF Published, Carries, Candidate, Continues
<1>5. AnswerTrue(p)'
    BY <1>2, <1>3, <1>4 DEF AnswerTrue, Unpromoted, Published, Carries, Candidate
<1> QED
    BY <1>1, <1>3, <1>5, EndingStep

\* PromoteHeld
LEMMA PromoteHeldRight ==
    ASSUME SInv, RowsStep, NEW p \in Publishers, PromoteHeld(p)
    PROVE  PublisherRight(p)
<1> DEFINE c == publish[p]
           d == PromoteCall(c.req, c.held, c.req.profile)
<1>1. /\ PublishTyped /\ UNCHANGED <<resources, pointers>> /\ c.req.pairing = "both"
      /\ Settled(c) /\ Advance(p, "promoting")
      /\ call' = [call EXCEPT ![p] = d]
      /\ p \in Promoters /\ call \in [Promoters -> Calls]
    BY PublisherFacts DEF PromoteHeld, Is
<1>2. /\ PublishTyped' /\ Continues(p) /\ publish'[p].pc = "promoting"
      /\ publish'[p].held = c.held /\ publish'[p].outcome = c.outcome
    BY <1>1, AdvanceMoves
<1>3. call'[p] = d
    BY <1>1
<1>4. /\ d.pc = "resolve" /\ d.outcome = "none" /\ d.target = c.req.id /\ d.held = c.held
      /\ d.ask = [form |-> "snapshot", wanted |-> c.req.profile]
      /\ d.name = c.req.name /\ d.expected = c.req.expected
    BY DEF PromoteCall
<1>5. publish'[p].req = c.req
    BY <1>2 DEF Continues
<1> HIDE DEF d
<1>6. PromotesFor(publish[p], call[p])' /\ AnswerFits(publish[p], call[p])'
    BY <1>2, <1>3, <1>4, <1>5 DEF PromotesFor, AnswerFits
<1>7. Settled(publish[p])'
    BY <1>1, <1>2, <1>5 DEF Settled, Published, Carries, Candidate
<1>8. HandOver(p)'
    BY <1>1, <1>2, <1>5, <1>6, <1>7 DEF HandOver, AnswerFits, Settled, At
<1>9. AnswerTrue(p) => AnswerTrue(p)'
    BY <1>1, <1>2, <1>5, AnswerTrueStays
<1> QED
    BY <1>2, <1>8, <1>9 DEF PublisherRight, Continues

\* Receipt: what the promotion answered is what is so, if it is true itself.
LEMMA ReceiptRight ==
    ASSUME SInv, RowsStep, PromotedIsMine, NEW p \in Publishers, Receipt(p)
    PROVE  PublisherRight(p)
<1> DEFINE c == publish[p]
           d == call[p]
           outcome == IF d.outcome = "promoted" THEN "published" ELSE d.outcome
<1>1. /\ At(p, "idle") /\ PublishTyped /\ UNCHANGED <<resources, pointers, call>>
      /\ Settled(c) /\ HandOver(p) /\ c.pc = "promoting" /\ Return(p, outcome)
      /\ p \in Promoters
    BY PublisherFacts DEF Receipt, Is
<1>2. c.req.pairing = "both" /\ PromotesFor(c, d) /\ AnswerFits(c, d)
    BY <1>1 DEF HandOver, AnswerFits, At
<1>3. d.outcome \in {"promoted"} \union Unpromoted
    BY <1>1, <1>2 DEF AnswerFits, At
<1>4. outcome \in {"published"} \union Unpromoted
    BY <1>3
<1>5. outcome = "published" => d.outcome = "promoted"
    BY <1>3 DEF Unpromoted
<1>6. outcome = "incompatible" => d.outcome = "incompatible"
    OBVIOUS
<1> HIDE DEF outcome
<1>7. /\ PublishTyped' /\ Continues(p) /\ publish'[p].pc = "idle"
      /\ publish'[p].outcome = outcome
    BY <1>1, <1>4, ReturnMoves DEF Verdicts
<1>8. Published(c.req)' /\ publish'[p].req = c.req
    BY <1>1, <1>7 DEF Published, Carries, Candidate, Continues, Settled
<1>9. outcome = "published" => PointerOf(p)' \in pointers'
  <2>1. d.outcome = "promoted" =>
            [key |-> Key(p), version |-> d.expected + 1, target |-> d.target, actor |-> p]
                \in pointers
    BY <1>1 DEF PromotedIsMine
  <2>2. [key |-> Key(p), version |-> d.expected + 1, target |-> d.target, actor |-> p]
            = PointerOf(p)'
    BY <1>2, <1>8 DEF PromotesFor, PointerOf, ChannelOf, Key
  <2> QED
    BY <1>1, <1>5, <2>1, <2>2
<1>10. outcome = "incompatible" =>
           (\E row \in resources : Carries(row, c.req) /\ row.state = "DEPRECATED")'
  <2>1. PICK row \in c.held : Carries(row, c.req) /\ (row \in resources \/ row.state = "PUBLISHED")
    BY <1>1 DEF Settled
  <2>2. outcome = "incompatible" => row.state = "DEPRECATED"
    BY <1>2, <1>6 DEF AnswerFits
  <2> QED
    BY <1>1, <1>8, <2>1, <2>2 DEF Carries, Candidate
<1>11. AnswerTrue(p)'
    BY <1>4, <1>7, <1>8, <1>9, <1>10
       DEF AnswerTrue, Unpromoted, Published, Carries, Candidate
<1> QED
    BY <1>1, <1>7, <1>11, EndingStep

\* The faults of the first half.
LEMMA LapseRight ==
    ASSUME SInv, RowsStep, NEW p \in Publishers,
           PublishFails(p) \/ LostCommit(p) \/ SpuriousPublishConflict(p)
    PROVE  PublisherRight(p)
<1>1. /\ At(p, "idle") /\ PublishTyped /\ UNCHANGED <<pointers, call>>
    BY PublisherFacts DEF PublishFails, LostCommit, SpuriousPublishConflict, Is
<1>2. CASE Return(p, "failed")
    BY <1>1, <1>2, ReturnMoves, FailedIsTrue, EndingStep DEF Verdicts, Unpublished
<1>3. CASE Advance(p, "winner")
    BY <1>1, <1>3, AdvanceMoves, SilentStep
<1>4. CASE publish[p].req.profile = "ARTIFACT" /\ Return(p, "identity_conflict")
    BY <1>1, <1>4, ArtifactRefused
<1> QED
    BY <1>2, <1>3, <1>4 DEF PublishFails, LostCommit, SpuriousPublishConflict

\* Every step of a publisher.
LEMMA PublisherSteps ==
    ASSUME SInv, RowsStep, PromotedIsMine, NEW p \in Publishers, PublisherStep(p)
    PROVE  PublisherRight(p)
<1> QED
    BY StartRight, LookupRight, CommitRight, WinnerRight, FinishRight, PromoteHeldRight,
       ReceiptRight, RefuseRight, LapseRight DEF PublisherStep, PublishStep

--------------------------------------------------------------------------------
(* The steps of the promotions. *)

PromotionStep(p) ==
    PromoteStep(p) \/ PromoteFails(p) \/ LostPutChannel(p) \/ SpuriousConflict(p)

\* A publisher promotes under the profile that it published: nothing but a
\* deprecation makes its row incompatible.
LEMMA OwnAdmission ==
    ASSUME NEW c \in Calls, NEW row \in ResourceRows,
           c.ask = [form |-> "snapshot", wanted |-> row.profile]
    PROVE  /\ row.state = "PUBLISHED" => Admission(c, row) = "admitted"
           /\ row.state # "PUBLISHED" => Admission(c, row) = "incompatible"
<1>1. c.ask.form = "snapshot" /\ c.ask.wanted = row.profile
    OBVIOUS
<1>2. RefMatches(c, row)
    BY <1>1 DEF RefMatches
<1> QED
    BY <1>1, <1>2 DEF Admission

\* The first step of the promotion of a publish call.
LEMMA OwnTarget ==
    ASSUME SInv, NEW p \in Publishers, ResolveTarget(p)
    PROVE  \/ GoTo(p, "read_pointer")
           \/ /\ Raise(p, "incompatible")
              /\ \A row \in publish[p].held : row.state = "DEPRECATED"
<1> DEFINE c == publish[p]
           d == call[p]
<1>1. /\ d.pc = "resolve" /\ c.pc = "promoting" /\ HandOver(p) /\ Settled(c)
      /\ d \in Calls /\ c \in PublishCalls
    BY PublisherFacts DEF ResolveTarget, At
<1>2. PromotesFor(c, d)
    BY <1>1 DEF HandOver
<1>3. PICK row \in c.held : c.held = {row} /\ Carries(row, c.req)
    BY <1>1 DEF Settled
<1>4. row \in ResourceRows /\ c.req \in PublishRequests
    BY <1>1 DEF PublishCalls
<1>5. row.profile = c.req.profile
    BY <1>3, <1>4, CarriesFields
<1>6. d.ask = [form |-> "snapshot", wanted |-> row.profile] /\ d.held = {row}
    BY <1>2, <1>3, <1>5 DEF PromotesFor
<1>7. d.ask.form = "snapshot"
    BY <1>6
<1>8. Admit(p, row)
    BY <1>6, <1>7 DEF ResolveTarget
<1>9. \/ GoTo(p, "read_pointer")
      \/ Raise(p, "incompatible") /\ row.state # "PUBLISHED"
    BY <1>1, <1>4, <1>6, <1>8, OwnAdmission DEF Admit
<1>10. row.state \in States
    BY <1>4 DEF ResourceRows
<1> QED
    BY <1>3, <1>9, <1>10 DEF States

\* A step of the promotion of a publish call keeps to what the call handed over.
LEMMA OwnPromotion ==
    ASSUME SInv, NEW p \in Publishers, PromotionStep(p), UNCHANGED publish
    PROVE  HandOver(p)'
<1> DEFINE c == publish[p]
           d == call[p]
<1>1. /\ d.pc # "idle" /\ c.pc = "promoting" /\ HandOver(p) /\ Settled(c) /\ p \in Promoters
      /\ CallTyped /\ d \in Calls
    BY PublisherFacts
       DEF PromotionStep, PromoteStep, ResolveTarget, ReadPointer, PutChannel, PromoteFails,
           LostPutChannel, SpuriousConflict, At, CallTyped
<1>2. d.outcome = "none"
    BY <1>1 DEF SInv, IInv, InStep, CallInStep
<1>3. UNCHANGED resources
    BY DEF PromotionStep, PromoteStep, ResolveTarget, ReadPointer, PutChannel, PromoteFails,
           LostPutChannel, SpuriousConflict
<1>4. SameRequest(p) /\ AnswerFits(c, call'[p])
  <2>1. ASSUME NEW outcome \in {"promoted", "stale", "error"}, Raise(p, outcome)
        PROVE  SameRequest(p) /\ AnswerFits(c, call'[p])
    <3>1. SameRequest(p) /\ call'[p].outcome = outcome
        BY <1>1, <2>1, RaiseMoves DEF Outcomes
    <3> QED
        BY <3>1 DEF AnswerFits, Unpromoted
  <2>2. CASE ResolveTarget(p)
    <3>1. CASE GoTo(p, "read_pointer")
      <4>1. /\ SameRequest(p) /\ call'[p].pc = "read_pointer"
            /\ call'[p].outcome = d.outcome
        BY <1>1, <3>1, GoToMoves
      <4> QED
        BY <1>2, <4>1 DEF AnswerFits
    <3>2. CASE /\ Raise(p, "incompatible")
               /\ \A row \in publish[p].held : row.state = "DEPRECATED"
      <4>1. SameRequest(p) /\ call'[p].outcome = "incompatible"
        BY <1>1, <3>2, RaiseMoves DEF Outcomes, Refusals
      <4> QED
        BY <3>2, <4>1 DEF AnswerFits, Unpromoted
    <3> QED
        BY <2>2, <3>1, <3>2, OwnTarget
  <2>3. CASE ReadPointer(p)
    <3>1. /\ SameRequest(p)
          /\ \/ call'[p].pc = "put_channel" /\ call'[p].outcome = "none"
             \/ call'[p].pc = "idle" /\ call'[p].outcome = "stale"
        BY <1>1, <2>3, ReadPointerMoves
    <3> QED
        BY <3>1 DEF AnswerFits, Unpromoted
  <2>4. CASE PutChannel(p)
    BY <2>1, <2>4 DEF PutChannel
  <2>5. CASE PromoteFails(p) \/ LostPutChannel(p) \/ SpuriousConflict(p)
    BY <2>1, <2>5 DEF PromoteFails, LostPutChannel, SpuriousConflict
  <2> QED
    BY <2>2, <2>3, <2>4, <2>5 DEF PromotionStep, PromoteStep
<1>5. c.req.pairing = "both" /\ PromotesFor(c, d)
    BY <1>1 DEF HandOver
<1>6. PromotesFor(c, call'[p])
    BY <1>4, <1>5 DEF PromotesFor, SameRequest
<1>7. PromotesFor(publish[p], call[p])' /\ AnswerFits(publish[p], call[p])'
    BY <1>4, <1>6 DEF PromotesFor, AnswerFits
<1>8. Settled(publish[p])'
    BY <1>1, <1>3 DEF Settled, Published, Carries, Candidate
<1> QED
    BY <1>1, <1>5, <1>7, <1>8 DEF HandOver, AnswerFits, Settled, At

--------------------------------------------------------------------------------
(* The store is a behaviour of Channels. *)

\* What a call of promote starts with.
LEMMA BeginsWith ==
    ASSUME NEW p, NEW ask \in Asks, NEW id \in Resources, NEW name \in Names,
           NEW expected \in 0 .. MaxVersion - 1, NEW held, held \in Held(ask.form, id),
           At(p, "idle"), UNCHANGED <<resources, pointers, read, faults>>,
           call' = [call EXCEPT ![p] =
               [pc |-> "resolve", ask |-> ask, target |-> id, held |-> held, name |-> name,
                expected |-> expected, observed |-> 0, outcome |-> "none"]]
    PROVE  Begin(p)
<1> QED
    BY ZenonT(30) DEF Begin

\* A publish call promotes a snapshot that a caller of promote could have.
LEMMA PromoteHeldBegins ==
    ASSUME SInv, NEW p \in Publishers, PromoteHeld(p)
    PROVE  Begin(p)
<1> DEFINE c == publish[p]
           ask == [form |-> "snapshot", wanted |-> c.req.profile]
<1>1. /\ c.pc = "settled" /\ At(p, "idle") /\ Settled(c) /\ c.req \in PublishRequests
      /\ c \in PublishCalls /\ resources \subseteq ResourceRows
      /\ call' = [call EXCEPT ![p] = PromoteCall(c.req, c.held, c.req.profile)]
      /\ UNCHANGED <<resources, pointers, read, faults>>
    BY PublisherFacts DEF PromoteHeld, Is
<1>2. /\ ask \in Asks /\ c.req.id \in Resources /\ c.req.name \in Names
      /\ c.req.expected \in 0 .. MaxVersion - 1
    BY <1>1, OwnAsksAssumption DEF PublishRequests
<1>3. PICK row \in c.held : /\ c.held = {row} /\ Carries(row, c.req)
                            /\ row \in resources \/ row.state = "PUBLISHED"
    BY <1>1 DEF Settled
<1>4. row \in ResourceRows /\ row.id = c.req.id
    BY <1>1, <1>3, CarriesFields DEF PublishCalls
<1>5. c.held \in Held("snapshot", c.req.id)
  <2>1. Held("snapshot", c.req.id) =
            {{other} : other \in ById(c.req.id)}
                \union {{[other EXCEPT !.state = "PUBLISHED"]} : other \in ById(c.req.id)}
    BY DEF Held
  <2>2. CASE row \in resources
    <3>1. row \in ById(c.req.id)
        BY <1>4, <2>2 DEF ById
    <3> QED
        BY <1>3, <2>1, <3>1
  <2>3. CASE row.state = "PUBLISHED"
    <3>1. PICK other \in resources : Carries(other, c.req)
        BY <1>1 DEF Settled, Published
    <3>2. other \in ById(c.req.id)
        BY <1>1, <3>1, CarriesFields DEF ById
    <3>3. row = [other EXCEPT !.state = "PUBLISHED"]
      <4>1. row = [row EXCEPT !.state = "PUBLISHED"]
        BY <1>4, <2>3 DEF ResourceRows
      <4> QED
        BY <1>3, <3>1, <4>1 DEF Carries
    <3> QED
        BY <1>3, <2>1, <3>2, <3>3
  <2> QED
    BY <1>3, <2>2, <2>3
<1>6. PromoteCall(c.req, c.held, c.req.profile) =
          [pc |-> "resolve", ask |-> ask, target |-> c.req.id, held |-> c.held,
           name |-> c.req.name, expected |-> c.req.expected, observed |-> 0,
           outcome |-> "none"]
    BY DEF PromoteCall
<1>7. ask.form = "snapshot"
    OBVIOUS
<1>8. PICK id \in Resources, name \in Names, expected \in 0 .. MaxVersion - 1 :
          id = c.req.id /\ name = c.req.name /\ expected = c.req.expected
    BY <1>2
<1> QED
    BY <1>1, <1>2, <1>5, <1>6, <1>7, <1>8, BeginsWith

\* The row that a publish call commits is a publication that Channels knows.
LEMMA CommitPublishes ==
    ASSUME SInv, NEW p \in Publishers, ById(publish[p].req.id) = {},
           resources' = resources \union {Candidate(publish[p].req)},
           UNCHANGED <<pointers, call, read, faults>>
    PROVE  \E id \in Resources : Publish(id)
<1>1. /\ publish[p].req.id \in Resources /\ publish[p].req.profile \in Profiles
      /\ publish[p].req.digest \in Digests
    BY PublisherFacts DEF PublishRequests
<1> QED
    BY <1>1 DEF Publish, Candidate

\* Every step of the store is one of Channels, or leaves its state alone.
LEMMA StoreStep == SInv /\ [StoreNext]_storeVars => [Next]_vars
<1> SUFFICES ASSUME SInv, [StoreNext]_storeVars PROVE Next \/ UNCHANGED vars
    OBVIOUS
<1>1. CASE ChannelsStep
    BY <1>1 DEF ChannelsStep, Next
<1>2. ASSUME NEW p \in Publishers, PublisherStep(p) PROVE Next \/ UNCHANGED vars
  <2>1. \/ UNCHANGED vars
        \/ PromoteHeld(p)
        \/ /\ ById(publish[p].req.id) = {}
           /\ resources' = resources \union {Candidate(publish[p].req)}
           /\ UNCHANGED <<pointers, call, read, faults>>
    BY <1>2 DEF PublisherStep, BeginPublish, Repeat, Reread, RetryWith, PublishStep, Lookup,
       Commit, Winner, Refuse, Finish, Receipt, PublishFails, LostCommit,
       SpuriousPublishConflict, vars
  <2>2. p \in Promoters
    BY PublishersAssumption
  <2> QED
    BY <2>1, <2>2, PromoteHeldBegins, CommitPublishes DEF Next
<1>3. CASE UNCHANGED storeVars
    BY <1>3 DEF storeVars, vars
<1> QED
    BY <1>1, <1>2, <1>3 DEF StoreNext, PublisherStep, LapseElsewhere, vars

--------------------------------------------------------------------------------
(* The invariant holds. *)

\* It holds initially.
LEMMA StoreInvariantInit == StoreInit => SInv
<1> SUFFICES ASSUME StoreInit PROVE SInv
    OBVIOUS
<1>1. IInv
    BY InvariantInit DEF StoreInit
<1>2. publish \in [Publishers -> PublishCalls] /\ lapses = 0
    BY DEF StoreInit
<1>3. \A p \in Publishers : publish[p].pc = "idle"
    BY DEF StoreInit
<1>4. \A p \in Promoters : At(p, "idle")
    BY DEF StoreInit, Init, At
<1>5. StoreTypeOK
    BY <1>1, <1>2, LapsesAssumption DEF StoreTypeOK, IInv
<1>6. OneRowEach
    BY DEF StoreInit, Init, OneRowEach
<1>7. \A p \in Publishers : HandOver(p)
    BY <1>3, <1>4, PublishersAssumption DEF HandOver
<1> QED
    BY <1>1, <1>5, <1>6, <1>7 DEF SInv

\* The steps of the store, whose they are, and what of the others they keep.
LEMMA WhoseStep ==
    ASSUME SInv, [StoreNext]_storeVars
    PROVE  \/ \E p \in Publishers : PublisherStep(p)
           \/ UNCHANGED publish /\ UNCHANGED call
           \/ UNCHANGED publish /\ \E p \in Promoters \ Publishers : OthersKeep(p)
           \/ UNCHANGED publish /\ \E p \in Publishers : PromotionStep(p)
<1>0. TypeOK
    BY DEF SInv, IInv
<1>1. ASSUME NEW id \in Resources, Publish(id) \/ Deprecate(id) PROVE UNCHANGED call
    BY <1>1 DEF Publish, Deprecate
<1>2. ASSUME NEW p \in Promoters \ Publishers, Begin(p) \/ PromotionStep(p)
      PROVE  OthersKeep(p)
    BY <1>0, <1>2, PromoterActions DEF PromotionStep
<1>3. CASE UNCHANGED storeVars
    BY <1>3 DEF storeVars
<1>4. CASE ChannelsStep /\ UNCHANGED <<publish, lapses>>
    BY <1>1, <1>2, <1>4 DEF ChannelsStep, PromotionStep
<1> QED
    BY <1>3, <1>4 DEF StoreNext, PublisherStep, LapseElsewhere

\* A publisher's step leaves the calls of the other promoters alone.
LEMMA PublisherKeeps ==
    ASSUME SInv, NEW p \in Publishers, PublisherStep(p)
    PROVE  \A q \in Promoters : q # p => call'[q] = call[q]
<1>1. call \in [Promoters -> Calls]
    BY PublisherFacts
<1>2. UNCHANGED call \/ \E d : call' = [call EXCEPT ![p] = d]
    BY DEF PublisherStep, BeginPublish, Repeat, Reread, RetryWith, PublishStep, Lookup,
       Commit, Winner, Refuse, Finish, PromoteHeld, Receipt, PublishFails, LostCommit,
       SpuriousPublishConflict
<1> QED
    BY <1>1, <1>2

\* Faults of publications are counted within their bound.
LEMMA LapsesCount ==
    ASSUME StoreTypeOK, [StoreNext]_storeVars PROVE lapses' \in 0 .. MaxLapses
<1>1. UNCHANGED lapses \/ Lapse
    BY DEF StoreNext, storeVars, BeginPublish, Repeat, Reread, RetryWith, PublishStep,
       Lookup, Commit, Winner, Refuse, Finish, PromoteHeld, Receipt, PublishFails,
       LostCommit, SpuriousPublishConflict, LapseElsewhere
<1> QED
    BY <1>1, LapsesAssumption DEF StoreTypeOK, Lapse

\* Every step keeps the invariant.
LEMMA StoreInvariantNext ==
    ASSUME SInv, PromotedIsMine, [StoreNext]_storeVars
    PROVE  SInv'
<1>1. IInv'
    BY StoreStep, InvariantNext DEF SInv
<1>2. RowsStep /\ OneRowEach'
    BY RowsMove, OneRowNext DEF SInv
<1>3. lapses' \in 0 .. MaxLapses
    BY LapsesCount DEF SInv
<1>4. CASE \E p \in Publishers : PublisherStep(p)
  <2>1. PICK p \in Publishers : PublisherStep(p)
    BY <1>4
  <2>2. PublisherRight(p)
    BY <1>2, <2>1, PublisherSteps
  <2>3. ASSUME NEW q \in Publishers, q # p PROVE HandOver(q)'
    BY <1>2, <2>1, <2>2, <2>3, PublisherKeeps, PublishersAssumption, HandOverStays
       DEF PublisherRight, OthersWait
  <2>4. \A q \in Publishers : HandOver(q)'
    BY <2>2, <2>3 DEF PublisherRight
  <2> QED
    BY <1>1, <1>2, <1>3, <2>2, <2>4 DEF SInv, StoreTypeOK, IInv, PublisherRight, PublishTyped
<1>5. CASE UNCHANGED publish /\ \A q \in Publishers : HandOver(q)'
    BY <1>1, <1>2, <1>3, <1>5 DEF SInv, StoreTypeOK, IInv
<1>6. CASE UNCHANGED publish /\ UNCHANGED call
    BY <1>2, <1>5, <1>6, HandOverStays
<1>7. ASSUME NEW p \in Promoters \ Publishers, OthersKeep(p), UNCHANGED publish
      PROVE  \A q \in Publishers : HandOver(q)'
    BY <1>2, <1>7, HandOverStays, PublishersAssumption DEF OthersKeep
<1>8. ASSUME NEW p \in Publishers, PromotionStep(p), UNCHANGED publish
      PROVE  \A q \in Publishers : HandOver(q)'
  <2>1. OthersKeep(p)
    BY <1>8, PromoterActions, PublishersAssumption DEF PromotionStep, SInv, IInv
  <2>2. ASSUME NEW q \in Publishers PROVE HandOver(q)'
    <3>1. CASE q = p
        BY <1>8, <3>1, OwnPromotion
    <3>2. CASE q # p
        BY <1>2, <1>8, <2>1, <3>2, HandOverStays, PublishersAssumption DEF OthersKeep
    <3> QED
        BY <3>1, <3>2
  <2> QED
    BY <2>2
<1> QED
    BY <1>4, <1>5, <1>6, <1>7, <1>8, WhoseStep

\* The inductive invariant: that of the store, with what Channels makes of the
\* answers of promotions.
LEMMA StoreInvariant == StoreSpec => [](SInv /\ \A p \in Promoters : AnswerSound(p))
<1> DEFINE J == SInv /\ \A p \in Promoters : AnswerSound(p)
<1>1. StoreInit => J
    BY StoreInvariantInit DEF StoreInit, Init, AnswerSound
<1>2. ASSUME J, [StoreNext]_storeVars PROVE J'
  <2>1. PromotedIsMine
    BY <1>2 DEF AnswerSound, PromotedIsMine
  <2>2. SInv'
    BY <1>2, <2>1, StoreInvariantNext
  <2>3. [Next]_vars /\ IInv
    BY <1>2, StoreStep DEF SInv
  <2>4. (\A p \in Promoters : AnswerSound(p))'
    BY <1>2, <2>3, AnswersNext
  <2> QED
    BY <2>2, <2>4
<1> QED
    BY <1>1, <1>2, PTL DEF StoreSpec

\* Rows, calls and answers stay well typed, and what the publication hands to the
\* promotion stays true, whoever publishes, deprecates or promotes in between.
THEOREM StoreStateConsistent == StoreSpec => []StoreConsistent
<1>1. SInv => StoreConsistent
    BY DEF SInv, StoreConsistent
<1> QED
    BY <1>1, StoreInvariant, PTL

\* A store, with its publish calls that promote, is a behaviour of Channels; what
\* is proved of channels holds of it, the compare-and-set registers included.
THEOREM StoreImplementsChannels == StoreSpec => StoreIsChannels
<1>1. StoreInit => Init
    BY DEF StoreInit
<1> QED
    BY <1>1, StoreStep, StoreInvariant, PTL DEF StoreSpec, StoreIsChannels, Spec

--------------------------------------------------------------------------------
(* What the callers of publish are told. *)

\* Every answer is true, and stays true.
LEMMA AnswersTrue == StoreSpec => [](\A p \in Publishers : AnswerTrue(p))
<1>1. StoreInit => \A p \in Publishers : AnswerTrue(p)
  <2>1. StoreInit => \A p \in Publishers : publish[p].outcome = "none"
    BY DEF StoreInit
  <2> QED
    BY <2>1 DEF AnswerTrue, Unpromoted
<1>2. ASSUME SInv, \A p \in Promoters : AnswerSound(p), [StoreNext]_storeVars,
             \A p \in Publishers : AnswerTrue(p)
      PROVE  (\A p \in Publishers : AnswerTrue(p))'
  <2>0. RowsStep /\ PromotedIsMine /\ pointers \subseteq pointers'
    BY <1>2, RowsMove, StoreStep, AppendStep DEF SInv, AnswerSound, PromotedIsMine
  <2> SUFFICES ASSUME NEW p \in Publishers PROVE AnswerTrue(p)'
    OBVIOUS
  <2>1. CASE publish'[p] = publish[p]
    BY <1>2, <2>0, <2>1, AnswerTrueStays
  <2>2. ASSUME NEW q \in Publishers, PublisherStep(q) PROVE AnswerTrue(p)'
    <3>1. PublisherRight(q)
        BY <1>2, <2>0, <2>2, PublisherSteps
    <3> QED
        BY <1>2, <2>1, <3>1 DEF PublisherRight, OthersWait
  <2> QED
    BY <1>2, <2>1, <2>2, WhoseStep
<1> QED
    BY <1>1, <1>2, StoreInvariant, PTL DEF StoreSpec

\* A receipt names a stored resource with the caller's content, and the pointer
\* that the caller asked for is in its channel.
THEOREM ReceiptsWhole == StoreSpec => []ReceiptIsWhole
<1>1. (\A p \in Publishers : AnswerTrue(p)) => ReceiptIsWhole
    BY DEF AnswerTrue, ReceiptIsWhole, PointerOf
<1> QED
    BY <1>1, AnswersTrue, PTL

\* What publish raises is so: the resource holds after a refused promotion, it is
\* deprecated if it is called incompatible, and a conflict is with another's.
THEOREM RefusalsJust == StoreSpec => []RefusalsAreTrue
<1>1. (\A p \in Publishers : AnswerTrue(p)) => RefusalsAreTrue
    BY DEF AnswerTrue, RefusalsAreTrue
<1> QED
    BY <1>1, AnswersTrue, PTL

\* A pointer that a publish call writes goes to the resource that this call asked
\* to publish, with its content, above the version it expected.
THEOREM PromotionsOwn == StoreSpec => PromotesOwnContent
<1>1. ASSUME SInv, [StoreNext]_storeVars
      PROVE  [\A row \in pointers' \ pointers : row.actor \in Publishers =>
                 LET c == publish[row.actor]
                 IN  /\ c.pc = "promoting" /\ c.req.pairing = "both"
                     /\ row.target = c.req.id /\ row.version = c.req.expected + 1
                     /\ Published(c.req)]_storeVars
  <2>1. SUFFICES ASSUME NEW row \in pointers' \ pointers, row.actor \in Publishers
                 PROVE  LET c == publish[row.actor]
                        IN  /\ c.pc = "promoting" /\ c.req.pairing = "both"
                            /\ row.target = c.req.id /\ row.version = c.req.expected + 1
                            /\ Published(c.req)
    OBVIOUS
  <2>2. TablesStep
    BY <1>1, StoreStep, TablesMove DEF SInv, IInv
  <2>3. PICK p \in Promoters : Inserts(p)
    BY <2>2 DEF TablesStep
  <2>4. row = Successor(p) /\ At(p, "put_channel")
    BY <2>3 DEF Inserts
  <2>5. /\ row.actor = p /\ row.target = call[p].target
        /\ row.version = call[p].expected + 1
    BY <1>1, <2>4, SuccessorTyped DEF SInv, IInv, TypeOK, CallTyped, InStep
  <2>6. /\ publish[p].pc = "promoting" /\ HandOver(p) /\ Settled(publish[p])
    BY <1>1, <2>1, <2>4, <2>5, PublisherFacts DEF At
  <2>7. publish[p].req.pairing = "both" /\ PromotesFor(publish[p], call[p])
    BY <2>6 DEF HandOver
  <2> QED
    BY <2>5, <2>6, <2>7 DEF PromotesFor, Settled
<1> QED
    BY <1>1, StoreInvariant, PTL DEF StoreSpec, PromotesOwnContent
================================================================================
