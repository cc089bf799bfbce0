--------------------------- MODULE Resolution_proofs ---------------------------
(***************************************************************************)
(* Theorems about Resolution, for every set of publishers, readers,        *)
(* resources and families, and for every bound.                            *)
(***************************************************************************)
EXTENDS Resolution, FiniteSetTheorems, TLAPS

--------------------------------------------------------------------------------
(* The invariant. *)

\* The table can be listed, and has one row of an identity at most.
TableOK == /\ IsFiniteSet(resources)
           /\ \A row, other \in resources : row.id = other.id => row = other

\* A row that somebody has seen is still there, but for its deprecation.
Kept(row) == \E now \in resources : /\ SameVersion(now, row)
                                    /\ row.state = "DEPRECATED" => now.state = "DEPRECATED"

ReceiptsKept == \A p \in Publishers : \A row \in publish[p].receipt : Kept(row)

\* A row is an answer to a question.
Fits(row, question) ==
    /\ row.profile = question.profile
    /\ question.mode = "exact" => row.id = question.subject
    /\ question.mode # "exact" => FamilyOf[row.id] = question.subject

\* What a reader has been handed answers its question, and is kept.
ReaderOK(r) ==
    /\ \A row \in find[r].answer \union find[r].last \union find[r].settled : Kept(row)
    /\ \A question \in find[r].question :
           /\ find[r].question = {question}
           /\ \A row \in find[r].answer \union find[r].last : Fits(row, question)
           /\ find[r].outcome = "incompatible" => question.mode = "exact"
    /\ find[r].pc = "query" => find[r].answer = {} /\ find[r].outcome = "none"

\* The properties of answers, reader by reader.
LatestOK(r) ==
    \A question \in find[r].question :
        Answered(r, question, {"latest"}) =>
            \A before \in find[r].last :
                \/ Withdrawn(before)
                \/ \E row \in find[r].answer : ~ Precedes(before, row)

\* The receipt of row obliges a page of question to have it.
Due(row, question) ==
    /\ FamilyOf[row.id] = question.subject /\ row.profile = question.profile
    /\ question.state \in {AnyState, row.state}
    /\ question.state = "PUBLISHED" => ~ Withdrawn(row)

PageOK(r) ==
    \A question \in find[r].question :
        Answered(r, question, {"latest", "list"}) =>
            \A row \in find[r].settled : Due(row, question) =>
                \/ \E listed \in find[r].answer : SameVersion(listed, row)
                \/ /\ Cardinality(find[r].answer) = question.limit
                   /\ \A listed \in find[r].answer : ~ Precedes(row, listed)

ExactOK(r) ==
    \A question \in find[r].question :
        Answered(r, question, {"exact"}) =>
            \A before \in find[r].last \union
                             {row \in find[r].settled : row.id = question.subject} :
                before.profile = question.profile =>
                    \E row \in find[r].answer :
                        /\ SameVersion(row, before)
                        /\ before.state = "DEPRECATED" => row.state = "DEPRECATED"

AnswerOK(r) == LatestOK(r) /\ PageOK(r) /\ ExactOK(r)

IInv == /\ TypeOK /\ TableOK /\ ReceiptsKept
        /\ \A r \in Readers : ReaderOK(r) /\ AnswerOK(r)

--------------------------------------------------------------------------------
(* Rows. *)

\* Two rows are of one version when they agree in everything but their state.
LEMMA SameFields ==
    ASSUME NEW left \in ResourceRows, NEW right \in ResourceRows
    PROVE  SameVersion(left, right) <=>
               /\ left.id = right.id /\ left.profile = right.profile
               /\ left.order = right.order /\ left.created = right.created
<1>1. \A row \in ResourceRows :
          [row EXCEPT !.state = "PUBLISHED"] =
              [id |-> row.id, profile |-> row.profile, order |-> row.order,
               created |-> row.created, state |-> "PUBLISHED"]
    BY DEF ResourceRows
<1> QED
    BY <1>1 DEF SameVersion

\* Versions that are the same rank the same.
LEMMA SameRank ==
    ASSUME NEW left \in ResourceRows, NEW right \in ResourceRows, SameVersion(left, right),
           NEW row
    PROVE  /\ Precedes(left, row) <=> Precedes(right, row)
           /\ Precedes(row, left) <=> Precedes(row, right)
<1>1. left.order = right.order /\ left.created = right.created
    BY SameFields
<1> QED
    BY <1>1 DEF Precedes, OrderPrecedes

\* Rows appear under free identities, or are deprecated.
RowsStep ==
    /\ resources' \subseteq ResourceRows
    /\ \A row \in resources : \E now \in resources' :
           /\ SameVersion(now, row)
           /\ row.state = "DEPRECATED" => now.state = "DEPRECATED"

\* Rows that were kept are kept, ...
LEMMA KeptNext ==
    ASSUME resources \subseteq ResourceRows, RowsStep, NEW row \in ResourceRows, Kept(row)
    PROVE  Kept(row)'
<1>1. PICK now \in resources : /\ SameVersion(now, row)
                               /\ row.state = "DEPRECATED" => now.state = "DEPRECATED"
    BY DEF Kept
<1>2. PICK later \in resources' : /\ SameVersion(later, now)
                                  /\ now.state = "DEPRECATED" => later.state = "DEPRECATED"
    BY DEF RowsStep
<1>3. SameVersion(later, row)
    BY <1>1, <1>2 DEF SameVersion
<1> QED
    BY <1>1, <1>2, <1>3 DEF Kept

\* ... and those that were withdrawn are withdrawn.
LEMMA WithdrawnNext ==
    ASSUME RowsStep, NEW row, Withdrawn(row)
    PROVE  Withdrawn(row)'
<1>1. PICK now \in resources : SameVersion(now, row) /\ now.state = "DEPRECATED"
    BY DEF Withdrawn
<1>2. PICK later \in resources' : SameVersion(later, now) /\ later.state = "DEPRECATED"
    BY <1>1 DEF RowsStep
<1> QED
    BY <1>1, <1>2 DEF Withdrawn, SameVersion

\* A row that stays keeps its version.
LEMMA SameSelf == \A row : SameVersion(row, row)
<1> QED
    BY DEF SameVersion

\* A row that is inserted under a free identity.
LEMMA InsertedRow ==
    ASSUME TypeOK, TableOK, NEW candidate \in ResourceRows, ById(candidate.id) = {},
           resources' = resources \union {candidate}
    PROVE  RowsStep /\ TableOK' /\ Kept(candidate)'
<1>1. RowsStep
    BY SameSelf DEF RowsStep, TypeOK
<1>2. IsFiniteSet(resources')
    BY FS_AddElement DEF TableOK
<1>3. \A row \in resources : row.id # candidate.id
    BY DEF ById
<1>4. TableOK'
    BY <1>2, <1>3 DEF TableOK
<1>5. candidate \in resources'
    OBVIOUS
<1> QED
    BY <1>1, <1>4, <1>5, SameSelf DEF Kept

\* Every step moves the rows so.
LEMMA RowsMove == TypeOK /\ TableOK /\ [Next]_vars => RowsStep /\ TableOK'
<1> SUFFICES ASSUME TypeOK, TableOK, [Next]_vars PROVE RowsStep /\ TableOK'
    OBVIOUS
<1>1. CASE UNCHANGED resources
    BY <1>1, SameSelf DEF RowsStep, TableOK, TypeOK
<1>2. ASSUME NEW p \in Publishers, Commit(p) \/ PublishFails(p) PROVE RowsStep /\ TableOK'
  <2>1. \/ UNCHANGED resources
        \/ \E candidate \in publish[p].candidate :
               /\ ById(candidate.id) = {}
               /\ resources' = resources \union {candidate}
    BY <1>2 DEF Commit, PublishFails
  <2>2. publish[p].candidate \subseteq ResourceRows
    BY DEF TypeOK, PublishCalls
  <2> QED
    BY <1>1, <2>1, <2>2, InsertedRow
<1>3. ASSUME NEW id \in Resources, Deprecate(id) PROVE RowsStep /\ TableOK'
  <2>1. PICK row \in ById(id) :
            /\ row.state = "PUBLISHED"
            /\ resources' = (resources \ {row}) \union {[row EXCEPT !.state = "DEPRECATED"]}
    BY <1>3 DEF Deprecate
  <2> DEFINE new == [row EXCEPT !.state = "DEPRECATED"]
  <2>2. row \in resources /\ row \in ResourceRows
    BY DEF ById, TypeOK
  <2>3. /\ new \in ResourceRows /\ new.id = row.id /\ new.state = "DEPRECATED"
        /\ new.profile = row.profile /\ new.order = row.order /\ new.created = row.created
    BY <2>2 DEF ResourceRows, States
  <2>4. SameVersion(new, row)
    BY <2>2, <2>3, SameFields
  <2>5. resources' = (resources \ {row}) \union {new}
    BY <2>1
  <2> HIDE DEF new
  <2>6. RowsStep
    BY <2>2, <2>3, <2>4, <2>5, SameSelf DEF RowsStep, TypeOK
  <2>7. IsFiniteSet(resources')
    BY <2>5, FS_AddElement, FS_RemoveElement DEF TableOK
  <2>8. TableOK'
    BY <2>2, <2>3, <2>5, <2>7 DEF TableOK
  <2> QED
    BY <2>6, <2>8
<1>4. ASSUME NEW p \in Publishers, BeginPublish(p) PROVE UNCHANGED resources
    BY <1>4 DEF BeginPublish
<1>5. ASSUME NEW r \in Readers, BeginFind(r) \/ FindFails(r) PROVE UNCHANGED resources
    BY <1>5 DEF BeginFind, FindFails
<1>6. ASSUME NEW r \in Readers, NEW question \in find[r].question,
             Exact(r, question) \/ Latest(r, question) \/ List(r, question)
      PROVE  UNCHANGED resources
    BY <1>6 DEF Exact, Latest, List, AnswerRequired, Answer
<1> QED
    BY <1>1, <1>2, <1>3, <1>4, <1>5, <1>6 DEF Next, vars

--------------------------------------------------------------------------------
(* Types. *)

\* A question that a reader asks is a question.
LEMMA QuestionTyped ==
    ASSUME TypeOK, NEW r \in Readers, NEW question \in find[r].question
    PROVE  /\ question \in Questions
           /\ question.mode \in {"exact", "latest", "list"} /\ question.limit \in Nat \ {0}
           /\ question.mode = "exact" => question.state = AnyState
           /\ question.mode = "latest" => question.limit = 1 /\ question.state = "PUBLISHED"
           /\ question.state \in {"PUBLISHED", "DEPRECATED", AnyState}
<1>1. question \in Questions
    BY DEF TypeOK, Lookups
<1>2. /\ question \in [mode : Modes, profile : Profiles, subject : Resources \union Families,
                       state : States \union {AnyState}, limit : 1 .. MaxLimit]
      /\ question.mode = "exact" => question.state = AnyState
      /\ question.mode = "latest" => question.limit = 1 /\ question.state = "PUBLISHED"
    BY <1>1 DEF Questions
<1>3. question.mode \in Modes /\ question.limit \in 1 .. MaxLimit
    BY <1>2
<1>4. question.state \in States \union {AnyState}
    BY <1>2
<1>5. question.mode \in {"exact", "latest", "list"}
    BY <1>3, ModesAssumption
<1>6. question.limit \in Nat \ {0}
    BY <1>3, BoundsAssumption
<1>7. question.state \in {"PUBLISHED", "DEPRECATED", AnyState}
    BY <1>4 DEF States
<1> QED
    BY <1>1, <1>2, <1>5, <1>6, <1>7

\* An answer is a lookup record.
LEMMA AnswerTyped ==
    ASSUME TypeOK, NEW r \in Readers, NEW outcome \in Outcomes,
           NEW rows \in SUBSET ResourceRows, Answer(r, outcome, rows)
    PROVE  TypeOK'
<1>1. find' \in [Readers -> Lookups]
    BY DEF Answer, TypeOK, Lookups
<1> QED
    BY <1>1 DEF Answer, TypeOK

\* So is what _require_artifact and _require_configuration make of a row.
LEMMA RequiredTyped ==
    ASSUME TypeOK, NEW r \in Readers, NEW question, NEW row \in resources,
           AnswerRequired(r, question, row)
    PROVE  TypeOK'
<1>1. {row} \in SUBSET ResourceRows /\ {} \in SUBSET ResourceRows
    BY DEF TypeOK
<1> QED
    BY <1>1, AnswerTyped DEF AnswerRequired, Outcomes

\* Every step keeps the types.
LEMMA TypeNext == TypeOK /\ RowsStep /\ [Next]_vars => TypeOK'
<1> SUFFICES ASSUME TypeOK, RowsStep, [Next]_vars PROVE TypeOK'
    OBVIOUS
<1>0. CASE UNCHANGED vars
    BY <1>0 DEF TypeOK, vars
<1>f. faults < MaxFaults /\ faults' = faults + 1 => faults' \in 0 .. MaxFaults
    BY BoundsAssumption DEF TypeOK
<1>1. ASSUME NEW p \in Publishers, BeginPublish(p) PROVE TypeOK'
    BY <1>1 DEF BeginPublish, TypeOK, PublishCalls
<1>2. ASSUME NEW p \in Publishers, NEW rows \in SUBSET ResourceRows, Receive(p, rows)
      PROVE  publish' \in [Publishers -> PublishCalls]
    BY <1>2 DEF Receive, TypeOK, PublishCalls
<1>3. ASSUME NEW p \in Publishers, Commit(p) PROVE TypeOK'
  <2>1. PICK candidate \in publish[p].candidate :
            \/ Receive(p, {candidate})
            \/ Receive(p, {row \in ById(candidate.id) : /\ row.profile = candidate.profile
                                                        /\ row.order = candidate.order})
    BY <1>3 DEF Commit
  <2>2. candidate \in ResourceRows /\ ById(candidate.id) \subseteq ResourceRows
    BY DEF TypeOK, PublishCalls, ById
  <2>3. publish' \in [Publishers -> PublishCalls]
    BY <1>2, <2>1, <2>2
  <2> QED
    BY <1>3, <2>3 DEF Commit, TypeOK, RowsStep
<1>4. ASSUME NEW p \in Publishers, PublishFails(p) PROVE TypeOK'
    BY <1>2, <1>4, <1>f DEF PublishFails, TypeOK, RowsStep
<1>5. ASSUME NEW id \in Resources, Deprecate(id) PROVE TypeOK'
    BY <1>5 DEF Deprecate, TypeOK, RowsStep
<1>6. ASSUME NEW r \in Readers, BeginFind(r) PROVE TypeOK'
  <2>1. PICK question \in Questions :
           find' = [find EXCEPT ![r] =
               [pc |-> "query", question |-> {question}, outcome |-> "none", answer |-> {},
                last |-> IF find[r].question = {question} THEN find[r].answer ELSE {},
                settled |-> Receipts]]
    BY <1>6 DEF BeginFind
  <2>2. Receipts \subseteq ResourceRows
    BY DEF Receipts, TypeOK, PublishCalls
  <2> DEFINE last == IF find[r].question = {question} THEN find[r].answer ELSE {}
  <2>3. last \subseteq ResourceRows
    BY DEF TypeOK, Lookups
  <2> HIDE DEF last
  <2>4. find' \in [Readers -> Lookups]
    BY <2>1, <2>2, <2>3 DEF TypeOK, Lookups, Outcomes, last
  <2> QED
    BY <1>6, <2>4 DEF BeginFind, TypeOK
<1>7. ASSUME NEW r \in Readers, FindFails(r) PROVE TypeOK'
  <2>1. find' \in [Readers -> Lookups]
    BY <1>7 DEF FindFails, TypeOK, Lookups, Outcomes
  <2> QED
    BY <1>7, <1>f, <2>1 DEF FindFails, TypeOK
<1>8. ASSUME NEW r \in Readers, NEW question \in find[r].question,
             Exact(r, question) \/ Latest(r, question) \/ List(r, question)
      PROVE  TypeOK'
  <2>0. {} \in SUBSET ResourceRows /\ "not_found" \in Outcomes /\ "found" \in Outcomes
    BY DEF Outcomes
  <2>1. CASE Exact(r, question)
    BY <2>0, <2>1, AnswerTyped, RequiredTyped DEF Exact, ById
  <2>2. \A page \in Pages(Matching(question), question.limit) :
            page \subseteq resources /\ page \subseteq ResourceRows
    BY DEF Pages, Matching, TypeOK
  <2>3. CASE Latest(r, question)
    BY <2>0, <2>2, <2>3, AnswerTyped, RequiredTyped DEF Latest
  <2>4. CASE List(r, question)
    BY <2>0, <2>2, <2>4, AnswerTyped DEF List
  <2> QED
    BY <1>8, <2>1, <2>3, <2>4
<1> QED
    BY <1>0, <1>1, <1>3, <1>4, <1>5, <1>6, <1>7, <1>8 DEF Next

--------------------------------------------------------------------------------
(* Pages. *)

\* A page has all of the rows, or it is full of rows that rank no lower.
LEMMA PageHolds ==
    ASSUME NEW rows, IsFiniteSet(rows), NEW limit \in Nat \ {0},
           NEW page \in Pages(rows, limit), NEW row \in rows
    PROVE  /\ page # {}
           /\ \/ row \in page
              \/ Cardinality(page) = limit /\ \A listed \in page : ~ Precedes(row, listed)
<1>1. /\ page \in SUBSET rows
      /\ Cardinality(page) = IF Cardinality(rows) < limit THEN Cardinality(rows) ELSE limit
      /\ \A listed \in page, other \in rows \ page : ~ Precedes(other, listed)
    BY DEF Pages
<1>2. Cardinality(rows) \in Nat
    BY FS_CardinalityType
<1>3. Cardinality(rows) # 0
    BY FS_EmptySet
<1>4. page # {}
    BY <1>1, <1>2, <1>3, FS_EmptySet
<1>5. CASE Cardinality(rows) < limit
  <2>1. page = rows
    BY <1>1, <1>5, FS_Subset
  <2> QED
    BY <1>4, <2>1
<1>6. CASE ~ (Cardinality(rows) < limit)
    BY <1>1, <1>4, <1>6
<1> QED
    BY <1>5, <1>6

\* A page of one has the one row only.
LEMMA PageOfOne ==
    ASSUME NEW rows, IsFiniteSet(rows), NEW page \in Pages(rows, 1), NEW row \in page
    PROVE  page = {row}
<1>1. /\ page \in SUBSET rows
      /\ Cardinality(page) = IF Cardinality(rows) < 1 THEN Cardinality(rows) ELSE 1
    BY DEF Pages
<1>2. Cardinality(rows) \in Nat /\ IsFiniteSet(page)
    BY <1>1, FS_CardinalityType, FS_Subset
<1>3. Cardinality(page) # 0
    BY <1>2, FS_EmptySet
<1>4. Cardinality(page) = 1
    BY <1>1, <1>2, <1>3
<1> QED
    BY <1>2, <1>4, FS_Singleton

\* The rows that match a question are rows of the table, and can be listed.
LEMMA MatchingRows ==
    ASSUME TypeOK, TableOK, NEW question
    PROVE  /\ Matching(question) \subseteq resources /\ Matching(question) \subseteq ResourceRows
           /\ IsFiniteSet(Matching(question))
<1>1. Matching(question) \in SUBSET resources
    BY DEF Matching
<1> QED
    BY <1>1, FS_Subset DEF TableOK, TypeOK

\* A row that is due is on the page, or the page is full of rows that rank no lower.
LEMMA PageOfDue ==
    ASSUME TypeOK, TableOK, NEW r \in Readers, NEW question \in find[r].question,
           NEW row \in ResourceRows, Kept(row), Due(row, question),
           NEW page \in Pages(Matching(question), question.limit)
    PROVE  /\ page # {}
           /\ \/ \E listed \in page : SameVersion(listed, row)
              \/ /\ Cardinality(page) = question.limit
                 /\ \A listed \in page : ~ Precedes(row, listed)
<1>1. PICK now \in resources : /\ SameVersion(now, row)
                               /\ row.state = "DEPRECATED" => now.state = "DEPRECATED"
    BY DEF Kept
<1>2. now \in ResourceRows /\ row.state \in States /\ now.state \in States
    BY DEF TypeOK, ResourceRows
<1>3. now.id = row.id /\ now.profile = row.profile
    BY <1>1, <1>2, SameFields
<1>4. question.state \in {AnyState, now.state}
    BY <1>1, <1>2, QuestionTyped DEF Due, Withdrawn, States, AnyState
<1>5. now \in Matching(question)
    BY <1>3, <1>4 DEF Matching, Due
<1>6. question.limit \in Nat \ {0}
    BY QuestionTyped
<1>7. /\ page # {}
      /\ \/ now \in page
         \/ Cardinality(page) = question.limit /\ \A listed \in page : ~ Precedes(now, listed)
    BY <1>5, <1>6, MatchingRows, PageHolds
<1> QED
    BY <1>1, <1>2, <1>7, SameRank

--------------------------------------------------------------------------------
(* What has been seen is kept. *)

\* Everything that a lookup remembers is a row.
LEMMA SeenAreRows ==
    TypeOK => /\ \A p \in Publishers : /\ publish[p].receipt \subseteq ResourceRows
                                       /\ publish[p].candidate \subseteq ResourceRows
              /\ \A r \in Readers : /\ find[r].answer \subseteq ResourceRows
                                    /\ find[r].last \subseteq ResourceRows
                                    /\ find[r].settled \subseteq ResourceRows
<1> QED
    BY DEF TypeOK, PublishCalls, Lookups

\* A row that is there is kept.
LEMMA ThereKept == \A row \in resources : Kept(row)
<1> QED
    BY SameSelf DEF Kept

\* Receipts are of rows that are there.
LEMMA ReceiptsNext ==
    ASSUME TypeOK, TableOK, RowsStep, ReceiptsKept, [Next]_vars
    PROVE  ReceiptsKept'
<1>0. CASE UNCHANGED publish
    BY <1>0, KeptNext, SeenAreRows DEF ReceiptsKept, TypeOK
<1>1. ASSUME NEW p \in Publishers, NEW pc, NEW candidate, NEW rows \in SUBSET ResourceRows,
             \A row \in rows : Kept(row)',
             publish' = [publish EXCEPT ![p] = [pc |-> pc, candidate |-> candidate,
                                                receipt |-> rows]]
      PROVE  ReceiptsKept'
  <2>1. publish'[p].receipt = rows /\ \A other \in Publishers \ {p} : publish'[other] = publish[other]
    BY <1>1 DEF TypeOK
  <2>2. \A other \in Publishers \ {p} : \A row \in publish[other].receipt : Kept(row)'
    BY KeptNext, SeenAreRows DEF ReceiptsKept, TypeOK
  <2> QED
    BY <1>1, <2>1, <2>2 DEF ReceiptsKept
<1>2. ASSUME NEW p \in Publishers, BeginPublish(p) PROVE ReceiptsKept'
  <2>1. PICK candidate \in ResourceRows :
            publish' = [publish EXCEPT ![p] = [pc |-> "commit", candidate |-> {candidate},
                                               receipt |-> {}]]
    BY <1>2 DEF BeginPublish
  <2>2. {} \in SUBSET ResourceRows /\ \A row \in {} : Kept(row)'
    OBVIOUS
  <2> QED
    BY <1>1, <2>1, <2>2
<1>3. ASSUME NEW p \in Publishers, PublishFails(p) PROVE ReceiptsKept'
    BY <1>1, <1>3 DEF PublishFails, Receive
<1>4. ASSUME NEW p \in Publishers, Commit(p) PROVE ReceiptsKept'
  <2>1. PICK candidate \in publish[p].candidate :
            IF ById(candidate.id) = {}
            THEN /\ resources' = resources \union {candidate}
                 /\ Receive(p, {candidate})
            ELSE /\ Receive(p, {row \in ById(candidate.id) : /\ row.profile = candidate.profile
                                                             /\ row.order = candidate.order})
                 /\ UNCHANGED resources
    BY <1>4 DEF Commit
  <2>2. candidate \in ResourceRows
    BY SeenAreRows
  <2>3. CASE ById(candidate.id) = {}
    <3>1. Kept(candidate)'
      BY <2>1, <2>2, <2>3, InsertedRow
    <3> QED
      BY <1>1, <2>1, <2>2, <2>3, <3>1 DEF Receive
  <2>4. CASE ById(candidate.id) # {}
    <3> DEFINE rows == {row \in ById(candidate.id) : /\ row.profile = candidate.profile
                                                     /\ row.order = candidate.order}
    <3>1. rows \subseteq resources /\ rows \in SUBSET ResourceRows
      BY DEF ById, TypeOK
    <3>2. Receive(p, rows)
      BY <2>1, <2>4
    <3> HIDE DEF rows
    <3>3. \A row \in rows : Kept(row)'
      BY <3>1, ThereKept, KeptNext DEF TypeOK
    <3> QED
      BY <1>1, <3>1, <3>2, <3>3 DEF Receive
  <2> QED
    BY <2>3, <2>4
<1>5. ASSUME NEW r \in Readers, BeginFind(r) \/ FindFails(r) PROVE UNCHANGED publish
    BY <1>5 DEF BeginFind, FindFails
<1>6. ASSUME NEW r \in Readers, NEW question \in find[r].question,
             Exact(r, question) \/ Latest(r, question) \/ List(r, question)
      PROVE  UNCHANGED publish
    BY <1>6 DEF Exact, Latest, List, AnswerRequired, Answer
<1>7. ASSUME NEW id \in Resources, Deprecate(id) PROVE UNCHANGED publish
    BY <1>7 DEF Deprecate
<1> QED
    BY <1>0, <1>2, <1>3, <1>4, <1>5, <1>6, <1>7 DEF Next, vars

--------------------------------------------------------------------------------
(* Readers. *)

\* A reader that a step leaves alone keeps what it has.
LEMMA ReaderStays ==
    ASSUME TypeOK, RowsStep, NEW r \in Readers, ReaderOK(r), AnswerOK(r), find'[r] = find[r]
    PROVE  ReaderOK(r)' /\ AnswerOK(r)'
<1>1. \A row \in find[r].answer \union find[r].last \union find[r].settled : Kept(row)'
    BY KeptNext, SeenAreRows DEF ReaderOK, TypeOK
<1>2. ReaderOK(r)'
    BY <1>1 DEF ReaderOK, Fits
<1>3. \A row : Withdrawn(row) => Withdrawn(row)'
    BY WithdrawnNext
<1>4. LatestOK(r)'
    BY <1>3 DEF AnswerOK, LatestOK, Answered
<1>5. PageOK(r)'
    BY <1>3 DEF AnswerOK, PageOK, Answered, Due
<1>6. ExactOK(r)'
    BY DEF AnswerOK, ExactOK, Answered
<1> QED
    BY <1>2, <1>4, <1>5, <1>6 DEF AnswerOK

\* A lookup that begins remembers the answer to its question and the receipts.
LEMMA BeginOK ==
    ASSUME TypeOK, ReceiptsKept, NEW r \in Readers, ReaderOK(r), BeginFind(r)
    PROVE  ReaderOK(r)' /\ AnswerOK(r)'
<1>1. PICK question \in Questions :
          find' = [find EXCEPT ![r] =
              [pc |-> "query", question |-> {question}, outcome |-> "none", answer |-> {},
               last |-> IF find[r].question = {question} THEN find[r].answer ELSE {},
               settled |-> Receipts]]
    BY DEF BeginFind
<1>2. /\ find'[r].pc = "query" /\ find'[r].question = {question}
      /\ find'[r].outcome = "none" /\ find'[r].answer = {} /\ find'[r].settled = Receipts
      /\ find'[r].last \subseteq find[r].answer
      /\ find'[r].last # {} => question \in find[r].question
    BY <1>1 DEF TypeOK
<1>3. \A row \in Receipts : Kept(row)
    BY DEF Receipts, ReceiptsKept
<1>4. \A row : Kept(row) => Kept(row)'
    BY DEF BeginFind, Kept
<1>5. \A row \in find'[r].last : Fits(row, question)
    BY <1>2 DEF ReaderOK
<1>6. ReaderOK(r)'
    BY <1>2, <1>3, <1>4, <1>5 DEF ReaderOK, Fits
<1>7. AnswerOK(r)'
    BY <1>2 DEF AnswerOK, LatestOK, PageOK, ExactOK, Answered
<1> QED
    BY <1>6, <1>7

\* A lookup that fails answers nothing.
LEMMA FailsOK ==
    ASSUME TypeOK, NEW r \in Readers, ReaderOK(r), FindFails(r)
    PROVE  ReaderOK(r)' /\ AnswerOK(r)'
<1>1. /\ find'[r].pc = "idle" /\ find'[r].outcome = "error"
      /\ find'[r].question = find[r].question /\ find'[r].answer = find[r].answer
      /\ find'[r].last = find[r].last /\ find'[r].settled = find[r].settled
    BY DEF FindFails, TypeOK, Lookups
<1>2. \A row : Kept(row) => Kept(row)'
    BY DEF FindFails, Kept
<1>3. ReaderOK(r)'
    BY <1>1, <1>2 DEF ReaderOK, Fits
<1>4. AnswerOK(r)'
    BY <1>1 DEF AnswerOK, LatestOK, PageOK, ExactOK, Answered
<1> QED
    BY <1>3, <1>4


\* An answer is right when its rows are.
LEMMA AnswerRight ==
    ASSUME TypeOK, NEW r \in Readers, ReaderOK(r), NEW question \in find[r].question,
           NEW outcome, NEW rows \in SUBSET resources, Answer(r, outcome, rows),
           \A row \in rows : Fits(row, question),
           outcome = "incompatible" => question.mode = "exact",
           question.mode = "latest" =>
               \A before \in find[r].last :
                   Withdrawn(before) \/ \E row \in rows : ~ Precedes(before, row),
           question.mode \in {"latest", "list"} =>
               \A row \in find[r].settled : Due(row, question) =>
                   \/ \E listed \in rows : SameVersion(listed, row)
                   \/ /\ Cardinality(rows) = question.limit
                      /\ \A listed \in rows : ~ Precedes(row, listed),
           question.mode = "exact" =>
               \A before \in find[r].last \union
                                {row \in find[r].settled : row.id = question.subject} :
                   before.profile = question.profile =>
                       \E row \in rows :
                           /\ SameVersion(row, before)
                           /\ before.state = "DEPRECATED" => row.state = "DEPRECATED"
    PROVE  ReaderOK(r)' /\ AnswerOK(r)'
<1>1. /\ find'[r].pc = "idle" /\ find'[r].outcome = outcome /\ find'[r].answer = rows
      /\ find'[r].question = {question} /\ find[r].question = {question}
      /\ find'[r].last = find[r].last /\ find'[r].settled = find[r].settled
    BY DEF Answer, TypeOK, Lookups, ReaderOK
<1>2. /\ \A row : Kept(row) => Kept(row)'
      /\ \A row : Withdrawn(row)' => Withdrawn(row)
      /\ \A row : Withdrawn(row) => Withdrawn(row)'
    BY DEF Answer, Kept, Withdrawn
<1>3. \A row \in rows : Kept(row)'
    BY <1>2, ThereKept
<1>4. ReaderOK(r)'
    BY <1>1, <1>2, <1>3 DEF ReaderOK, Fits
<1>5. LatestOK(r)'
    BY <1>1, <1>2 DEF LatestOK, Answered
<1>6. PageOK(r)'
    BY <1>1, <1>2 DEF PageOK, Answered, Due
<1>7. ExactOK(r)'
    BY <1>1 DEF ExactOK, Answered
<1> QED
    BY <1>4, <1>5, <1>6, <1>7 DEF AnswerOK

\* No row ranks higher than another of its version.
LEMMA RankIrreflexive ==
    ASSUME NEW row \in ResourceRows, NEW listed \in ResourceRows, SameVersion(listed, row)
    PROVE  ~ Precedes(row, listed)
<1>1. row.order = listed.order /\ row.created = listed.created
    BY SameFields
<1>2. row.created \in Nat /\ row.order \in Orders
    BY DEF ResourceRows
<1>3. row.order = {} \/ \E n \in Nat : row.order = {n}
    BY <1>2 DEF Orders
<1> QED
    BY <1>1, <1>2, <1>3 DEF Precedes, OrderPrecedes

\* exact answers with the row of its subject, which is the only one.
LEMMA ExactRight ==
    ASSUME TypeOK, TableOK, NEW r \in Readers, ReaderOK(r),
           NEW question \in find[r].question, Exact(r, question)
    PROVE  ReaderOK(r)' /\ AnswerOK(r)'
<1>0. question.mode = "exact"
    BY DEF Exact, Asks
<1>1. ASSUME NEW before \in find[r].last \union
                               {row \in find[r].settled : row.id = question.subject}
      PROVE  /\ before \in ResourceRows /\ before.id = question.subject
             /\ \E now \in ById(question.subject) :
                    /\ SameVersion(now, before) /\ now.profile = before.profile
                    /\ before.state = "DEPRECATED" => now.state = "DEPRECATED"
  <2>1. before \in ResourceRows
    BY SeenAreRows
  <2>2. before.id = question.subject /\ Kept(before)
    BY <1>0 DEF ReaderOK, Fits
  <2>3. PICK now \in resources : /\ SameVersion(now, before)
                                 /\ before.state = "DEPRECATED" => now.state = "DEPRECATED"
    BY <2>2 DEF Kept
  <2>4. now.id = before.id /\ now.profile = before.profile
    BY <2>1, <2>3, SameFields DEF TypeOK
  <2> QED
    BY <2>1, <2>2, <2>3, <2>4 DEF ById
<1>2. CASE ById(question.subject) = {} /\ Answer(r, "not_found", {})
  <2>1. {} \in SUBSET resources /\ \A row \in {} : Fits(row, question)
    OBVIOUS
  <2> QED
    BY <1>0, <1>1, <1>2, <2>1, AnswerRight
<1>3. ASSUME NEW row \in ById(question.subject), AnswerRequired(r, question, row)
      PROVE  ReaderOK(r)' /\ AnswerOK(r)'
  <2>1. row \in resources /\ row.id = question.subject
    BY DEF ById
  <2>2. \A now \in ById(question.subject) : now = row
    BY DEF ById, TableOK
  <2>3. CASE row.profile = question.profile
    <3>1. Answer(r, "found", {row})
      BY <1>3, <2>3 DEF AnswerRequired
    <3>2. {row} \in SUBSET resources /\ \A found \in {row} : Fits(found, question)
      BY <1>0, <2>1, <2>3 DEF Fits
    <3> QED
      BY <1>0, <1>1, <2>2, <3>1, <3>2, AnswerRight
  <2>4. CASE row.profile # question.profile
    <3>1. Answer(r, "incompatible", {})
      BY <1>3, <2>4 DEF AnswerRequired
    <3>2. {} \in SUBSET resources /\ \A found \in {} : Fits(found, question)
      OBVIOUS
    <3> QED
      BY <1>0, <1>1, <2>2, <2>4, <3>1, <3>2, AnswerRight
  <2> QED
    BY <2>3, <2>4
<1> QED
    BY <1>2, <1>3 DEF Exact

\* What a page must have for the receipts that are out.
LEMMA PageRight ==
    ASSUME TypeOK, TableOK, NEW r \in Readers, ReaderOK(r),
           NEW question \in find[r].question, question.mode # "exact",
           NEW page \in Pages(Matching(question), question.limit)
    PROVE  /\ page \in SUBSET resources /\ \A row \in page : Fits(row, question)
           /\ \A row \in find[r].settled : Due(row, question) =>
                  \/ \E listed \in page : SameVersion(listed, row)
                  \/ /\ Cardinality(page) = question.limit
                     /\ \A listed \in page : ~ Precedes(row, listed)
<1>1. page \in SUBSET Matching(question)
    BY DEF Pages
<1>2. page \in SUBSET resources /\ \A row \in page : Fits(row, question)
    BY <1>1 DEF Matching, Fits
<1>3. \A row \in find[r].settled : row \in ResourceRows /\ Kept(row)
    BY SeenAreRows DEF ReaderOK
<1> QED
    BY <1>2, <1>3, PageOfDue

\* list answers with a page.
LEMMA ListRight ==
    ASSUME TypeOK, TableOK, NEW r \in Readers, ReaderOK(r),
           NEW question \in find[r].question, List(r, question)
    PROVE  ReaderOK(r)' /\ AnswerOK(r)'
<1>0. question.mode = "list"
    BY DEF List, Asks
<1>1. PICK page \in Pages(Matching(question), question.limit) : Answer(r, "found", page)
    BY DEF List
<1> QED
    BY <1>0, <1>1, PageRight, AnswerRight

\* latest answers with the row of a page of one; the version before is on it, or
\* ranks no higher, or has been withdrawn.
LEMMA LatestRight ==
    ASSUME TypeOK, TableOK, NEW r \in Readers, ReaderOK(r),
           NEW question \in find[r].question, Latest(r, question)
    PROVE  ReaderOK(r)' /\ AnswerOK(r)'
<1>0. question.mode = "latest" /\ question.limit = 1 /\ question.state = "PUBLISHED"
    BY QuestionTyped DEF Latest, Asks
<1>1. PICK page \in Pages(Matching(question), question.limit) :
          \/ page = {} /\ Answer(r, "not_found", {})
          \/ \E row \in page : AnswerRequired(r, question, row)
    BY DEF Latest
<1>2. /\ page \in SUBSET resources /\ page \in SUBSET ResourceRows
      /\ \A row \in page : Fits(row, question)
    BY <1>0, PageRight DEF TypeOK
<1>3. ASSUME NEW before \in find[r].last
      PROVE  Withdrawn(before) \/ \E row \in page : ~ Precedes(before, row)
  <2>1. before \in ResourceRows /\ Kept(before) /\ Fits(before, question)
    BY SeenAreRows DEF ReaderOK
  <2>2. SUFFICES ASSUME ~ Withdrawn(before)
                 PROVE  \E row \in page : ~ Precedes(before, row)
    OBVIOUS
  <2>3. before.state = "PUBLISHED"
    BY <2>1, <2>2 DEF Kept, Withdrawn, ResourceRows, States
  <2>4. Due(before, question)
    BY <1>0, <2>1, <2>2, <2>3 DEF Due, Fits
  <2>5. /\ page # {}
        /\ \/ \E listed \in page : SameVersion(listed, before)
           \/ \A listed \in page : ~ Precedes(before, listed)
    BY <2>1, <2>4, PageOfDue
  <2>6. \A listed \in page : SameVersion(listed, before) => ~ Precedes(before, listed)
    BY <1>2, <2>1, RankIrreflexive
  <2> QED
    BY <2>5, <2>6
<1>4. \A row \in find[r].settled : Due(row, question) =>
          \/ \E listed \in page : SameVersion(listed, row)
          \/ /\ Cardinality(page) = question.limit
             /\ \A listed \in page : ~ Precedes(row, listed)
    BY <1>0, PageRight
<1>5. ASSUME NEW outcome \in {"found", "not_found"}, Answer(r, outcome, page)
      PROVE  ReaderOK(r)' /\ AnswerOK(r)'
    BY <1>0, <1>2, <1>3, <1>4, <1>5, AnswerRight
<1>6. CASE page = {} /\ Answer(r, "not_found", {})
    BY <1>5, <1>6
<1>7. ASSUME NEW row \in page, AnswerRequired(r, question, row)
      PROVE  ReaderOK(r)' /\ AnswerOK(r)'
  <2>1. page = {row}
    BY <1>0, MatchingRows, PageOfOne
  <2>2. row.profile = question.profile
    BY <1>2 DEF Fits
  <2>3. Answer(r, "found", page)
    BY <1>7, <2>1, <2>2 DEF AnswerRequired
  <2> QED
    BY <1>5, <2>3
<1> QED
    BY <1>1, <1>6, <1>7

\* Every step keeps what readers have been handed right.
LEMMA ReadersNext ==
    ASSUME TypeOK, TableOK, RowsStep, ReceiptsKept, [Next]_vars,
           \A r \in Readers : ReaderOK(r) /\ AnswerOK(r)
    PROVE  \A r \in Readers : ReaderOK(r)' /\ AnswerOK(r)'
<1>0. CASE UNCHANGED find
    BY <1>0, ReaderStays
<1>1. ASSUME NEW r \in Readers,
             \/ BeginFind(r) \/ FindFails(r)
             \/ \E question \in find[r].question :
                    Exact(r, question) \/ Latest(r, question) \/ List(r, question)
      PROVE  \A reader \in Readers : ReaderOK(reader)' /\ AnswerOK(reader)'
  <2>1. \A other \in Readers \ {r} : find'[other] = find[other]
    BY <1>1 DEF BeginFind, FindFails, Exact, Latest, List, AnswerRequired, Answer, TypeOK
  <2>2. \A other \in Readers \ {r} : ReaderOK(other)' /\ AnswerOK(other)'
    BY <2>1, ReaderStays
  <2>3. ReaderOK(r)' /\ AnswerOK(r)'
    BY <1>1, BeginOK, FailsOK, ExactRight, LatestRight, ListRight
  <2> QED
    BY <2>2, <2>3
<1>2. ASSUME NEW p \in Publishers, BeginPublish(p) \/ Commit(p) \/ PublishFails(p)
      PROVE  UNCHANGED find
    BY <1>2 DEF BeginPublish, Commit, PublishFails
<1>3. ASSUME NEW id \in Resources, Deprecate(id) PROVE UNCHANGED find
    BY <1>3 DEF Deprecate
<1> QED
    BY <1>0, <1>1, <1>2, <1>3 DEF Next, vars

--------------------------------------------------------------------------------
(* The theorems. *)

\* The invariant holds at the start, ...
LEMMA InvInit == Init => IInv
<1> SUFFICES ASSUME Init PROVE IInv
    OBVIOUS
<1>1. TypeOK
    BY BoundsAssumption DEF Init, TypeOK, PublishCalls, Lookups, Outcomes
<1>2. TableOK
    BY FS_EmptySet DEF Init, TableOK
<1>3. ReceiptsKept /\ \A r \in Readers : ReaderOK(r) /\ AnswerOK(r)
    BY DEF Init, ReceiptsKept, ReaderOK, AnswerOK, LatestOK, PageOK, ExactOK
<1> QED
    BY <1>1, <1>2, <1>3 DEF IInv

\* ... is kept by every step, ...
LEMMA InvNext == IInv /\ [Next]_vars => IInv'
<1> SUFFICES ASSUME IInv, [Next]_vars PROVE IInv'
    OBVIOUS
<1>1. RowsStep /\ TableOK'
    BY RowsMove DEF IInv
<1>2. TypeOK'
    BY <1>1, TypeNext DEF IInv
<1>3. ReceiptsKept'
    BY <1>1, ReceiptsNext DEF IInv
<1>4. \A r \in Readers : ReaderOK(r)' /\ AnswerOK(r)'
    BY <1>1, ReadersNext DEF IInv
<1> QED
    BY <1>1, <1>2, <1>3, <1>4 DEF IInv

\* ... and so holds always.
LEMMA InvAlways == Spec => []IInv
<1> QED
    BY InvInit, InvNext, PTL DEF Spec

\* A consumer is handed versions as they are stored and of its own profile, and the
\* profile check after latest never fires.
THEOREM StateConsistent == Spec => []Consistent
<1>1. IInv => Consistent
  <2> SUFFICES ASSUME IInv PROVE AnswersAreStored
    BY DEF IInv, Consistent
  <2> QED
    BY DEF IInv, ReaderOK, Kept, Fits, AnswersAreStored
<1> QED
    BY <1>1, InvAlways, PTL

\* A reader that asks for the latest version again gets one that ranks no lower,
\* unless the version it had was deprecated.
THEOREM LatestAdvances == Spec => []LatestNeverGoesBack
<1>1. IInv => LatestNeverGoesBack
    BY DEF IInv, AnswerOK, LatestOK, LatestNeverGoesBack
<1> QED
    BY <1>1, InvAlways, PTL

\* A page has the versions whose receipts were out, or is full of versions that
\* rank no lower.
THEOREM ReceiptsListed == Spec => []PagesSeeReceipts
<1>1. IInv => PagesSeeReceipts
    BY DEF IInv, AnswerOK, PageOK, Due, PagesSeeReceipts
<1> QED
    BY <1>1, InvAlways, PTL

\* What exact returned, or a receipt showed, exact returns again.
THEOREM ExactRepeats == Spec => []ExactIsStable
<1>1. IInv => ExactIsStable
    BY DEF IInv, AnswerOK, ExactOK, ExactIsStable
<1> QED
    BY <1>1, InvAlways, PTL
================================================================================
