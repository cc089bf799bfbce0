------------------------------- MODULE Resolution -------------------------------
(***************************************************************************)
(* Resolution: exact(identity), latest(namespace, kind, name) and          *)
(* list_resources of the two consumers, over a metadata table in which     *)
(* versions of one logical name appear and are deprecated meanwhile.       *)
(*                                                                         *)
(* The order of latest is made by the publishers: version_order, which a   *)
(* version may lack, then createdAt, which each publisher reads from its   *)
(* own clock before its transaction commits.  So rows appear in the table  *)
(* in any order of rank, and two of them may rank alike; the query has no  *)
(* third key.  What it picks among equals, and what a cursor stands for,   *)
(* is the Catalog's.                                                       *)
(***************************************************************************)
EXTENDS Naturals, FiniteSets

CONSTANTS
    Publishers,    \* processes that publish
    Readers,       \* processes that resolve
    Resources,     \* resource identities
    Families,      \* (namespace, kind, name), the identity without its version
    FamilyOf,      \* the family of each identity
    Modes,         \* the lookups that readers make
    MaxOrder,      \* bound on version_order
    MaxTime,       \* bound on the clocks of publishers
    MaxLimit,      \* bound on the limit of a listing
    MaxFaults      \* bound on failed remote calls in a behaviour

ASSUME FamiliesAssumption == FamilyOf \in [Resources -> Families]
ASSUME ModesAssumption == Modes \subseteq {"exact", "latest", "list"}
ASSUME BoundsAssumption == /\ MaxOrder \in Nat /\ MaxTime \in Nat
                           /\ MaxLimit \in Nat \ {0} /\ MaxFaults \in Nat

VARIABLES
    resources,     \* table of resource versions
    publish,       \* publish[p]: the publish call of p
    find,          \* find[r]: the lookup of r
    faults         \* failed remote calls so far

vars == <<resources, publish, find, faults>>

Profiles == {"ARTIFACT", "CONFIGURATION"}
States == {"PUBLISHED", "DEPRECATED"}
AnyState == "ANY"                         \* state is None

\* order is empty when version_order is None.
Orders == {{}} \union {{n} : n \in 0 .. MaxOrder}

ResourceRows == [id : Resources, profile : Profiles, order : Orders,
                 created : 0 .. MaxTime, state : States]

\* candidate and receipt hold at most one row.
PublishCalls == [pc : {"idle", "commit"}, candidate : SUBSET ResourceRows,
                 receipt : SUBSET ResourceRows]

\* subject is an identity for exact, a family otherwise.  latest_resource asks
\* for one published row; exact does not look at the state.
Questions ==
    {question \in [mode : Modes, profile : Profiles, subject : Resources \union Families,
                   state : States \union {AnyState}, limit : 1 .. MaxLimit] :
        /\ question.mode = "exact"  => /\ question.subject \in Resources
                                       /\ question.state = AnyState /\ question.limit = 1
        /\ question.mode = "latest" => /\ question.subject \in Families
                                       /\ question.state = "PUBLISHED" /\ question.limit = 1
        /\ question.mode = "list"   => question.subject \in Families}

Outcomes == {"none", "found", "not_found", "incompatible", "error"}

\* question holds at most one.  answer and outcome are those of the question; last
\* is the answer to it when it was asked before; settled, the receipts that were
\* out when the lookup began.
Lookups == [pc : {"idle", "query"}, question : SUBSET Questions, outcome : Outcomes,
            answer : SUBSET ResourceRows, last : SUBSET ResourceRows,
            settled : SUBSET ResourceRows]

TypeOK ==
    /\ resources \subseteq ResourceRows
    /\ publish \in [Publishers -> PublishCalls]
    /\ find \in [Readers -> Lookups]
    /\ faults \in 0 .. MaxFaults

--------------------------------------------------------------------------------

ById(id) == {row \in resources : row.id = id}

\* Rows that agree but for their state.
SameVersion(left, right) == [left EXCEPT !.state = "PUBLISHED"] = [right EXCEPT !.state = "PUBLISHED"]

\* versionOrder descending, nulls last.
OrderPrecedes(left, right) ==
    \/ left.order # {} /\ right.order = {}
    \/ \E m \in left.order, n \in right.order : m > n

\* order_by of list_resources: then createdAt descending.
Precedes(left, right) ==
    \/ OrderPrecedes(left, right)
    \/ left.order = right.order /\ left.created > right.created

\* (a faulty variant: the profile is not part of the query)
MatchingBoth(question) ==
    {row \in resources : /\ FamilyOf[row.id] = question.subject
                         /\ question.state \in {AnyState, row.state}}

\* where of list_resources.
Matching(question) ==
    {row \in resources : /\ FamilyOf[row.id] = question.subject
                         /\ row.profile = question.profile
                         /\ question.state \in {AnyState, row.state}}

\* (a faulty variant: in ascending order)
PagesOldestFirst(rows, limit) ==
    {page \in SUBSET rows :
        /\ Cardinality(page) = IF Cardinality(rows) < limit THEN Cardinality(rows) ELSE limit
        /\ \A row \in page, other \in rows \ page : ~ Precedes(row, other)}

\* The pages a query may return: as many of the first rows as limit allows.
Pages(rows, limit) ==
    {page \in SUBSET rows :
        /\ Cardinality(page) = IF Cardinality(rows) < limit THEN Cardinality(rows) ELSE limit
        /\ \A row \in page, other \in rows \ page : ~ Precedes(other, row)}

--------------------------------------------------------------------------------
(* The versions of a name, as they come and go. *)

\* The candidate is stamped before its transaction.
BeginPublish(p) ==
    /\ publish[p].pc = "idle"
    /\ \E candidate \in ResourceRows :
           /\ candidate.state = "PUBLISHED"
           /\ publish' = [publish EXCEPT ![p] =
                  [pc |-> "commit", candidate |-> {candidate}, receipt |-> {}]]
    /\ UNCHANGED <<resources, find, faults>>

Receive(p, rows) ==
    publish' = [publish EXCEPT ![p] = [pc |-> "idle", candidate |-> {}, receipt |-> rows]]

\* (a faulty variant: a version that is found is stamped anew)
CommitRestamped(p) ==
    /\ publish[p].pc = "commit"
    /\ \E candidate \in publish[p].candidate :
           /\ resources' = (resources \ ById(candidate.id)) \union {candidate}
           /\ Receive(p, {candidate})
    /\ UNCHANGED <<find, faults>>

\* publish: a version that is there is kept, and is the receipt's when nothing but
\* its creation differs; otherwise the call ends with IdentityConflict.
Commit(p) ==
    /\ publish[p].pc = "commit"
    /\ \E candidate \in publish[p].candidate :
           IF ById(candidate.id) = {}
           THEN /\ resources' = resources \union {candidate}
                /\ Receive(p, {candidate})
           ELSE /\ Receive(p, {row \in ById(candidate.id) : /\ row.profile = candidate.profile
                                                            /\ row.order = candidate.order})
                /\ UNCHANGED resources
    /\ UNCHANGED <<find, faults>>

Deprecate(id) ==
    /\ \E row \in ById(id) :
           /\ row.state = "PUBLISHED"
           /\ resources' = (resources \ {row}) \union {[row EXCEPT !.state = "DEPRECATED"]}
    /\ UNCHANGED <<publish, find, faults>>

--------------------------------------------------------------------------------
(* The lookups of a consumer *)

Receipts == UNION {publish[p].receipt : p \in Publishers}

BeginFind(r) ==
    /\ find[r].pc = "idle"
    /\ \E question \in Questions :
           find' = [find EXCEPT ![r] =
               [pc |-> "query", question |-> {question}, outcome |-> "none", answer |-> {},
                last |-> IF find[r].question = {question} THEN find[r].answer ELSE {},
                settled |-> Receipts]]
    /\ UNCHANGED <<resources, publish, faults>>

Asks(r, mode, question) ==
    find[r].pc = "query" /\ question \in find[r].question /\ question.mode = mode

Answer(r, outcome, rows) ==
    /\ find' = [find EXCEPT ![r].pc = "idle", ![r].outcome = outcome, ![r].answer = rows]
    /\ UNCHANGED <<resources, publish, faults>>

\* (a faulty variant: the row that is found need not be of the consumer's profile)
AnswerAnyProfile(r, question, row) == Answer(r, "found", {row})

\* _require_artifact and _require_configuration, on the one row that was found.
AnswerRequired(r, question, row) ==
    IF row.profile = question.profile THEN Answer(r, "found", {row})
                                      ELSE Answer(r, "incompatible", {})

Exact(r, question) ==
    /\ Asks(r, "exact", question)
    /\ \/ ById(question.subject) = {} /\ Answer(r, "not_found", {})
       \/ \E row \in ById(question.subject) : AnswerRequired(r, question, row)

Latest(r, question) ==
    /\ Asks(r, "latest", question)
    /\ \E page \in Pages(Matching(question), question.limit) :
           \/ page = {} /\ Answer(r, "not_found", {})
           \/ \E row \in page : AnswerRequired(r, question, row)

List(r, question) ==
    /\ Asks(r, "list", question)
    /\ \E page \in Pages(Matching(question), question.limit) : Answer(r, "found", page)

\* The query fails, or its result is not of the V1 contract.
FindFails(r) ==
    /\ faults < MaxFaults /\ faults' = faults + 1
    /\ find[r].pc = "query"
    /\ find' = [find EXCEPT ![r].pc = "idle", ![r].outcome = "error"]
    /\ UNCHANGED <<resources, publish>>

\* The transaction fails, or commits and its answer is lost.
PublishFails(p) ==
    /\ faults < MaxFaults /\ faults' = faults + 1
    /\ publish[p].pc = "commit"
    /\ \/ UNCHANGED resources
       \/ \E candidate \in publish[p].candidate :
              /\ ById(candidate.id) = {}
              /\ resources' = resources \union {candidate}
    /\ Receive(p, {})
    /\ UNCHANGED find

--------------------------------------------------------------------------------

Init ==
    /\ resources = {}
    /\ publish = [p \in Publishers |-> [pc |-> "idle", candidate |-> {}, receipt |-> {}]]
    /\ find = [r \in Readers |->
           [pc |-> "idle", question |-> {}, outcome |-> "none", answer |-> {}, last |-> {},
            settled |-> {}]]
    /\ faults = 0

Next ==
    \/ \E p \in Publishers : BeginPublish(p) \/ Commit(p) \/ PublishFails(p)
    \/ \E id \in Resources : Deprecate(id)
    \/ \E r \in Readers :
           \/ BeginFind(r) \/ FindFails(r)
           \/ \E question \in find[r].question :
                  Exact(r, question) \/ Latest(r, question) \/ List(r, question)

Spec == Init /\ [][Next]_vars

--------------------------------------------------------------------------------
(* Safety. *)

Withdrawn(row) == \E now \in resources : SameVersion(now, row) /\ now.state = "DEPRECATED"

\* The lookup ended with what the table says.
Answered(r, question, modes) ==
    /\ find[r].pc = "idle" /\ find[r].question = {question} /\ question.mode \in modes
    /\ find[r].outcome \in {"found", "not_found", "incompatible"}

\* A reader that asks for the latest version again gets one that ranks no lower,
\* however late rows of lower rank appear and whatever the clocks say, unless the
\* version it had before was deprecated; and it never loses the version otherwise.
LatestNeverGoesBack ==
    \A r \in Readers : \A question \in find[r].question :
        Answered(r, question, {"latest"}) =>
            \A before \in find[r].last :
                \/ Withdrawn(before)
                \/ \E row \in find[r].answer : ~ Precedes(before, row)

\* A version whose receipt was out before the query was made is on the page, or
\* the page is full of versions that rank no lower, or its state is not asked for.
PagesSeeReceipts ==
    \A r \in Readers : \A question \in find[r].question :
        Answered(r, question, {"latest", "list"}) =>
            \A row \in find[r].settled :
                /\ FamilyOf[row.id] = question.subject /\ row.profile = question.profile
                /\ question.state \in {AnyState, row.state}
                /\ question.state = "PUBLISHED" => ~ Withdrawn(row)
                => \/ \E listed \in find[r].answer : SameVersion(listed, row)
                   \/ /\ Cardinality(find[r].answer) = question.limit
                      /\ \A listed \in find[r].answer : ~ Precedes(row, listed)

\* A consumer is handed versions as they are stored, of its own profile, in the
\* life they were published with; and the profile check after latest never fires,
\* though both profiles may use one name.
AnswersAreStored ==
    \A r \in Readers : \A question \in find[r].question :
        /\ \A row \in find[r].answer :
               /\ row.profile = question.profile
               /\ \E now \in resources : SameVersion(now, row)
        /\ find[r].outcome = "incompatible" => question.mode = "exact"

\* Rows and lookups are well typed, and agree.
Consistent == TypeOK /\ AnswersAreStored

\* What exact returned, it returns again: the same version but for a deprecation,
\* which is final.  The version of a receipt is found by exact in the same way.
ExactIsStable ==
    \A r \in Readers : \A question \in find[r].question :
        Answered(r, question, {"exact"}) =>
            \A before \in find[r].last \union
                             {row \in find[r].settled : row.id = question.subject} :
                before.profile = question.profile =>
                    \E row \in find[r].answer :
                        /\ SameVersion(row, before)
                        /\ before.state = "DEPRECATED" => row.state = "DEPRECATED"
================================================================================
