------------------------------ MODULE Composition ------------------------------
(***************************************************************************)
(* Publication is the first half of a publish call of ResourceStore.       *)
(*                                                                         *)
(* ResourceStore commits a resource in one step and leaves open what       *)
(* becomes of the call otherwise; Publication has the Object, the rows of  *)
(* the transaction and the orphan records.  With nobody promoting yet,     *)
(* every behaviour of Publication is one of ResourceStore.                 *)
(***************************************************************************)
EXTENDS Publication

\* A row, without who created it and in which attempt.  Its digest stands for
\* everything else that is immutable.
Stored(row) == [id |-> row.id, profile |-> row.profile,
                digest |-> <<row.content, row.document>>, state |-> "PUBLISHED"]

\* What a caller asks for who names a channel as well.
Asked(req) == [id |-> req.id, profile |-> req.profile,
               digest |-> <<req.content, req.document>>,
               pairing |-> "both", name |-> "stable", expected |-> 0]

\* From the lookup to the commit, the call has not been seen in any table of the
\* store.  A receipt is the row to promote.
Progress(c) ==
    CASE c.pc \in {"lookup", "winner"}                -> c.pc
      [] c.pc \in {"put_object", "stat", "put_resource",
                   "put_provenance", "commit"}        -> "commit"
      [] c.pc = "idle" /\ c.outcome \in Succeeded     -> "settled"
      [] OTHER                                        -> "idle"

\* A call that is to record its orphan has failed; the record changes no answer.
Answered(c) ==
    IF c.pc = "record_orphan" \/ c.outcome \in Retryable THEN "failed"
    ELSE IF c.outcome \in {"identity_conflict", "rejected"} THEN c.outcome
    ELSE "none"

HalfOf(c) == [pc |-> Progress(c), req |-> Asked(c.req),
              held |-> {Stored(row) : row \in c.receipt}, outcome |-> Answered(c)]

StoredRows == {Stored(row) : row \in metadata}
HalfCalls == [p \in Publishers |-> HalfOf(call[p])]

\* The promotions and readers of channels, none of which has begun.
Snapshots == [form : {"snapshot"}, wanted : Profiles]
Channel == [id \in Resources |-> id]
NoPromotions == [p \in Publishers |->
    [pc |-> "idle", ask |-> CHOOSE ask \in Snapshots : TRUE,
     target |-> CHOOSE id \in Resources : TRUE, held |-> {},
     name |-> CHOOSE name \in {"stable"} : TRUE,
     expected |-> 0, observed |-> 0, outcome |-> "none"]]
NoReads == [r \in {} |->
    [pc |-> "idle", key |-> CHOOSE key \in Resources \X {"stable"} : TRUE,
     wanted |-> "ARTIFACT", pointer |-> {}, resource |-> {}, outcome |-> "none"]]

Halves == INSTANCE ResourceStore WITH
    Promoters <- Publishers, Readers <- {}, Families <- Resources, FamilyOf <- Channel,
    Names <- {"stable"}, Digests <- Contents \X Documents, Asks <- Snapshots,
    MaxVersion <- 1, MaxFaults <- 0, MaxLapses <- MaxFaults,
    resources <- StoredRows, pointers <- {}, call <- NoPromotions, read <- NoReads,
    faults <- 0, publish <- HalfCalls, lapses <- faults

\* What the second half of publish relies on is what the first half does: the
\* row is inserted whole or not at all, under a free identity; a call settles only
\* on a row with its own content; a conflict or a refused document is answered
\* where the store expects it; and no call fails without a fault.
PublicationIsStore == Halves!StoreSpec

\* The document of a configuration is validated on entry, that of an artifact
\* before its transaction.
Transaction == {"put_resource", "put_provenance", "commit", "winner", "record_orphan"}
PastValidation(c) ==
    \/ c.pc \in Transaction
    \/ c.req.profile = "CONFIGURATION" /\ (c.pc # "idle" \/ c.outcome \in Retryable)

\* No refused document reaches a transaction.
Validated == \A p \in Publishers :
    PastValidation(call[p]) => call[p].req.document \notin Rejected

\* No refused document is in the table.
OnlyAccepted == \A row \in metadata : row.document \notin Rejected
================================================================================
