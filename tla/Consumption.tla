------------------------------ MODULE Consumption ------------------------------
(***************************************************************************)
(* Reading artifacts: stat, open, read and range_read of ArtifactConsumer, *)
(* and the registry of payloads that they share with publish.              *)
(*                                                                         *)
(* The Object Catalog answers a read with a registration in a process-     *)
(* local registry, and takes the bytes of a put from one.  Whoever made a  *)
(* registration releases it: the consumer those of the Object Adapter, the *)
(* publisher its own, and a caller the references it registered itself.    *)
(* Threads share the registry; Objects can go missing or rot between two   *)
(* steps.  Publication models the rest of publish.                         *)
(*                                                                         *)
(* A content is a sequence of blocks.  Its digest and length, compared     *)
(* together, tell contents apart, so they are compared as contents.        *)
(***************************************************************************)
EXTENDS Naturals, Sequences, FiniteSets

CONSTANTS
    Threads,
    Resources,
    Blocks,
    Contents,      \* what is published, and what an Object can rot to
    MaxCalls,      \* bound on the calls of one thread
    MaxFaults      \* bound on remote faults and on losses in a behaviour

ASSUME ContentsAssumption == Contents \subseteq Seq(Blocks) /\ Contents # {}
ASSUME BoundsAssumption == MaxCalls \in Nat /\ MaxFaults \in Nat
ASSUME ResourcesAssumption == Resources # {}

VARIABLES
    rows,          \* rows[id]: the content that the published row names, if any
    objects,       \* objects[id]: the Object under artifacts/<id>, if any
    registry,      \* the PayloadRegistry: tokens and the bytes behind them
    references,    \* tokens that callers registered themselves
    call,          \* call[t]: the call of thread t
    unread,        \* history: tokens in answers that could not be parsed
    faults         \* remote faults and losses so far

vars == <<rows, objects, registry, references, call, unread, faults>>

--------------------------------------------------------------------------------

\* The n-th call of a thread makes at most one registration.
Tokens == Threads \X (1 .. MaxCalls)

\* says is the ObjectMetadata of the Object: digest, length and media type.
Objects == [bytes : Contents, says : Contents]

\* Content that a reader has been handed, or has yet to read.
Parts == Seq(Blocks)

Reading == {"stat", "get", "range", "body", "slice"}
Publishing == {"lookup", "put", "commit"}

Outcomes == {"none", "done", "missing", "mismatch", "invalid", "error",
             "raised", "conflict"}

\* held and owned: the RegisteredPayload of a publish, the payload of a read.
\* got is what the caller has been handed, rest what the stream has left.
Calls == [pc : {"idle"} \union Reading \union Publishing,
          id : Resources, wanted : Contents, count : 0 .. MaxCalls,
          held : SUBSET Tokens, owned : BOOLEAN,
          first : Nat, last : Nat, rest : Parts, got : Parts, outcome : Outcomes]

TypeOK ==
    /\ rows \in [Resources -> SUBSET Contents]
    /\ objects \in [Resources -> SUBSET Objects]
    /\ registry \subseteq [token : Tokens, bytes : Parts]
    /\ references \subseteq Tokens
    /\ call \in [Threads -> Calls]
    /\ unread \subseteq Tokens
    /\ faults \in 0 .. MaxFaults

--------------------------------------------------------------------------------

At(t, step) == call[t].pc = step
Token(t) == <<t, call[t].count>>

\* (a faulty variant: a caller's own reference is released as well)
ReleasedAnyway(t) == {entry \in registry : entry.token \notin call[t].held}

\* The registry after the release of what the call made, or had made for it.
Released(t) ==
    {entry \in registry : ~ (call[t].owned /\ entry.token \in call[t].held)}

\* The call ends; the finally clauses release what it holds.
End(t, outcome) ==
    /\ registry' = Released(t)
    /\ call' = [call EXCEPT ![t].pc = "idle", ![t].outcome = outcome,
                            ![t].held = {}, ![t].rest = <<>>]

Enter(t, step, id, wanted, held, owned) ==
    /\ At(t, "idle") /\ call[t].count < MaxCalls
    /\ call' = [call EXCEPT ![t] =
           [pc |-> step, id |-> id, wanted |-> wanted, count |-> call[t].count + 1,
            held |-> held, owned |-> owned, first |-> 0, last |-> 0,
            rest |-> <<>>, got |-> <<>>, outcome |-> "none"]]

--------------------------------------------------------------------------------
(* Reads. *)

\* The caller has resolved a row, now or before; rows do not change.
Consume(t) ==
    /\ \E id \in Resources, step \in {"stat", "get", "range"} :
           \E content \in rows[id] : Enter(t, step, id, content, {}, TRUE)
    /\ UNCHANGED <<rows, objects, registry, references, unread, faults>>

Object(t) == objects[call[t].id]

\* No Object has the id and the digest of the reference: MissingObject.
NotThere(t) ==
    /\ \A object \in Object(t) : object.says # call[t].wanted
    /\ End(t, "missing")

Stat(t) ==
    /\ At(t, "stat")
    /\ \/ NotThere(t)
       \/ \E object \in Object(t) :
              End(t, IF object.says = call[t].wanted THEN "done" ELSE "mismatch")
    /\ UNCHANGED <<rows, objects, references, unread, faults>>

\* What the answer of a read has: a fresh token for some bytes of the Object.
Answer(t, bytes) == registry' = registry \union {[token |-> Token(t), bytes |-> bytes]}

\* (a faulty variant: the registration is forgotten when the metadata differ)
ReceiveUnreleased(t, object, bytes, step, first, last) ==
    IF object.says = call[t].wanted
    THEN /\ Answer(t, bytes)
         /\ call' = [call EXCEPT ![t].pc = step, ![t].held = {Token(t)},
                                 ![t].rest = bytes, ![t].first = first, ![t].last = last]
    ELSE /\ Answer(t, bytes)
         /\ call' = [call EXCEPT ![t].pc = "idle", ![t].outcome = "mismatch"]

\* The metadata in the answer are compared with the row.  If they differ, the
\* registration is released at once; otherwise its stream is opened.
Receive(t, object, bytes, step, first, last) ==
    \/ object.says # call[t].wanted /\ End(t, "mismatch")
    \/ /\ object.says = call[t].wanted
       /\ Answer(t, bytes)
       /\ call' = [call EXCEPT ![t].pc = step, ![t].held = {Token(t)},
                               ![t].rest = bytes, ![t].first = first, ![t].last = last]

Get(t) ==
    /\ At(t, "get")
    /\ \/ NotThere(t)
       \/ \E object \in Object(t) : Receive(t, object, object.bytes, "body", 0, 0)
    /\ UNCHANGED <<rows, objects, references, unread, faults>>

\* The body of the with statement reads some of the stream.
Read(t) ==
    /\ At(t, "body")
    /\ \E n \in 1 .. Len(call[t].rest) :
           call' = [call EXCEPT
               ![t].got = @ \o SubSeq(call[t].rest, 1, n),
               ![t].rest = SubSeq(@, n + 1, Len(@))]
    /\ UNCHANGED <<rows, objects, registry, references, unread, faults>>

\* (a faulty variant: only a stream that was read to its end is verified)
LeaveUnread(t) ==
    /\ At(t, "body")
    /\ IF call[t].rest = <<>> /\ call[t].got # call[t].wanted
       THEN End(t, "mismatch") ELSE End(t, "done")
    /\ UNCHANGED <<rows, objects, references, unread, faults>>

\* The body ends: verify reads the stream to its end and compares the digest of
\* everything, and the length, with the row's.
Leave(t) ==
    /\ At(t, "body")
    /\ End(t, IF call[t].got \o call[t].rest = call[t].wanted THEN "done" ELSE "mismatch")
    /\ UNCHANGED <<rows, objects, references, unread, faults>>

\* The body raises: nothing is verified.
BodyRaises(t) ==
    /\ At(t, "body")
    /\ End(t, "raised")
    /\ UNCHANGED <<rows, objects, references, unread, faults>>

Slice(bytes, first, last) ==
    SubSeq(bytes, first, IF last < Len(bytes) THEN last ELSE Len(bytes))

\* The range lies within the row's byte length; the Adapter cuts it at the end of
\* the bytes that are there.
GetRange(t) ==
    /\ At(t, "range")
    /\ \/ NotThere(t)
       \/ \E object \in Object(t), first, last \in 1 .. Len(call[t].wanted) :
              /\ first <= last
              /\ Receive(t, object, Slice(object.bytes, first, last), "slice", first, last)
    /\ UNCHANGED <<rows, objects, references, unread, faults>>

\* (a faulty variant: a short range is handed out)
ReadSliceUnchecked(t) ==
    /\ At(t, "slice")
    /\ registry' = Released(t)
    /\ call' = [call EXCEPT ![t].pc = "idle", ![t].outcome = "done", ![t].held = {},
                            ![t].got = call[t].rest, ![t].rest = <<>>]
    /\ UNCHANGED <<rows, objects, references, unread, faults>>

\* The whole range is read and its length compared, nothing else.
ReadSlice(t) ==
    /\ At(t, "slice")
    /\ \/ /\ Len(call[t].rest) + call[t].first # call[t].last + 1
          /\ End(t, "mismatch")
       \/ /\ Len(call[t].rest) + call[t].first = call[t].last + 1
          /\ registry' = Released(t)
          /\ call' = [call EXCEPT ![t].pc = "idle", ![t].outcome = "done", ![t].held = {},
                                  ![t].got = call[t].rest, ![t].rest = <<>>]
    /\ UNCHANGED <<rows, objects, references, unread, faults>>

--------------------------------------------------------------------------------
(* Payloads of publications. *)

\* A caller registers a payload of its own, to publish it once or more often.
RegisterReference(t) ==
    /\ At(t, "idle") /\ call[t].count < MaxCalls
    /\ \E bytes \in Contents :
           registry' = registry \union {[token |-> <<t, call[t].count + 1>>, bytes |-> bytes]}
    /\ references' = references \union {<<t, call[t].count + 1>>}
    /\ call' = [call EXCEPT ![t].count = @ + 1]
    /\ UNCHANGED <<rows, objects, unread, faults>>

\* It releases the payload when it no longer publishes it.
ReleaseReference(token) ==
    /\ \A t \in Threads : token \notin call[t].held
    /\ registry' = {entry \in registry : entry.token # token}
    /\ references' = references \ {token}
    /\ UNCHANGED <<rows, objects, call, unread, faults>>

\* register_payload of bytes, whose identity is computed, or of a stream or
\* source, whose identity is declared.
PublishBytes(t) ==
    /\ \E id \in Resources, bytes \in Contents, declared \in Contents :
           /\ Enter(t, "lookup", id, declared, {<<t, call[t].count + 1>>}, TRUE)
           /\ registry' = registry \union
                  {[token |-> <<t, call[t].count + 1>>, bytes |-> bytes]}
    /\ UNCHANGED <<rows, objects, references, unread, faults>>

\* register_payload of a caller's reference: it is used as it is.
PublishReference(t) ==
    /\ \E id \in Resources, token \in references, declared \in Contents :
           Enter(t, "lookup", id, declared, {token}, FALSE)
    /\ UNCHANGED <<rows, objects, registry, references, unread, faults>>

\* publish against the content that is there: the same is a success.
Meet(t, content) == End(t, IF content = call[t].wanted THEN "done" ELSE "conflict")

Lookup(t) ==
    /\ At(t, "lookup")
    /\ \/ \E content \in rows[call[t].id] : Meet(t, content)
       \/ /\ rows[call[t].id] = {}
          /\ call' = [call EXCEPT ![t].pc = "put"]
          /\ UNCHANGED registry
    /\ UNCHANGED <<rows, objects, references, unread, faults>>

Payload(t) == {entry \in registry : entry.token \in call[t].held}

\* (a faulty variant: the Object is stored under its declared identity)
PutUnverified(t) ==
    /\ At(t, "put")
    /\ \E entry \in Payload(t) :
           objects' = [objects EXCEPT ![call[t].id] =
                           {[bytes |-> entry.bytes, says |-> call[t].wanted]}]
    /\ call' = [call EXCEPT ![t].pc = "commit"]
    /\ UNCHANGED <<rows, registry, references, unread, faults>>

\* put reads the payload behind the token and stores it once, if it is what was
\* declared.  Under an Object that is there, stat says whether it is the same.
PutObject(t) ==
    /\ At(t, "put")
    /\ \/ /\ Object(t) = {}
          /\ \E entry \in Payload(t) :
                 /\ entry.bytes = call[t].wanted
                 /\ objects' = [objects EXCEPT ![call[t].id] =
                                    {[bytes |-> entry.bytes, says |-> entry.bytes]}]
          /\ call' = [call EXCEPT ![t].pc = "commit"]
          /\ UNCHANGED registry
       \/ /\ Object(t) = {}
          /\ \A entry \in Payload(t) : entry.bytes # call[t].wanted
          /\ End(t, "error")
          /\ UNCHANGED objects
       \/ /\ \E object \in Object(t) : object.says = call[t].wanted
          /\ call' = [call EXCEPT ![t].pc = "commit"]
          /\ UNCHANGED <<objects, registry>>
       \/ /\ \E object \in Object(t) : object.says # call[t].wanted
          /\ End(t, "conflict")
          /\ UNCHANGED objects
    /\ UNCHANGED <<rows, references, unread, faults>>

CommitRow(t) ==
    /\ At(t, "commit")
    /\ \/ /\ rows[call[t].id] = {}
          /\ rows' = [rows EXCEPT ![call[t].id] = {call[t].wanted}]
          /\ End(t, "done")
       \/ /\ \E content \in rows[call[t].id] : Meet(t, content)
          /\ UNCHANGED rows
    /\ UNCHANGED <<objects, references, unread, faults>>

--------------------------------------------------------------------------------
(* What can go wrong.  Each costs one of MaxFaults. *)

Fault == faults < MaxFaults /\ faults' = faults + 1

\* An Object is lost, or its bytes or metadata rot.
Rot(id) ==
    /\ Fault
    /\ objects[id] # {}
    /\ \E left \in {{}} \union {{object} : object \in Objects} :
           objects' = [objects EXCEPT ![id] = left]
    /\ UNCHANGED <<rows, registry, references, call, unread>>

\* A remote operation raises, or the stream does.
RemoteFailure(t) ==
    /\ Fault
    /\ ~ At(t, "idle")
    /\ End(t, "error")
    /\ UNCHANGED <<rows, objects, references, unread>>

\* The stream goes on with other bytes.
Garble(t) ==
    /\ Fault
    /\ call[t].pc \in {"body", "slice"}
    /\ \E content \in Contents : call' = [call EXCEPT ![t].rest = content]
    /\ UNCHANGED <<rows, objects, registry, references, unread>>

\* A read is answered with a registration and with something that _read refuses:
\* InvalidRepositoryResult, before anybody has the token to release it by.
Misanswered(t) ==
    /\ Fault
    /\ call[t].pc \in {"get", "range"}
    /\ \E bytes \in Contents : Answer(t, bytes)
    /\ unread' = unread \union {Token(t)}
    /\ call' = [call EXCEPT ![t].pc = "idle", ![t].outcome = "invalid"]
    /\ UNCHANGED <<rows, objects, references>>

--------------------------------------------------------------------------------

Init ==
    /\ rows = [id \in Resources |-> {}]
    /\ objects = [id \in Resources |-> {}]
    /\ registry = {} /\ references = {} /\ unread = {}
    /\ call = [t \in Threads |->
           [pc |-> "idle", id |-> CHOOSE id \in Resources : TRUE,
            wanted |-> CHOOSE content \in Contents : TRUE, count |-> 0,
            held |-> {}, owned |-> FALSE, first |-> 0, last |-> 0,
            rest |-> <<>>, got |-> <<>>, outcome |-> "none"]]
    /\ faults = 0

ReadStep(t) ==
    \/ Stat(t)  \/ Get(t)        \/ GetRange(t) \/ Read(t)
    \/ Leave(t) \/ BodyRaises(t) \/ ReadSlice(t)

PublishStep(t) == Lookup(t) \/ PutObject(t) \/ CommitRow(t)

Next ==
    \/ \E t \in Threads :
           \/ Consume(t) \/ PublishBytes(t) \/ PublishReference(t) \/ RegisterReference(t)
           \/ ReadStep(t) \/ PublishStep(t)
           \/ RemoteFailure(t) \/ Garble(t) \/ Misanswered(t)
    \/ \E token \in references : ReleaseReference(token)
    \/ \E id \in Resources : Rot(id)

Spec == Init /\ [][Next]_vars

--------------------------------------------------------------------------------
(* Safety. *)

Live == {entry.token : entry \in registry}
Owned == UNION {IF call[t].owned THEN call[t].held ELSE {} : t \in Threads}

\* "Consumer reads release Adapter-created registrations on every exit path", the
\* publisher its own, and nobody a caller's: the registry holds what callers
\* registered and what running calls hold, but for answers that nobody could read.
Accounted == Live = references \union Owned \union unread

\* A call that uses a payload finds it registered, whoever else comes and goes.
HeldIsLive == \A t \in Threads : call[t].held \subseteq Live

\* Calls, rows, Objects and registrations are well typed, and agree.
Consistent == TypeOK /\ HeldIsLive

IsPartOf(part, whole) == part = SubSeq(whole, 1, Len(part))

\* A body that ends without an exception was handed a part of the content that
\* the row names, from its start, whatever happened to the Object meanwhile.
ReadIsVerified ==
    \A t \in Threads :
        call[t].outcome = "done" /\ call[t].first = 0 => IsPartOf(call[t].got, call[t].wanted)

\* A range has the length that was asked for; without faults, it is the content's.
RangeIsWhole ==
    \A t \in Threads :
        LET c == call[t]
        IN  c.outcome = "done" /\ c.first > 0 =>
                /\ Len(c.got) = c.last + 1 - c.first
                /\ faults = 0 => c.got = SubSeq(c.wanted, c.first, c.last)

\* Whoever has a row can read the Object, and it is the one that was published.
FindsPublished ==
    /\ \A t \in Threads : call[t].outcome \in {"missing", "mismatch"} => faults >= 1
    /\ faults = 0 =>
           \A id \in Resources : \A content \in rows[id] :
               objects[id] = {[bytes |-> content, says |-> content]}

--------------------------------------------------------------------------------
(* What the documentation says. *)

\* docs/operations.md: "Consumer reads release Adapter-created registrations on
\* every exit path."  With no call running, only callers' references are left.
EveryExitReleases == (\A t \in Threads : At(t, "idle")) => Live = references
================================================================================
