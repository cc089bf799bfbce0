--------------------------- MODULE Consumption_proofs ---------------------------
(***************************************************************************)
(* Theorems about Consumption, for every set of threads, resources and     *)
(* contents, and for every bound on calls and faults.                      *)
(***************************************************************************)
EXTENDS Consumption, SequenceTheorems, TLAPS

--------------------------------------------------------------------------------
(* The invariant. *)

\* Who may release what: a call's own registration bears its own token, any other
\* that it uses is a caller's, and no token of a running call is anybody else's.
OwnTokens(t) ==
    LET c == call[t]
    IN  /\ c.owned => c.held \subseteq {Token(t)}
        /\ ~ c.owned => c.held \subseteq references
        /\ c.pc # "idle" => c.count > 0 /\ Token(t) \notin references \union unread
        /\ \A n \in 1 .. MaxCalls : <<t, n>> \in references \union unread => n <= c.count
        /\ c.pc \in {"stat", "get", "range"} => c.owned /\ c.held = {}
        /\ c.pc = "idle" => c.held = {}

TokensOK == /\ Accounted /\ references \intersect unread = {}
            /\ \A t \in Threads : OwnTokens(t)

\* What a call has been handed, and which range it asked for.
Handed(t) ==
    LET c == call[t]
    IN  /\ c.pc # "idle" => c.outcome = "none"
        /\ c.pc \notin {"idle", "body"} => c.got = <<>>
        /\ c.pc \notin {"idle", "slice"} => c.first = 0
        /\ c.pc = "slice" => c.first \in 1 .. c.last /\ c.last <= Len(c.wanted)
        /\ c.outcome = "done" /\ c.first = 0 => IsPartOf(c.got, c.wanted)
        /\ c.outcome = "done" /\ c.first > 0 => Len(c.got) = c.last + 1 - c.first

\* Without faults: rows have the Objects that they name, ...
Stored ==
    /\ \A id \in Resources : \A object \in objects[id] :
           object.says = object.bytes /\ objects[id] = {object}
    /\ \A id \in Resources : \A content \in rows[id] :
           objects[id] = {[bytes |-> content, says |-> content]}

\* ... and calls read what their rows name.
Faithful(t) ==
    LET c == call[t]
    IN  /\ c.outcome \notin {"missing", "mismatch"}
        /\ c.pc \in Reading => c.wanted \in rows[c.id]
        /\ c.pc = "commit" => objects[c.id] = {[bytes |-> c.wanted, says |-> c.wanted]}
        /\ c.pc = "body" => c.got \o c.rest = c.wanted
        /\ c.pc = "slice" => c.rest = SubSeq(c.wanted, c.first, c.last)
        /\ c.outcome = "done" /\ c.first > 0 => c.got = SubSeq(c.wanted, c.first, c.last)

EachHanded == \A t \in Threads : Handed(t)
EachFaithful == \A t \in Threads : Faithful(t)

IInv == /\ TypeOK /\ TokensOK /\ EachHanded
        /\ faults = 0 => Stored /\ EachFaithful

--------------------------------------------------------------------------------
(* Contents and parts of them. *)

\* A content is a sequence of blocks.
LEMMA ContentsAreParts == Contents \subseteq Parts
<1> QED
    BY ContentsAssumption DEF Parts

\* What is cut out of a part, or put together from two, is a part.
LEMMA PartsTyped ==
    ASSUME NEW part \in Parts, NEW other \in Parts, NEW n \in 1 .. Len(part)
    PROVE  /\ part \o other \in Parts
           /\ SubSeq(part, 1, n) \in Parts
           /\ SubSeq(part, n + 1, Len(part)) \in Parts
<1>1. SubSeq(part, 1, n) \in Seq(Blocks)
    BY SubSeqProperties DEF Parts
<1>2. SubSeq(part, n + 1, Len(part)) \in Seq(Blocks)
    BY SubSeqProperties DEF Parts
<1> QED
    BY <1>1, <1>2, ConcatProperties DEF Parts

\* A slice is a part.
LEMMA SliceTyped ==
    ASSUME NEW part \in Parts, NEW first \in Nat \ {0}, NEW last \in Nat, first <= last
    PROVE  Slice(part, first, last) \in Parts
<1> DEFINE end == IF last < Len(part) THEN last ELSE Len(part)
<1>1. end \in Int /\ first \in Int /\ \A i \in first .. end : part[i] \in Blocks
    BY DEF Parts
<1> HIDE DEF end
<1>2. SubSeq(part, first, end) \in Seq(Blocks)
    BY <1>1, SubSeqProperties
<1> QED
    BY <1>2 DEF Parts, Slice, end

\* A slice within the bounds is the whole of what was asked for.
LEMMA SliceWhole ==
    ASSUME NEW part \in Parts, NEW first, NEW last \in 1 .. Len(part)
    PROVE  Slice(part, first, last) = SubSeq(part, first, last)
<1>1. (IF last < Len(part) THEN last ELSE Len(part)) = last
    BY DEF Parts
<1> QED
    BY <1>1 DEF Slice

\* What comes before the rest of a content is the start of it.
LEMMA FrontIsPart ==
    ASSUME NEW part \in Parts, NEW rest \in Parts
    PROVE  IsPartOf(part, part \o rest)
<1>1. Len(part) \in Nat
    BY DEF Parts
<1>2. /\ Len(part \o rest) >= Len(part)
      /\ \A i \in 1 .. Len(part) : (part \o rest)[i] = part[i]
    BY <1>1, ConcatProperties DEF Parts
<1>3. SubSeq(part \o rest, 1, Len(part)) = SubSeq(part, 1, Len(part))
    BY <1>1, SubSeqOfConcat1 DEF Parts
<1> QED
    BY <1>3, SubSeqFull DEF IsPartOf, Parts

\* Nothing is a part of everything.
LEMMA NothingIsPart ==
    ASSUME NEW whole \in Parts
    PROVE  IsPartOf(<<>>, whole)
<1> QED
    BY SubSeqEmpty DEF IsPartOf, Parts

\* Parts are put together in any order.
LEMMA PartsAssociate ==
    ASSUME NEW part, NEW middle, NEW end,
           part \in Parts, middle \in Parts, end \in Parts
    PROVE  (part \o middle) \o end = part \o (middle \o end)
<1>1. part \in Seq(Blocks) /\ middle \in Seq(Blocks) /\ end \in Seq(Blocks)
    BY DEF Parts
<1> QED
    BY <1>1, ConcatAssociative

\* Reading some of what is left moves it to what was handed out.
LEMMA ReadMoves ==
    ASSUME NEW got \in Parts, NEW rest \in Parts, NEW n \in 1 .. Len(rest)
    PROVE  (got \o SubSeq(rest, 1, n)) \o SubSeq(rest, n + 1, Len(rest)) = got \o rest
<1>0. /\ rest \in Seq(Blocks) /\ Len(rest) \in Nat
      /\ 1 \in 1 .. Len(rest) + 1 /\ n \in 1 - 1 .. Len(rest) /\ Len(rest) \in n .. Len(rest)
    BY DEF Parts
<1>1. SubSeq(rest, 1, n) \o SubSeq(rest, n + 1, Len(rest)) = SubSeq(rest, 1, Len(rest))
    BY <1>0, ConcatAdjacentSubSeq
<1>3. SubSeq(rest, 1, Len(rest)) = rest
    BY <1>0, SubSeqFull
<1>2. SubSeq(rest, 1, n) \in Seq(Blocks) /\ SubSeq(rest, n + 1, Len(rest)) \in Seq(Blocks)
    BY PartsTyped DEF Parts
<1> DEFINE front == SubSeq(rest, 1, n)
           back == SubSeq(rest, n + 1, Len(rest))
<1>4. front \in Parts /\ back \in Parts /\ got \in Parts
    BY <1>2 DEF Parts
<1>5. front \o back = rest
    BY <1>1, <1>3
<1> HIDE DEF front, back
<1>6. (got \o front) \o back = got \o (front \o back)
    BY <1>4, PartsAssociate
<1> QED
    BY <1>5, <1>6, Zenon DEF front, back

--------------------------------------------------------------------------------
(* Types. *)

\* What a call record becomes keeps its type.
LEMMA EndTyped ==
    ASSUME TypeOK, NEW t \in Threads, NEW outcome \in Outcomes, End(t, outcome)
    PROVE  registry' \subseteq [token : Tokens, bytes : Parts] /\ call' \in [Threads -> Calls]
<1>1. <<>> \in Parts
    BY DEF Parts
<1>2. registry' \subseteq registry
    BY DEF End, Released
<1>3. call[t] \in Calls
    BY DEF TypeOK
<1>4. [call[t] EXCEPT !.pc = "idle", !.outcome = outcome, !.held = {}, !.rest = <<>>] \in Calls
    BY <1>1, <1>3 DEF Calls
<1>5. call' = [call EXCEPT ![t] = [call[t] EXCEPT !.pc = "idle", !.outcome = outcome,
                                                  !.held = {}, !.rest = <<>>]]
    BY DEF TypeOK, End
<1> QED
    BY <1>2, <1>4, <1>5 DEF TypeOK

\* A call begins with a call record.
LEMMA EnterTyped ==
    ASSUME TypeOK, NEW t \in Threads, NEW step \in Reading \union Publishing,
           NEW id \in Resources, NEW wanted \in Contents, NEW held \in SUBSET Tokens,
           NEW owned \in BOOLEAN, Enter(t, step, id, wanted, held, owned)
    PROVE  call' \in [Threads -> Calls]
<1>1. <<>> \in Parts
    BY DEF Parts
<1>2. call[t].count + 1 \in 0 .. MaxCalls
    BY BoundsAssumption DEF TypeOK, Enter, Calls
<1> QED
    BY <1>1, <1>2 DEF TypeOK, Enter, Calls, Outcomes

\* The token of a running call, and the next one of a thread, are tokens.
LEMMA TokensTyped ==
    ASSUME TypeOK, NEW t \in Threads
    PROVE  /\ call[t].count < MaxCalls => <<t, call[t].count + 1>> \in Tokens
           /\ call[t].count > 0 => Token(t) \in Tokens
<1> QED
    BY BoundsAssumption DEF TypeOK, Calls, Tokens, Token

\* An answer is registered under a token, or refused.
LEMMA ReceiveTyped ==
    ASSUME TypeOK, NEW t \in Threads, call[t].count > 0, NEW object \in Objects,
           NEW bytes \in Parts, NEW step \in Reading, NEW first \in Nat, NEW last \in Nat,
           Receive(t, object, bytes, step, first, last)
    PROVE  registry' \subseteq [token : Tokens, bytes : Parts] /\ call' \in [Threads -> Calls]
<1>1. CASE object.says # call[t].wanted
    BY <1>1, EndTyped DEF Receive, Outcomes
<1>2. CASE object.says = call[t].wanted
    BY <1>2, TokensTyped DEF Receive, Answer, TypeOK, Calls
<1> QED
    BY <1>1, <1>2


\* Every step keeps the types.
LEMMA TypeNext ==
    ASSUME TypeOK, \A t \in Threads : OwnTokens(t), [Next]_vars
    PROVE  TypeOK'
<1> DEFINE RegistryTyped == registry' \subseteq [token : Tokens, bytes : Parts]
           CallTyped == call' \in [Threads -> Calls]
<1>0. CASE UNCHANGED vars
    BY <1>0 DEF TypeOK, vars
<1>f. faults' = faults \/ Fault => faults' \in 0 .. MaxFaults
    BY BoundsAssumption DEF TypeOK, Fault
<1>n. <<>> \in Parts
    BY DEF Parts
<1>1. ASSUME NEW t \in Threads, Consume(t) PROVE TypeOK'
  <2>1. PICK id \in Resources, step \in {"stat", "get", "range"} :
            \E content \in rows[id] : Enter(t, step, id, content, {}, TRUE)
    BY <1>1 DEF Consume
  <2>2. PICK content \in rows[id] : Enter(t, step, id, content, {}, TRUE)
    BY <2>1
  <2>3. content \in Contents /\ step \in Reading
    BY <2>2 DEF TypeOK, Reading
  <2>4. CallTyped
    BY <2>2, <2>3, EnterTyped
  <2> QED
    BY <1>1, <2>4 DEF Consume, TypeOK
<1>2. ASSUME NEW t \in Threads, PublishBytes(t) PROVE TypeOK'
  <2> DEFINE token == <<t, call[t].count + 1>>
  <2>1. PICK id \in Resources, bytes \in Contents, declared \in Contents :
            /\ Enter(t, "lookup", id, declared, {token}, TRUE)
            /\ registry' = registry \union {[token |-> token, bytes |-> bytes]}
    BY <1>2 DEF PublishBytes
  <2>2. token \in Tokens
    BY <2>1, TokensTyped DEF Enter
  <2>3. CallTyped
    BY <2>1, <2>2, EnterTyped DEF Publishing
  <2> QED
    BY <1>2, <2>1, <2>2, <2>3, ContentsAreParts DEF PublishBytes, TypeOK
<1>3. ASSUME NEW t \in Threads, PublishReference(t) PROVE TypeOK'
  <2>1. PICK id \in Resources, token \in references, declared \in Contents :
            Enter(t, "lookup", id, declared, {token}, FALSE)
    BY <1>3 DEF PublishReference
  <2>2. token \in Tokens
    BY DEF TypeOK
  <2>3. CallTyped
    BY <2>1, <2>2, EnterTyped DEF Publishing
  <2> QED
    BY <1>3, <2>3 DEF PublishReference, TypeOK
<1>4. ASSUME NEW t \in Threads, RegisterReference(t) PROVE TypeOK'
  <2>1. <<t, call[t].count + 1>> \in Tokens
    BY <1>4, TokensTyped DEF RegisterReference
  <2>2. call[t].count + 1 \in 0 .. MaxCalls
    BY <1>4, BoundsAssumption DEF RegisterReference, TypeOK, Calls
  <2>3. CallTyped
    BY <1>4, <2>2 DEF RegisterReference, TypeOK, Calls
  <2> QED
    BY <1>4, <2>1, <2>3, ContentsAreParts DEF RegisterReference, TypeOK
<1>5. ASSUME NEW token \in references, ReleaseReference(token) PROVE TypeOK'
    BY <1>5 DEF ReleaseReference, TypeOK
<1>6. ASSUME NEW id \in Resources, Rot(id) PROVE TypeOK'
  <2>1. faults' \in 0 .. MaxFaults
    BY <1>6, <1>f DEF Rot
  <2>2. objects' \in [Resources -> SUBSET Objects]
    BY <1>6 DEF Rot, TypeOK
  <2> QED
    BY <1>6, <2>1, <2>2 DEF Rot, TypeOK
<1>7. ASSUME NEW t \in Threads, NEW outcome \in Outcomes, End(t, outcome)
      PROVE  RegistryTyped /\ CallTyped
    BY <1>7, EndTyped
<1>8. ASSUME NEW t \in Threads, NotThere(t) PROVE RegistryTyped /\ CallTyped
    BY <1>7, <1>8 DEF NotThere, Outcomes
<1>9. ASSUME NEW t \in Threads, Stat(t) PROVE TypeOK'
    BY <1>7, <1>8, <1>9 DEF Stat, Outcomes, TypeOK
<1>10. ASSUME NEW t \in Threads, NEW object \in Object(t)
       PROVE  object \in Objects /\ object.bytes \in Parts
    BY ContentsAreParts DEF Object, TypeOK, Objects, Calls
<1>11. ASSUME NEW t \in Threads, Get(t) PROVE TypeOK'
  <2>1. CASE NotThere(t)
    BY <1>8, <1>11, <2>1 DEF Get, TypeOK
  <2>2. CASE \E object \in Object(t) : Receive(t, object, object.bytes, "body", 0, 0)
    <3>1. PICK object \in Object(t) : Receive(t, object, object.bytes, "body", 0, 0)
      BY <2>2
    <3>2. call[t].count > 0
      BY <1>11 DEF OwnTokens, Get, At
    <3>3. RegistryTyped /\ CallTyped
      BY <1>10, <3>1, <3>2, ReceiveTyped DEF Reading
    <3> QED
      BY <1>11, <3>3 DEF Get, TypeOK
  <2> QED
    BY <1>11, <2>1, <2>2 DEF Get
<1>12. ASSUME NEW t \in Threads, GetRange(t) PROVE TypeOK'
  <2>1. CASE NotThere(t)
    BY <1>8, <1>12, <2>1 DEF GetRange, TypeOK
  <2>2. ASSUME NEW object \in Object(t), NEW first \in 1 .. Len(call[t].wanted),
               NEW last \in 1 .. Len(call[t].wanted), first <= last,
               Receive(t, object, Slice(object.bytes, first, last), "slice", first, last)
        PROVE  TypeOK'
    <3>1. Len(call[t].wanted) \in Nat
      BY ContentsAreParts DEF TypeOK, Calls, Parts
    <3>2. first \in Nat \ {0} /\ last \in Nat
      BY <3>1
    <3>3. Slice(object.bytes, first, last) \in Parts
      BY <1>10, <2>2, <3>2, SliceTyped
    <3>4. call[t].count > 0
      BY <1>12 DEF OwnTokens, GetRange, At
    <3>5. RegistryTyped /\ CallTyped
      BY <1>10, <2>2, <3>2, <3>3, <3>4, ReceiveTyped DEF Reading
    <3> QED
      BY <1>12, <3>5 DEF GetRange, TypeOK
  <2> QED
    BY <1>12, <2>1, <2>2 DEF GetRange
<1>13. ASSUME NEW t \in Threads, Read(t) PROVE TypeOK'
  <2>1. PICK n \in 1 .. Len(call[t].rest) :
            call' = [call EXCEPT ![t].got = @ \o SubSeq(call[t].rest, 1, n),
                                 ![t].rest = SubSeq(@, n + 1, Len(@))]
    BY <1>13 DEF Read
  <2>2. call[t].got \in Parts /\ call[t].rest \in Parts
    BY DEF TypeOK, Calls
  <2>3. SubSeq(call[t].rest, 1, n) \in Parts /\ SubSeq(call[t].rest, n + 1, Len(call[t].rest)) \in Parts
    BY <2>2, PartsTyped
  <2>4. call[t].got \o SubSeq(call[t].rest, 1, n) \in Parts
    BY <2>2, <2>3, ConcatProperties DEF Parts
  <2>5. CallTyped
    BY <2>1, <2>3, <2>4 DEF TypeOK, Calls
  <2> QED
    BY <1>13, <2>5 DEF Read, TypeOK
<1>14. ASSUME NEW t \in Threads, Leave(t) \/ BodyRaises(t) PROVE TypeOK'
    BY <1>7, <1>14 DEF Leave, BodyRaises, Outcomes, TypeOK
<1>15. ASSUME NEW t \in Threads, ReadSlice(t) PROVE TypeOK'
  <2>1. CASE End(t, "mismatch")
    BY <1>7, <1>15, <2>1 DEF ReadSlice, Outcomes, TypeOK
  <2>2. CASE /\ registry' = Released(t)
             /\ call' = [call EXCEPT ![t].pc = "idle", ![t].outcome = "done", ![t].held = {},
                                     ![t].got = call[t].rest, ![t].rest = <<>>]
    <3>1. RegistryTyped
      BY <2>2 DEF Released, TypeOK
    <3>2. call[t] \in Calls
      BY DEF TypeOK
    <3>3. CallTyped
      BY <1>n, <2>2, <3>2 DEF TypeOK, Calls, Outcomes
    <3> QED
      BY <1>15, <3>1, <3>3 DEF ReadSlice, TypeOK
  <2> QED
    BY <1>15, <2>1, <2>2 DEF ReadSlice
<1>16. ASSUME NEW t \in Threads, NEW content, Meet(t, content)
       PROVE  RegistryTyped /\ CallTyped
    BY <1>7, <1>16 DEF Meet, Outcomes
<1>17. ASSUME NEW t \in Threads, Lookup(t) PROVE TypeOK'
  <2>1. CASE \E content \in rows[call[t].id] : Meet(t, content)
    BY <1>16, <1>17, <2>1 DEF Lookup, TypeOK
  <2>2. CASE call' = [call EXCEPT ![t].pc = "put"] /\ UNCHANGED registry
    BY <1>17, <2>2 DEF Lookup, TypeOK, Calls, Publishing
  <2> QED
    BY <1>17, <2>1, <2>2 DEF Lookup
<1>18. ASSUME NEW t \in Threads, PutObject(t) PROVE TypeOK'
  <2>1. call' = [call EXCEPT ![t].pc = "commit"] => CallTyped
    BY DEF TypeOK, Calls, Publishing
  <2>2. CASE /\ call' = [call EXCEPT ![t].pc = "commit"] /\ UNCHANGED registry
             /\ \E entry \in Payload(t) :
                    /\ entry.bytes = call[t].wanted
                    /\ objects' = [objects EXCEPT ![call[t].id] =
                                       {[bytes |-> entry.bytes, says |-> entry.bytes]}]
    <3>1. objects' \in [Resources -> SUBSET Objects]
      BY <2>2 DEF TypeOK, Calls, Objects
    <3> QED
      BY <1>18, <2>1, <2>2, <3>1 DEF PutObject, TypeOK
  <2>3. CASE End(t, "error") /\ UNCHANGED objects
    BY <1>7, <1>18, <2>3 DEF PutObject, Outcomes, TypeOK
  <2>4. CASE call' = [call EXCEPT ![t].pc = "commit"] /\ UNCHANGED <<objects, registry>>
    BY <1>18, <2>1, <2>4 DEF PutObject, TypeOK
  <2>5. CASE End(t, "conflict") /\ UNCHANGED objects
    BY <1>7, <1>18, <2>5 DEF PutObject, Outcomes, TypeOK
  <2> QED
    BY <1>18, <2>2, <2>3, <2>4, <2>5 DEF PutObject
<1>19. ASSUME NEW t \in Threads, CommitRow(t) PROVE TypeOK'
  <2>1. CASE rows' = [rows EXCEPT ![call[t].id] = {call[t].wanted}] /\ End(t, "done")
    <3>1. rows' \in [Resources -> SUBSET Contents]
      BY <2>1 DEF TypeOK, Calls
    <3> QED
      BY <1>7, <1>19, <2>1, <3>1 DEF CommitRow, Outcomes, TypeOK
  <2>2. CASE (\E content \in rows[call[t].id] : Meet(t, content)) /\ UNCHANGED rows
    BY <1>16, <1>19, <2>2 DEF CommitRow, TypeOK
  <2> QED
    BY <1>19, <2>1, <2>2 DEF CommitRow
<1>20. ASSUME NEW t \in Threads, RemoteFailure(t) PROVE TypeOK'
    BY <1>7, <1>20, <1>f DEF RemoteFailure, Outcomes, TypeOK
<1>21. ASSUME NEW t \in Threads, Garble(t) PROVE TypeOK'
  <2>1. CallTyped
    BY <1>21, ContentsAreParts DEF Garble, TypeOK, Calls
  <2> QED
    BY <1>21, <1>f, <2>1 DEF Garble, TypeOK
<1>22. ASSUME NEW t \in Threads, Misanswered(t) PROVE TypeOK'
  <2>1. call[t].count > 0
    BY <1>22 DEF OwnTokens, Misanswered
  <2>2. Token(t) \in Tokens
    BY <2>1, TokensTyped
  <2>3. RegistryTyped
    <3>1. PICK bytes \in Contents : Answer(t, bytes)
      BY <1>22 DEF Misanswered
    <3> QED
      BY <2>2, <3>1, ContentsAreParts DEF Answer, TypeOK
  <2>4. CallTyped
    <3>1. call' = [call EXCEPT ![t].pc = "idle", ![t].outcome = "invalid"]
      BY <1>22 DEF Misanswered
    <3>2. call[t] \in Calls
      BY DEF TypeOK
    <3>3. [call[t] EXCEPT !.pc = "idle", !.outcome = "invalid"] \in Calls
      BY <3>2 DEF Calls, Outcomes
    <3>4. call' = [call EXCEPT ![t] = [call[t] EXCEPT !.pc = "idle", !.outcome = "invalid"]]
      BY <3>1 DEF TypeOK
    <3> QED
      BY <3>3, <3>4 DEF TypeOK
  <2> QED
    BY <1>22, <1>f, <2>2, <2>3, <2>4 DEF Misanswered, TypeOK
<1> QED
    BY <1>0, <1>1, <1>2, <1>3, <1>4, <1>5, <1>6, <1>9, <1>11, <1>12, <1>13, <1>14, <1>15,
       <1>17, <1>18, <1>19, <1>20, <1>21, <1>22 DEF Next, ReadStep, PublishStep

--------------------------------------------------------------------------------
(* Registrations. *)

\* The same as Accounted, token by token.
EachAccounted ==
    \A token : (\E entry \in registry : entry.token = token) <=>
                   \/ token \in references
                   \/ token \in unread
                   \/ \E t \in Threads : call[t].owned /\ token \in call[t].held

\* Before and after a step.
LEMMA AccountedEach == (Accounted <=> EachAccounted) /\ (Accounted' <=> EachAccounted')
<1>1. \A token : token \in Live <=> \E entry \in registry : entry.token = token
    BY DEF Live
<1>2. \A token : token \in Owned <=> \E t \in Threads : call[t].owned /\ token \in call[t].held
    BY DEF Owned
<1>3. \A token : token \in Live' <=> \E entry \in registry' : entry.token = token
    BY DEF Live
<1>4. \A token : token \in Owned' <=> \E t \in Threads : call'[t].owned /\ token \in call'[t].held
    BY DEF Owned
<1>5. Accounted <=> EachAccounted
    BY <1>1, <1>2 DEF Accounted, EachAccounted
<1>6. Accounted' <=> EachAccounted'
    BY <1>3, <1>4 DEF Accounted, EachAccounted
<1> QED
    BY <1>5, <1>6

\* What a thread does leaves the others' calls alone.
OnlyOf(t) == \A other \in Threads \ {t} : call'[other] = call[other]

\* A call that goes on with what it holds.
LEMMA GoesOn ==
    ASSUME TokensOK, NEW t \in Threads, OnlyOf(t), UNCHANGED <<registry, references, unread>>,
           call'[t].count = call[t].count, call'[t].owned = call[t].owned,
           call'[t].held = call[t].held, call[t].pc # "idle",
           call'[t].pc \notin {"idle", "stat", "get", "range"}
    PROVE  TokensOK'
<1>1. EachAccounted'
    BY AccountedEach DEF TokensOK, EachAccounted, OnlyOf
<1>2. ASSUME NEW other \in Threads PROVE OwnTokens(other)'
    BY <1>2 DEF TokensOK, OwnTokens, OnlyOf, Token
<1> QED
    BY <1>1, <1>2, AccountedEach DEF TokensOK

\* A call that ends releases what it owns and nothing else.
LEMMA EndReleases ==
    ASSUME TokensOK, NEW t \in Threads, OnlyOf(t), UNCHANGED <<references, unread>>,
           registry' = Released(t), call'[t].count = call[t].count,
           call'[t].held = {}, call[t].pc # "idle", call'[t].pc = "idle"
    PROVE  TokensOK'
<1>1. \A token : (\E entry \in registry' : entry.token = token) <=>
          (\E entry \in registry : entry.token = token) /\ ~ (call[t].owned /\ token \in call[t].held)
    BY DEF Released
<1>2. \A token : call[t].owned /\ token \in call[t].held =>
          token = Token(t) /\ token \notin references \union unread
    BY DEF TokensOK, OwnTokens
<1>3. \A other \in Threads \ {t} : \A token :
          call[other].owned /\ token \in call[other].held => token # Token(t)
  <2> SUFFICES ASSUME NEW other \in Threads \ {t}, call[other].owned
               PROVE  Token(t) \notin call[other].held
    OBVIOUS
  <2>1. Token(other) # Token(t)
    BY DEF Token
  <2> QED
    BY <2>1 DEF TokensOK, OwnTokens
<1>4. EachAccounted'
    BY <1>1, <1>2, <1>3, AccountedEach DEF TokensOK, EachAccounted, OnlyOf
<1>5. ASSUME NEW other \in Threads PROVE OwnTokens(other)'
    BY <1>5 DEF TokensOK, OwnTokens, OnlyOf, Token
<1> QED
    BY <1>4, <1>5, AccountedEach DEF TokensOK

\* A read that is answered holds the registration of the answer.
LEMMA ReceiveHolds ==
    ASSUME TokensOK, NEW t \in Threads, OnlyOf(t), UNCHANGED <<references, unread>>,
           NEW bytes, Answer(t, bytes),
           call'[t].count = call[t].count, call'[t].owned = call[t].owned,
           call'[t].held = {Token(t)}, call[t].pc \in {"get", "range"},
           call'[t].pc \in {"body", "slice"}
    PROVE  TokensOK'
<1>1. \A token : (\E entry \in registry' : entry.token = token) <=>
          (\E entry \in registry : entry.token = token) \/ token = Token(t)
  <2> DEFINE new == [token |-> Token(t), bytes |-> bytes]
  <2>1. registry' = registry \union {new} /\ new.token = Token(t)
    BY DEF Answer
  <2> HIDE DEF new
  <2> QED
    BY <2>1
<1>2. call[t].owned /\ call[t].held = {}
    BY DEF TokensOK, OwnTokens
<1>3. EachAccounted'
    BY <1>1, <1>2, AccountedEach DEF TokensOK, EachAccounted, OnlyOf
<1>4. ASSUME NEW other \in Threads PROVE OwnTokens(other)'
    BY <1>2, <1>4 DEF TokensOK, OwnTokens, OnlyOf, Token
<1> QED
    BY <1>3, <1>4, AccountedEach DEF TokensOK

\* A call begins with nothing, with a registration of its own, or with a caller's.
LEMMA EnterHolds ==
    ASSUME TypeOK, TokensOK, NEW t \in Threads, NEW step, NEW id, NEW wanted, NEW held,
           NEW owned \in BOOLEAN, step # "idle", UNCHANGED <<references, unread>>,
           Enter(t, step, id, wanted, held, owned),
           \/ held = {} /\ owned /\ UNCHANGED registry
           \/ /\ held = {<<t, call[t].count + 1>>} /\ owned /\ step = "lookup"
              /\ \E bytes : registry' = registry \union
                                {[token |-> <<t, call[t].count + 1>>, bytes |-> bytes]}
           \/ held \subseteq references /\ ~ owned /\ step = "lookup" /\ UNCHANGED registry
    PROVE  TokensOK'
<1>1. /\ call[t].pc = "idle" /\ call[t].held = {} /\ call[t].count \in Nat
      /\ call[t].count + 1 \in 1 .. MaxCalls
    BY BoundsAssumption DEF Enter, At, TokensOK, OwnTokens, TypeOK, Calls
<1>2. /\ OnlyOf(t) /\ call'[t].pc = step /\ call'[t].count = call[t].count + 1
      /\ call'[t].held = held /\ call'[t].owned = owned
    BY DEF Enter, OnlyOf, TypeOK
<1>3. <<t, call[t].count + 1>> \notin references \union unread
    BY <1>1 DEF TokensOK, OwnTokens
<1>4. EachAccounted'
  <2>1. CASE UNCHANGED registry /\ (held = {} \/ ~ owned)
    BY <1>1, <1>2, <2>1, AccountedEach DEF TokensOK, EachAccounted, OnlyOf
  <2>2. CASE /\ held = {<<t, call[t].count + 1>>} /\ owned
             /\ \E bytes : registry' = registry \union
                               {[token |-> <<t, call[t].count + 1>>, bytes |-> bytes]}
    <3>1. \A token : (\E entry \in registry' : entry.token = token) <=>
              (\E entry \in registry : entry.token = token) \/ token \in held
      <4>1. PICK bytes : registry' = registry \union
                             {[token |-> <<t, call[t].count + 1>>, bytes |-> bytes]}
        BY <2>2
      <4> DEFINE new == [token |-> <<t, call[t].count + 1>>, bytes |-> bytes]
      <4>2. registry' = registry \union {new} /\ held = {new.token}
        BY <2>2, <4>1
      <4> HIDE DEF new
      <4> QED
        BY <4>2
    <3>2. \A token : token \in held <=> call'[t].owned /\ token \in call'[t].held
      BY <1>2, <2>2
    <3>3. \A token : (\E other \in Threads : call'[other].owned /\ token \in call'[other].held) <=>
              token \in held \/ \E other \in Threads : call[other].owned /\ token \in call[other].held
      BY <1>1, <1>2, <3>2 DEF OnlyOf
    <3> QED
      BY <3>1, <3>3, AccountedEach DEF TokensOK, EachAccounted
  <2> QED
    BY <2>1, <2>2
<1>5. ASSUME NEW other \in Threads PROVE OwnTokens(other)'
  <2>1. CASE other # t
    BY <1>2, <2>1 DEF TokensOK, OwnTokens, OnlyOf, Token
  <2>2. Token(t)' = <<t, call[t].count + 1>>
    BY <1>2 DEF Token
  <2>3. \A n \in 1 .. MaxCalls : <<t, n>> \in references \union unread => n <= call[t].count
    BY DEF TokensOK, OwnTokens
  <2> QED
    BY <1>1, <1>2, <1>3, <2>1, <2>2, <2>3 DEF OwnTokens
<1> QED
    BY <1>4, <1>5, AccountedEach DEF TokensOK


\* The end of a call is such an end.
LEMMA EndTokens ==
    ASSUME TypeOK, TokensOK, NEW t \in Threads, NEW outcome, End(t, outcome), ~ At(t, "idle"),
           UNCHANGED <<references, unread>>
    PROVE  TokensOK'
<1>1. /\ OnlyOf(t) /\ call'[t].count = call[t].count
      /\ call'[t].held = {} /\ call'[t].pc = "idle"
    BY DEF End, OnlyOf, TypeOK, Calls
<1> QED
    BY <1>1, EndReleases DEF End, At

\* So is the answer of a read, which is refused or held.
LEMMA ReceiveTokens ==
    ASSUME TypeOK, TokensOK, NEW t \in Threads, At(t, "get") \/ At(t, "range"),
           NEW object, NEW bytes, NEW step \in {"body", "slice"}, NEW first, NEW last,
           Receive(t, object, bytes, step, first, last), UNCHANGED <<references, unread>>
    PROVE  TokensOK'
<1>1. CASE End(t, "mismatch")
    BY <1>1, EndTokens DEF At
<1>2. CASE /\ Answer(t, bytes)
           /\ call' = [call EXCEPT ![t].pc = step, ![t].held = {Token(t)},
                                   ![t].rest = bytes, ![t].first = first, ![t].last = last]
  <2>1. /\ OnlyOf(t) /\ call'[t].count = call[t].count /\ call'[t].owned = call[t].owned
        /\ call'[t].held = {Token(t)} /\ call'[t].pc = step
    BY <1>2 DEF OnlyOf, TypeOK, Calls
  <2> QED
    BY <1>2, <2>1, ReceiveHolds DEF At
<1> QED
    BY <1>1, <1>2 DEF Receive

\* Every step accounts for the registrations.
LEMMA TokensNext == TypeOK /\ TokensOK /\ [Next]_vars => TokensOK'
<1> SUFFICES ASSUME TypeOK, TokensOK, [Next]_vars PROVE TokensOK'
    OBVIOUS
<1>0. CASE UNCHANGED vars
    BY <1>0 DEF TokensOK, Accounted, Live, Owned, OwnTokens, Token, vars
<1>1. ASSUME NEW t \in Threads, Consume(t) PROVE TokensOK'
  <2>1. PICK id \in Resources, step \in {"stat", "get", "range"} :
            \E content \in rows[id] : Enter(t, step, id, content, {}, TRUE)
    BY <1>1 DEF Consume
  <2>2. PICK content \in rows[id] : Enter(t, step, id, content, {}, TRUE)
    BY <2>1
  <2> QED
    BY <1>1, <2>2, EnterHolds DEF Consume
<1>2. ASSUME NEW t \in Threads, PublishBytes(t) PROVE TokensOK'
  <2>1. PICK id \in Resources, bytes \in Contents, declared \in Contents :
            /\ Enter(t, "lookup", id, declared, {<<t, call[t].count + 1>>}, TRUE)
            /\ registry' = registry \union
                   {[token |-> <<t, call[t].count + 1>>, bytes |-> bytes]}
    BY <1>2 DEF PublishBytes
  <2> QED
    BY <1>2, <2>1, EnterHolds DEF PublishBytes
<1>3. ASSUME NEW t \in Threads, PublishReference(t) PROVE TokensOK'
  <2>1. PICK id \in Resources, token \in references, declared \in Contents :
            Enter(t, "lookup", id, declared, {token}, FALSE)
    BY <1>3 DEF PublishReference
  <2> QED
    BY <1>3, <2>1, EnterHolds DEF PublishReference
<1>4. ASSUME NEW t \in Threads, RegisterReference(t) PROVE TokensOK'
  <2> DEFINE token == <<t, call[t].count + 1>>
  <2>1. /\ call[t].pc = "idle" /\ call[t].count \in Nat /\ call[t].count + 1 \in 1 .. MaxCalls
    BY <1>4, BoundsAssumption DEF RegisterReference, At, TypeOK, Calls
  <2>2. /\ OnlyOf(t) /\ call'[t].count = call[t].count + 1 /\ call'[t].pc = "idle"
        /\ call'[t].held = call[t].held /\ call'[t].owned = call[t].owned
    BY <1>4, <2>1 DEF RegisterReference, OnlyOf, TypeOK, Calls
  <2>3. \A other : (\E entry \in registry' : entry.token = other) <=>
            (\E entry \in registry : entry.token = other) \/ other = token
    <3>1. PICK bytes \in Contents : registry' = registry \union {[token |-> token, bytes |-> bytes]}
      BY <1>4 DEF RegisterReference
    <3> DEFINE new == [token |-> token, bytes |-> bytes]
    <3>2. registry' = registry \union {new} /\ new.token = token
      BY <3>1
    <3> HIDE DEF new
    <3> QED
      BY <3>2
  <2>4. references' = references \union {token} /\ UNCHANGED unread
    BY <1>4 DEF RegisterReference
  <2>5. EachAccounted'
    BY <2>2, <2>3, <2>4, AccountedEach DEF TokensOK, EachAccounted, OnlyOf
  <2>6. ASSUME NEW other \in Threads \ {t} PROVE OwnTokens(other)'
    <3>1. Token(other)' = Token(other) /\ call'[other] = call[other]
      BY <2>2 DEF Token, OnlyOf
    <3>2. Token(other) # token /\ \A n : <<other, n>> # token
      BY DEF Token
    <3> QED
      BY <2>4, <3>1, <3>2 DEF TokensOK, OwnTokens
  <2>7. OwnTokens(t)'
    <3>1. \A n \in 1 .. MaxCalls : <<t, n>> = token => n = call[t].count + 1
      OBVIOUS
    <3>2. call[t].held = {}
      BY <2>1 DEF TokensOK, OwnTokens
    <3> QED
      BY <2>1, <2>2, <2>4, <3>1, <3>2 DEF TokensOK, OwnTokens
  <2>8. token \notin unread
    BY <2>1 DEF TokensOK, OwnTokens
  <2>9. references' \intersect unread' = {}
    BY <2>4, <2>8 DEF TokensOK
  <2> QED
    BY <2>5, <2>6, <2>7, <2>9, AccountedEach DEF TokensOK
<1>5. ASSUME NEW token \in references, ReleaseReference(token) PROVE TokensOK'
  <2>1. \A other : (\E entry \in registry' : entry.token = other) <=>
            (\E entry \in registry : entry.token = other) /\ other # token
    BY <1>5 DEF ReleaseReference
  <2>2. /\ references' = references \ {token} /\ UNCHANGED <<call, unread>>
        /\ \A t \in Threads : token \notin call[t].held
    BY <1>5 DEF ReleaseReference
  <2>3. token \notin unread
    BY DEF TokensOK
  <2>4. EachAccounted'
    BY <2>1, <2>2, <2>3, AccountedEach DEF TokensOK, EachAccounted
  <2>5. ASSUME NEW t \in Threads PROVE OwnTokens(t)'
    BY <2>2, <2>5 DEF TokensOK, OwnTokens, Token
  <2>6. references' \intersect unread' = {}
    BY <2>2 DEF TokensOK
  <2> QED
    BY <2>4, <2>5, <2>6, AccountedEach DEF TokensOK
<1>6. ASSUME NEW id \in Resources, Rot(id) PROVE TokensOK'
    BY <1>6 DEF Rot, TokensOK, Accounted, Live, Owned, OwnTokens, Token
<1>7. ASSUME NEW t \in Threads, ReadStep(t) PROVE TokensOK'
  <2>0. UNCHANGED <<references, unread>>
    BY <1>7 DEF ReadStep, Stat, Get, GetRange, Read, Leave, BodyRaises, ReadSlice
  <2>1. CASE NotThere(t) /\ ~ At(t, "idle")
    BY <2>0, <2>1, EndTokens DEF NotThere
  <2>2. CASE Stat(t)
    BY <2>0, <2>1, <2>2, EndTokens DEF Stat, At
  <2>3. CASE Get(t)
    BY <2>0, <2>1, <2>3, ReceiveTokens DEF Get, At
  <2>4. CASE GetRange(t)
    BY <2>0, <2>1, <2>4, ReceiveTokens DEF GetRange, At
  <2>5. CASE Read(t)
    <3>1. /\ OnlyOf(t) /\ call[t].pc = "body" /\ call'[t].pc = "body"
          /\ call'[t].count = call[t].count /\ call'[t].owned = call[t].owned
          /\ call'[t].held = call[t].held /\ UNCHANGED registry
      BY <2>5 DEF Read, At, OnlyOf, TypeOK, Calls
    <3> QED
      BY <2>0, <3>1, GoesOn
  <2>6. CASE Leave(t) \/ BodyRaises(t)
    BY <2>0, <2>6, EndTokens DEF Leave, BodyRaises, At
  <2>7. CASE ReadSlice(t)
    <3>1. CASE End(t, "mismatch")
      BY <2>0, <2>7, <3>1, EndTokens DEF ReadSlice, At
    <3>2. CASE /\ registry' = Released(t)
               /\ call' = [call EXCEPT ![t].pc = "idle", ![t].outcome = "done", ![t].held = {},
                                       ![t].got = call[t].rest, ![t].rest = <<>>]
      <4>1. /\ OnlyOf(t) /\ call'[t].count = call[t].count
            /\ call'[t].held = {} /\ call'[t].pc = "idle"
        BY <3>2 DEF OnlyOf, TypeOK, Calls
      <4> QED
        BY <2>0, <2>7, <3>2, <4>1, EndReleases DEF ReadSlice, At
    <3> QED
      BY <2>7, <3>1, <3>2 DEF ReadSlice
  <2> QED
    BY <1>7, <2>2, <2>3, <2>4, <2>5, <2>6, <2>7 DEF ReadStep
<1>8. ASSUME NEW t \in Threads, NEW step \in {"put", "commit", "body", "slice"},
             ~ At(t, "idle"), call' = [call EXCEPT ![t].pc = step],
             UNCHANGED <<registry, references, unread>>
      PROVE  TokensOK'
  <2>1. /\ OnlyOf(t) /\ call'[t].pc = step /\ call'[t].count = call[t].count
        /\ call'[t].owned = call[t].owned /\ call'[t].held = call[t].held
    BY <1>8 DEF OnlyOf, TypeOK, Calls
  <2> QED
    BY <1>8, <2>1, GoesOn DEF At
<1>9. ASSUME NEW t \in Threads, PublishStep(t) PROVE TokensOK'
  <2>0. UNCHANGED <<references, unread>> /\ ~ At(t, "idle")
    BY <1>9 DEF PublishStep, Lookup, PutObject, CommitRow, At
  <2>1. \/ \E outcome : End(t, outcome)
        \/ /\ \E step \in {"put", "commit"} : call' = [call EXCEPT ![t].pc = step]
           /\ UNCHANGED registry
    BY <1>9 DEF PublishStep, Lookup, PutObject, CommitRow, Meet
  <2> QED
    BY <1>8, <2>0, <2>1, EndTokens
<1>10. ASSUME NEW t \in Threads, RemoteFailure(t) PROVE TokensOK'
    BY <1>10, EndTokens DEF RemoteFailure
<1>11. ASSUME NEW t \in Threads, Garble(t) PROVE TokensOK'
  <2>1. /\ OnlyOf(t) /\ call[t].pc \in {"body", "slice"} /\ call'[t].pc = call[t].pc
        /\ call'[t].count = call[t].count /\ call'[t].owned = call[t].owned
        /\ call'[t].held = call[t].held /\ UNCHANGED <<registry, references, unread>>
    BY <1>11 DEF Garble, OnlyOf, TypeOK, Calls
  <2> QED
    BY <2>1, GoesOn
<1>12. ASSUME NEW t \in Threads, Misanswered(t) PROVE TokensOK'
  <2>1. /\ OnlyOf(t) /\ call[t].pc \in {"get", "range"} /\ call'[t].pc = "idle"
        /\ call'[t].count = call[t].count /\ call'[t].owned = call[t].owned
        /\ call'[t].held = call[t].held /\ UNCHANGED references
        /\ unread' = unread \union {Token(t)}
    BY <1>12 DEF Misanswered, OnlyOf, TypeOK, Calls
  <2>2. \A token : (\E entry \in registry' : entry.token = token) <=>
            (\E entry \in registry : entry.token = token) \/ token = Token(t)
    <3>1. PICK bytes \in Contents : Answer(t, bytes)
      BY <1>12 DEF Misanswered
    <3> DEFINE new == [token |-> Token(t), bytes |-> bytes]
    <3>2. registry' = registry \union {new} /\ new.token = Token(t)
      BY <3>1 DEF Answer
    <3> HIDE DEF new
    <3> QED
      BY <3>2
  <2>3. call[t].held = {} /\ Token(t) = <<t, call[t].count>> /\ Token(t)' = Token(t)
    BY <2>1 DEF TokensOK, OwnTokens, Token
  <2>4. EachAccounted'
    BY <2>1, <2>2, AccountedEach DEF TokensOK, EachAccounted, OnlyOf
  <2>5. ASSUME NEW other \in Threads \ {t} PROVE OwnTokens(other)'
    <3>1. Token(other)' = Token(other) /\ call'[other] = call[other]
      BY <2>1 DEF Token, OnlyOf
    <3>2. Token(other) # Token(t) /\ \A n : <<other, n>> # Token(t)
      BY DEF Token
    <3> QED
      BY <2>1, <3>1, <3>2 DEF TokensOK, OwnTokens
  <2>6. OwnTokens(t)'
    <3>1. \A n \in 1 .. MaxCalls : <<t, n>> = Token(t) => n = call[t].count
      BY <2>3
    <3>2. call[t].count \in Nat
      BY DEF TypeOK, Calls
    <3> QED
      BY <2>1, <2>3, <3>1, <3>2 DEF TokensOK, OwnTokens
  <2>7. references' \intersect unread' = {}
    BY <2>1 DEF TokensOK, OwnTokens
  <2> QED
    BY <2>4, <2>5, <2>6, <2>7, AccountedEach DEF TokensOK
<1> QED
    BY <1>0, <1>1, <1>2, <1>3, <1>4, <1>5, <1>6, <1>7, <1>9, <1>10, <1>11, <1>12 DEF Next

--------------------------------------------------------------------------------
(* What calls are handed. *)

\* An end without success hands nothing out; a success hands out a part.
LEMMA EndHanded ==
    ASSUME TypeOK, EachHanded, NEW t \in Threads, NEW outcome, End(t, outcome),
           outcome = "done" => call[t].first = 0 /\ IsPartOf(call[t].got, call[t].wanted)
    PROVE  EachHanded'
<1>1. /\ OnlyOf(t) /\ call'[t].pc = "idle" /\ call'[t].outcome = outcome
      /\ call'[t].first = call[t].first /\ call'[t].got = call[t].got
      /\ call'[t].wanted = call[t].wanted
    BY DEF End, OnlyOf, TypeOK, Calls
<1>2. Handed(t)'
    BY <1>1 DEF Handed
<1>3. \A other \in Threads \ {t} : Handed(other)'
    BY <1>1 DEF EachHanded, Handed, OnlyOf
<1> QED
    BY <1>2, <1>3 DEF EachHanded

\* A call that has been handed nothing may succeed.
LEMMA EndEmpty ==
    ASSUME TypeOK, EachHanded, NEW t \in Threads, NEW outcome, End(t, outcome),
           call[t].pc \notin {"idle", "body", "slice"}
    PROVE  EachHanded'
<1>1. call[t].wanted \in Parts
    BY ContentsAreParts DEF TypeOK, Calls
<1>2. call[t].first = 0 /\ call[t].got = <<>>
    BY DEF EachHanded, Handed
<1> QED
    BY <1>1, <1>2, EndHanded, NothingIsPart

\* A call that goes on has been handed nothing, or is in the middle of a body.
LEMMA GoesOnHanded ==
    ASSUME TypeOK, EachHanded, NEW t \in Threads, OnlyOf(t),
           call'[t].outcome = "none", call'[t].pc # "idle",
           call'[t].pc # "body" => call'[t].got = <<>>,
           call'[t].pc # "slice" => call'[t].first = 0,
           call'[t].pc = "slice" =>
               call'[t].first \in 1 .. call'[t].last /\ call'[t].last <= Len(call'[t].wanted)
    PROVE  EachHanded'
<1>1. Handed(t)'
    BY DEF Handed
<1>2. \A other \in Threads \ {t} : Handed(other)'
    BY DEF EachHanded, Handed, OnlyOf
<1> QED
    BY <1>1, <1>2 DEF EachHanded

\* A call begins with nothing handed out.
LEMMA EnterHanded ==
    ASSUME TypeOK, EachHanded, NEW t \in Threads, NEW step, NEW id, NEW wanted, NEW held,
           NEW owned, step \notin {"idle", "slice"}, Enter(t, step, id, wanted, held, owned)
    PROVE  EachHanded'
<1>1. /\ OnlyOf(t) /\ call'[t].pc = step /\ call'[t].outcome = "none"
      /\ call'[t].first = 0 /\ call'[t].got = <<>>
    BY DEF Enter, OnlyOf, TypeOK
<1> QED
    BY <1>1, GoesOnHanded

\* An answer is refused, or opens a stream with nothing handed out yet.
LEMMA ReceiveHanded ==
    ASSUME TypeOK, EachHanded, NEW t \in Threads, call[t].pc \in {"get", "range"},
           NEW object, NEW bytes, NEW step, NEW first, NEW last,
           Receive(t, object, bytes, step, first, last),
           \/ step = "body" /\ first = 0
           \/ step = "slice" /\ first \in 1 .. last /\ last <= Len(call[t].wanted)
    PROVE  EachHanded'
<1>1. CASE End(t, "mismatch")
    BY <1>1, EndEmpty
<1>2. CASE call' = [call EXCEPT ![t].pc = step, ![t].held = {Token(t)},
                                ![t].rest = bytes, ![t].first = first, ![t].last = last]
  <2>1. /\ OnlyOf(t) /\ call'[t].pc = step /\ call'[t].outcome = call[t].outcome
        /\ call'[t].first = first /\ call'[t].last = last
        /\ call'[t].got = call[t].got /\ call'[t].wanted = call[t].wanted
    BY <1>2 DEF OnlyOf, TypeOK, Calls
  <2>2. call[t].outcome = "none" /\ call[t].got = <<>>
    BY DEF EachHanded, Handed
  <2> QED
    BY <2>1, <2>2, GoesOnHanded
<1> QED
    BY <1>1, <1>2 DEF Receive

\* Every step hands out parts of the contents only.
LEMMA HandedNext == TypeOK /\ EachHanded /\ [Next]_vars => EachHanded'
<1> SUFFICES ASSUME TypeOK, EachHanded, [Next]_vars PROVE EachHanded'
    OBVIOUS
<1>0. CASE UNCHANGED call
    BY <1>0 DEF EachHanded, Handed
<1>1. ASSUME NEW t \in Threads, Consume(t) PROVE EachHanded'
  <2>1. PICK id \in Resources, step \in {"stat", "get", "range"} :
            \E content \in rows[id] : Enter(t, step, id, content, {}, TRUE)
    BY <1>1 DEF Consume
  <2> QED
    BY <2>1, EnterHanded
<1>2. ASSUME NEW t \in Threads, PublishBytes(t) PROVE EachHanded'
  <2>1. PICK id, declared, held, owned : Enter(t, "lookup", id, declared, held, owned)
    BY <1>2 DEF PublishBytes
  <2> QED
    BY <2>1, EnterHanded
<1>3. ASSUME NEW t \in Threads, PublishReference(t) PROVE EachHanded'
  <2>1. PICK id, declared, held, owned : Enter(t, "lookup", id, declared, held, owned)
    BY <1>3 DEF PublishReference
  <2> QED
    BY <2>1, EnterHanded
<1>4. ASSUME NEW t \in Threads, RegisterReference(t) PROVE EachHanded'
  <2>1. /\ OnlyOf(t) /\ call'[t].pc = call[t].pc /\ call'[t].outcome = call[t].outcome
        /\ call'[t].first = call[t].first /\ call'[t].last = call[t].last
        /\ call'[t].got = call[t].got /\ call'[t].wanted = call[t].wanted
    BY <1>4 DEF RegisterReference, OnlyOf, TypeOK, Calls
  <2> QED
    BY <2>1 DEF EachHanded, Handed, OnlyOf
<1>5. ASSUME NEW t \in Threads, NotThere(t), call[t].pc \notin {"idle", "body", "slice"}
      PROVE  EachHanded'
    BY <1>5, EndEmpty DEF NotThere
<1>6. ASSUME NEW t \in Threads, Stat(t) PROVE EachHanded'
    BY <1>5, <1>6, EndEmpty DEF Stat, At
<1>7. ASSUME NEW t \in Threads, Get(t) PROVE EachHanded'
    BY <1>5, <1>7, ReceiveHanded DEF Get, At
<1>8. ASSUME NEW t \in Threads, GetRange(t) PROVE EachHanded'
  <2>1. CASE NotThere(t)
    BY <1>5, <1>8, <2>1 DEF GetRange, At
  <2>2. ASSUME NEW object \in Object(t), NEW first \in 1 .. Len(call[t].wanted),
               NEW last \in 1 .. Len(call[t].wanted), first <= last,
               Receive(t, object, Slice(object.bytes, first, last), "slice", first, last)
        PROVE  EachHanded'
    <3>1. Len(call[t].wanted) \in Nat
      BY ContentsAreParts DEF TypeOK, Calls, Parts
    <3>2. first \in 1 .. last /\ last <= Len(call[t].wanted)
      BY <2>2, <3>1
    <3> QED
      BY <1>8, <2>2, <3>2, ReceiveHanded DEF GetRange, At
  <2> QED
    BY <1>8, <2>1, <2>2 DEF GetRange
<1>9. ASSUME NEW t \in Threads, Read(t) PROVE EachHanded'
  <2>1. /\ OnlyOf(t) /\ call[t].pc = "body" /\ call'[t].pc = "body"
        /\ call'[t].outcome = call[t].outcome /\ call'[t].first = call[t].first
    BY <1>9 DEF Read, At, OnlyOf, TypeOK, Calls
  <2>2. call[t].outcome = "none" /\ call[t].first = 0
    BY <2>1 DEF EachHanded, Handed
  <2> QED
    BY <2>1, <2>2, GoesOnHanded
<1>10. ASSUME NEW t \in Threads, Leave(t) PROVE EachHanded'
  <2>1. call[t].first = 0
    BY <1>10 DEF Leave, At, EachHanded, Handed
  <2>2. call[t].got \in Parts /\ call[t].rest \in Parts
    BY DEF TypeOK, Calls
  <2>3. IsPartOf(call[t].got, call[t].got \o call[t].rest)
    BY <2>2, FrontIsPart
  <2>4. CASE call[t].got \o call[t].rest = call[t].wanted
    <3>1. IsPartOf(call[t].got, call[t].wanted)
      BY <2>3, <2>4
    <3> QED
      BY <1>10, <2>1, <2>4, <3>1, EndHanded DEF Leave
  <2>5. CASE call[t].got \o call[t].rest # call[t].wanted
    BY <1>10, <2>5, EndHanded DEF Leave
  <2> QED
    BY <2>4, <2>5
<1>11. ASSUME NEW t \in Threads, BodyRaises(t) PROVE EachHanded'
    BY <1>11, EndHanded DEF BodyRaises
<1>12. ASSUME NEW t \in Threads, ReadSlice(t) PROVE EachHanded'
  <2>1. CASE End(t, "mismatch")
    BY <2>1, EndHanded
  <2>2. CASE /\ Len(call[t].rest) + call[t].first = call[t].last + 1
             /\ call' = [call EXCEPT ![t].pc = "idle", ![t].outcome = "done", ![t].held = {},
                                     ![t].got = call[t].rest, ![t].rest = <<>>]
    <3>1. /\ OnlyOf(t) /\ call'[t].pc = "idle" /\ call'[t].got = call[t].rest
          /\ call'[t].first = call[t].first /\ call'[t].last = call[t].last
      BY <2>2 DEF OnlyOf, TypeOK, Calls
    <3>2. call[t].first \in 1 .. call[t].last
      BY <1>12 DEF ReadSlice, At, EachHanded, Handed
    <3>3. Len(call[t].rest) \in Nat /\ call[t].first \in Nat /\ call[t].last \in Nat
      BY DEF TypeOK, Calls, Parts
    <3>4. Handed(t)'
      BY <2>2, <3>1, <3>2, <3>3 DEF Handed
    <3>5. \A other \in Threads \ {t} : Handed(other)'
      BY <3>1 DEF EachHanded, Handed, OnlyOf
    <3> QED
      BY <3>4, <3>5 DEF EachHanded
  <2> QED
    BY <1>12, <2>1, <2>2 DEF ReadSlice
<1>13. ASSUME NEW t \in Threads, PublishStep(t) PROVE EachHanded'
  <2>1. call[t].pc \in Publishing
    BY <1>13 DEF PublishStep, Lookup, PutObject, CommitRow, At, Publishing
  <2>2. CASE \E outcome : End(t, outcome)
    BY <2>1, <2>2, EndEmpty DEF Publishing
  <2>3. CASE \E step \in Publishing : call' = [call EXCEPT ![t].pc = step]
    <3>1. PICK step \in Publishing : call' = [call EXCEPT ![t].pc = step]
      BY <2>3
    <3>2. /\ OnlyOf(t) /\ call'[t].pc = step /\ call'[t].outcome = call[t].outcome
          /\ call'[t].first = call[t].first /\ call'[t].got = call[t].got
      BY <3>1 DEF OnlyOf, TypeOK, Calls
    <3>3. call[t].outcome = "none" /\ call[t].first = 0 /\ call[t].got = <<>>
      BY <2>1 DEF EachHanded, Handed, Publishing
    <3> QED
      BY <3>2, <3>3, GoesOnHanded DEF Publishing
  <2> QED
    BY <1>13, <2>2, <2>3 DEF PublishStep, Lookup, PutObject, CommitRow, Meet, Publishing
<1>14. ASSUME NEW t \in Threads, RemoteFailure(t) PROVE EachHanded'
    BY <1>14, EndHanded DEF RemoteFailure
<1>15. ASSUME NEW t \in Threads, Garble(t) PROVE EachHanded'
  <2>1. /\ OnlyOf(t) /\ call'[t].pc = call[t].pc /\ call'[t].outcome = call[t].outcome
        /\ call'[t].first = call[t].first /\ call'[t].last = call[t].last
        /\ call'[t].got = call[t].got /\ call'[t].wanted = call[t].wanted
    BY <1>15 DEF Garble, OnlyOf, TypeOK, Calls
  <2> QED
    BY <2>1 DEF EachHanded, Handed, OnlyOf
<1>16. ASSUME NEW t \in Threads, Misanswered(t) PROVE EachHanded'
  <2>1. OnlyOf(t) /\ call'[t].pc = "idle" /\ call'[t].outcome = "invalid"
    BY <1>16 DEF Misanswered, OnlyOf, TypeOK, Calls
  <2>2. Handed(t)' /\ \A other \in Threads \ {t} : Handed(other)'
    BY <2>1 DEF EachHanded, Handed, OnlyOf
  <2> QED
    BY <2>2 DEF EachHanded
<1> QED
    BY <1>0, <1>1, <1>2, <1>3, <1>4, <1>6, <1>7, <1>8, <1>9, <1>10, <1>11, <1>12, <1>13,
       <1>14, <1>15, <1>16 DEF Next, ReadStep, ReleaseReference, Rot, vars

--------------------------------------------------------------------------------
(* Without faults. *)

Truthful == TypeOK /\ EachHanded /\ Stored /\ EachFaithful

\* Objects that are there stay, and so do rows.
Grows ==
    \A id \in Resources : /\ rows[id] \subseteq rows'[id]
                          /\ objects[id] # {} => objects'[id] = objects[id]

\* A step of one call leaves the others faithful, and its own if it ends well.
LEMMA StepFaithful ==
    ASSUME Truthful, NEW t \in Threads, OnlyOf(t), Grows, Faithful(t)'
    PROVE  EachFaithful'
<1> SUFFICES ASSUME NEW other \in Threads \ {t} PROVE Faithful(other)'
    BY DEF EachFaithful
<1>1. call[other].id \in Resources /\ call'[other] = call[other]
    BY DEF Truthful, TypeOK, Calls, OnlyOf
<1> QED
    BY <1>1 DEF Truthful, EachFaithful, Faithful, Grows

\* What a read finds is what its row names.
LEMMA ReadFinds ==
    ASSUME Truthful, NEW t \in Threads, call[t].pc \in Reading
    PROVE  Object(t) = {[bytes |-> call[t].wanted, says |-> call[t].wanted]}
<1>1. call[t].id \in Resources /\ call[t].wanted \in rows[call[t].id]
    BY DEF Truthful, TypeOK, Calls, EachFaithful, Faithful
<1> QED
    BY <1>1 DEF Truthful, Stored, Object

\* The end of a call keeps everything, unless it finds no Object or another one.
LEMMA EndFaithful ==
    ASSUME Truthful, NEW t \in Threads, NEW outcome, End(t, outcome),
           outcome \notin {"missing", "mismatch"},
           call[t].pc # "slice", call[t].pc # "idle", Grows
    PROVE  EachFaithful'
<1>1. /\ OnlyOf(t) /\ call'[t].pc = "idle" /\ call'[t].outcome = outcome
      /\ call'[t].first = call[t].first
    BY DEF End, OnlyOf, Truthful, TypeOK, Calls
<1>2. call[t].first = 0
    BY DEF Truthful, EachHanded, Handed
<1>3. Faithful(t)'
    BY <1>1, <1>2 DEF Faithful, Reading
<1> QED
    BY <1>1, <1>3, StepFaithful

\* No read finds that there is no Object.
LEMMA NotThereFaithful ==
    ASSUME Truthful, NEW t \in Threads, call[t].pc \in Reading, NotThere(t)
    PROVE  FALSE
<1> DEFINE object == [bytes |-> call[t].wanted, says |-> call[t].wanted]
<1>1. object \in Object(t) /\ object.says = call[t].wanted
    BY ReadFinds
<1> HIDE DEF object
<1> QED
    BY <1>1 DEF NotThere

\* Every step without a fault is faithful to the rows.
LEMMA FaithfulNext ==
    ASSUME Truthful, [Next]_vars, faults = 0, faults' = 0
    PROVE  Stored' /\ EachFaithful'
<1>0. CASE UNCHANGED <<rows, objects, call>>
    BY <1>0 DEF Truthful, Stored, EachFaithful, Faithful
<1>s. UNCHANGED <<rows, objects>> => Stored' /\ Grows
    BY DEF Truthful, Stored, Grows
<1>1. ASSUME NEW t \in Threads, Consume(t) PROVE Stored' /\ EachFaithful'
  <2>1. PICK id \in Resources, step \in {"stat", "get", "range"} :
            \E content \in rows[id] : Enter(t, step, id, content, {}, TRUE)
    BY <1>1 DEF Consume
  <2>2. PICK content \in rows[id] : Enter(t, step, id, content, {}, TRUE)
    BY <2>1
  <2>3. /\ OnlyOf(t) /\ call'[t].pc = step /\ call'[t].outcome = "none"
        /\ call'[t].wanted = content /\ call'[t].id = id
    BY <2>2 DEF Enter, OnlyOf, Truthful, TypeOK
  <2>4. UNCHANGED <<rows, objects>>
    BY <1>1 DEF Consume
  <2>5. Faithful(t)'
    BY <2>3, <2>4 DEF Faithful
  <2> QED
    BY <1>s, <2>3, <2>4, <2>5, StepFaithful
<1>2. ASSUME NEW t \in Threads, PublishBytes(t) \/ PublishReference(t)
      PROVE  Stored' /\ EachFaithful'
  <2>1. PICK id, declared, held, owned : Enter(t, "lookup", id, declared, held, owned)
    BY <1>2 DEF PublishBytes, PublishReference
  <2>2. OnlyOf(t) /\ call'[t].pc = "lookup" /\ call'[t].outcome = "none"
    BY <2>1 DEF Enter, OnlyOf, Truthful, TypeOK
  <2>3. UNCHANGED <<rows, objects>>
    BY <1>2 DEF PublishBytes, PublishReference
  <2>4. Faithful(t)'
    BY <2>2 DEF Faithful, Reading
  <2> QED
    BY <1>s, <2>2, <2>3, <2>4, StepFaithful
<1>3. ASSUME NEW t \in Threads, RegisterReference(t) PROVE Stored' /\ EachFaithful'
  <2>1. /\ OnlyOf(t) /\ call'[t].pc = "idle" /\ call[t].pc = "idle"
        /\ call'[t].outcome = call[t].outcome /\ call'[t].wanted = call[t].wanted
        /\ call'[t].first = call[t].first /\ call'[t].last = call[t].last
        /\ call'[t].got = call[t].got
    BY <1>3 DEF RegisterReference, At, OnlyOf, Truthful, TypeOK, Calls
  <2>2. UNCHANGED <<rows, objects>>
    BY <1>3 DEF RegisterReference
  <2>3. Faithful(t)'
    BY <2>1 DEF Faithful, Reading, Truthful, EachFaithful
  <2> QED
    BY <1>s, <2>1, <2>2, <2>3, StepFaithful
<1>4. ASSUME NEW t \in Threads, ReadStep(t) PROVE Stored' /\ EachFaithful'
  <2>0. UNCHANGED <<rows, objects>>
    BY <1>4 DEF ReadStep, Stat, Get, GetRange, Read, Leave, BodyRaises, ReadSlice
  <2>1. call[t].pc \in Reading
    BY <1>4 DEF ReadStep, Stat, Get, GetRange, Read, Leave, BodyRaises, ReadSlice, At, Reading
  <2> DEFINE whole == [bytes |-> call[t].wanted, says |-> call[t].wanted]
  <2>2. Object(t) = {whole} /\ whole.bytes = call[t].wanted /\ whole.says = call[t].wanted
    BY <2>1, ReadFinds
  <2>3. ~ NotThere(t)
    BY <2>1, NotThereFaithful
  <2>4. /\ call[t].wanted \in Parts /\ call[t].rest \in Parts /\ call[t].got \in Parts
        /\ call[t].id \in Resources /\ call[t].wanted \in rows[call[t].id]
        /\ call[t].outcome = "none"
    BY <2>1, ContentsAreParts DEF Truthful, TypeOK, Calls, EachFaithful, Faithful,
       EachHanded, Handed, Reading
  <2> HIDE DEF whole
  <2>5. CASE Stat(t)
    BY <1>s, <2>0, <2>2, <2>3, <2>5, EndFaithful DEF Stat, At
  <2>6. CASE Get(t)
    <3>1. Receive(t, whole, whole.bytes, "body", 0, 0)
      BY <2>2, <2>3, <2>6 DEF Get
    <3>2. /\ OnlyOf(t) /\ call'[t].pc = "body" /\ call'[t].rest = call[t].wanted
          /\ call'[t].got = call[t].got /\ call'[t].wanted = call[t].wanted
          /\ call'[t].id = call[t].id /\ call'[t].outcome = call[t].outcome
      BY <2>2, <3>1 DEF Receive, OnlyOf, Truthful, TypeOK, Calls
    <3>3. call[t].got = <<>>
      BY <2>6 DEF Get, At, Truthful, EachHanded, Handed
    <3>4. call[t].got \o call[t].wanted = call[t].wanted
      BY <2>4, <3>3, ConcatEmptySeq DEF Parts
    <3>5. Faithful(t)'
      BY <2>0, <2>4, <3>2, <3>4 DEF Faithful
    <3> QED
      BY <1>s, <2>0, <3>2, <3>5, StepFaithful
  <2>7. CASE GetRange(t)
    <3>1. PICK first, last \in 1 .. Len(call[t].wanted) :
              Receive(t, whole, Slice(whole.bytes, first, last), "slice", first, last)
      BY <2>2, <2>3, <2>7 DEF GetRange
    <3>2. /\ OnlyOf(t) /\ call'[t].pc = "slice"
          /\ call'[t].rest = Slice(call[t].wanted, first, last)
          /\ call'[t].first = first /\ call'[t].last = last /\ call'[t].wanted = call[t].wanted
          /\ call'[t].id = call[t].id /\ call'[t].outcome = call[t].outcome
      BY <2>2, <3>1 DEF Receive, OnlyOf, Truthful, TypeOK, Calls
    <3>3. Slice(call[t].wanted, first, last) = SubSeq(call[t].wanted, first, last)
      BY <2>4, SliceWhole
    <3>4. Faithful(t)'
      BY <2>0, <2>4, <3>2, <3>3 DEF Faithful
    <3> QED
      BY <1>s, <2>0, <3>2, <3>4, StepFaithful
  <2>8. CASE Read(t)
    <3>1. PICK n \in 1 .. Len(call[t].rest) :
              call' = [call EXCEPT ![t].got = @ \o SubSeq(call[t].rest, 1, n),
                                   ![t].rest = SubSeq(@, n + 1, Len(@))]
      BY <2>8 DEF Read
    <3> DEFINE more == call[t].got \o SubSeq(call[t].rest, 1, n)
               left == SubSeq(call[t].rest, n + 1, Len(call[t].rest))
    <3>a. call' = [call EXCEPT ![t].got = more, ![t].rest = left]
      BY <3>1
    <3>b. call[t].pc = "body"
      BY <2>8 DEF Read, At
    <3> HIDE DEF more, left
    <3>2. /\ OnlyOf(t) /\ call[t].pc = "body" /\ call'[t].pc = "body"
          /\ call'[t].got = more /\ call'[t].rest = left
          /\ call'[t].wanted = call[t].wanted
          /\ call'[t].id = call[t].id /\ call'[t].outcome = call[t].outcome
      BY <3>a, <3>b DEF OnlyOf, Truthful, TypeOK, Calls
    <3>3. call'[t].got \o call'[t].rest = call[t].got \o call[t].rest
      BY <2>4, <3>2, ReadMoves DEF more, left
    <3>4. call[t].got \o call[t].rest = call[t].wanted
      BY <3>2 DEF Truthful, EachFaithful, Faithful
    <3>5. Faithful(t)'
      BY <2>0, <2>4, <3>2, <3>3, <3>4 DEF Faithful
    <3> QED
      BY <1>s, <2>0, <3>2, <3>5, StepFaithful
  <2>9. CASE Leave(t)
    <3>1. call[t].got \o call[t].rest = call[t].wanted
      BY <2>9 DEF Leave, At, Truthful, EachFaithful, Faithful
    <3> QED
      BY <1>s, <2>0, <2>9, <3>1, EndFaithful DEF Leave, At
  <2>10. CASE BodyRaises(t)
    BY <1>s, <2>0, <2>10, EndFaithful DEF BodyRaises, At
  <2>11. CASE ReadSlice(t)
    <3>1. /\ call[t].first \in 1 .. call[t].last /\ call[t].last <= Len(call[t].wanted)
          /\ call[t].rest = SubSeq(call[t].wanted, call[t].first, call[t].last)
      BY <2>11 DEF ReadSlice, At, Truthful, EachHanded, Handed, EachFaithful, Faithful
    <3>2. /\ call[t].last \in Nat /\ Len(call[t].wanted) \in Nat
          /\ call[t].wanted \in Seq(Blocks)
      BY <2>4 DEF Truthful, TypeOK, Calls, Parts
    <3>3. Len(call[t].rest) = call[t].last - call[t].first + 1
      BY <3>1, <3>2, SubSeqProperties
    <3>4. Len(call[t].rest) + call[t].first = call[t].last + 1
      BY <3>1, <3>2, <3>3
    <3>5. call' = [call EXCEPT ![t].pc = "idle", ![t].outcome = "done", ![t].held = {},
                               ![t].got = call[t].rest, ![t].rest = <<>>]
      BY <2>11, <3>4 DEF ReadSlice
    <3>6. /\ OnlyOf(t) /\ call'[t].pc = "idle" /\ call'[t].outcome = "done"
          /\ call'[t].got = call[t].rest /\ call'[t].wanted = call[t].wanted
          /\ call'[t].first = call[t].first /\ call'[t].last = call[t].last
      BY <3>5 DEF OnlyOf, Truthful, TypeOK, Calls
    <3>7. Faithful(t)'
      BY <3>1, <3>6 DEF Faithful, Reading
    <3> QED
      BY <1>s, <2>0, <3>6, <3>7, StepFaithful
  <2> QED
    BY <1>4, <2>5, <2>6, <2>7, <2>8, <2>9, <2>10, <2>11 DEF ReadStep
<1>5. ASSUME NEW t \in Threads, NEW content, Meet(t, content), call[t].pc \in Publishing, Grows
      PROVE  EachFaithful'
    BY <1>5, EndFaithful DEF Meet, Publishing
<1>6. ASSUME NEW t \in Threads, Lookup(t) PROVE Stored' /\ EachFaithful'
  <2>0. UNCHANGED <<rows, objects>> /\ call[t].pc \in Publishing /\ call[t].pc = "lookup"
    BY <1>6 DEF Lookup, At, Publishing
  <2>1. CASE \E content \in rows[call[t].id] : Meet(t, content)
    BY <1>s, <1>5, <2>0, <2>1
  <2>2. CASE call' = [call EXCEPT ![t].pc = "put"]
    <3>1. OnlyOf(t) /\ call'[t].pc = "put" /\ call'[t].outcome = call[t].outcome
      BY <2>2 DEF OnlyOf, Truthful, TypeOK, Calls
    <3>2. call[t].outcome = "none"
      BY <2>0 DEF Truthful, EachHanded, Handed
    <3>3. Faithful(t)'
      BY <3>1, <3>2 DEF Faithful, Reading
    <3> QED
      BY <1>s, <2>0, <3>1, <3>3, StepFaithful
  <2> QED
    BY <1>6, <2>1, <2>2 DEF Lookup
<1>7. ASSUME NEW t \in Threads, call[t].pc = "put",
             call' = [call EXCEPT ![t].pc = "commit"], Grows,
             objects'[call[t].id] = {[bytes |-> call[t].wanted, says |-> call[t].wanted]}
      PROVE  EachFaithful'
  <2>1. /\ OnlyOf(t) /\ call'[t].pc = "commit" /\ call'[t].outcome = call[t].outcome
        /\ call'[t].id = call[t].id /\ call'[t].wanted = call[t].wanted
    BY <1>7 DEF OnlyOf, Truthful, TypeOK, Calls
  <2>2. call[t].outcome = "none"
    BY <1>7 DEF Truthful, EachHanded, Handed
  <2>3. Faithful(t)'
    BY <1>7, <2>1, <2>2 DEF Faithful, Reading
  <2> QED
    BY <1>7, <2>1, <2>3, StepFaithful
<1>8. ASSUME NEW t \in Threads, PutObject(t) PROVE Stored' /\ EachFaithful'
  <2>0. /\ UNCHANGED rows /\ call[t].pc = "put" /\ call[t].id \in Resources
        /\ objects \in [Resources -> SUBSET Objects] /\ call[t].wanted \in Contents
    BY <1>8 DEF PutObject, At, Truthful, TypeOK, Calls
  <2>1. CASE /\ Object(t) = {} /\ call' = [call EXCEPT ![t].pc = "commit"]
             /\ \E entry \in Payload(t) :
                    /\ entry.bytes = call[t].wanted
                    /\ objects' = [objects EXCEPT ![call[t].id] =
                                       {[bytes |-> entry.bytes, says |-> entry.bytes]}]
    <3> DEFINE new == [bytes |-> call[t].wanted, says |-> call[t].wanted]
    <3>1. objects' = [objects EXCEPT ![call[t].id] = {new}]
      BY <2>1
    <3>2. new.says = new.bytes
      OBVIOUS
    <3>3. objects'[call[t].id] = {new} /\ objects[call[t].id] = {}
      BY <2>0, <2>1, <3>1 DEF Object
    <3>4. \A id \in Resources \ {call[t].id} : objects'[id] = objects[id]
      BY <2>0, <3>1
    <3>6. rows[call[t].id] = {}
      <4> SUFFICES ASSUME NEW content \in rows[call[t].id] PROVE FALSE
        OBVIOUS
      <4>1. objects[call[t].id] = {[bytes |-> content, says |-> content]}
        BY <2>0 DEF Truthful, Stored
      <4> QED
        BY <3>3, <4>1
    <3>7. Grows
      BY <2>0, <3>3, <3>4 DEF Grows
    <3>8. EachFaithful'
      BY <1>7, <2>0, <2>1, <3>3, <3>7
    <3> HIDE DEF new
    <3>9. Stored'
      BY <2>0, <3>2, <3>3, <3>4, <3>6 DEF Truthful, Stored
    <3> QED
      BY <3>8, <3>9
  <2>2. CASE (\E outcome \in {"error", "conflict"} : End(t, outcome)) /\ UNCHANGED objects
    BY <1>s, <2>0, <2>2, EndFaithful
  <2>3. CASE /\ \E object \in Object(t) : object.says = call[t].wanted
             /\ call' = [call EXCEPT ![t].pc = "commit"] /\ UNCHANGED objects
    <3>1. PICK object \in Object(t) : object.says = call[t].wanted
      BY <2>3
    <3>2. object.says = object.bytes /\ objects[call[t].id] = {object} /\ object \in Objects
      BY <2>0, <3>1 DEF Object, Truthful, Stored
    <3>3. object = [bytes |-> call[t].wanted, says |-> call[t].wanted]
      BY <3>1, <3>2 DEF Objects
    <3> QED
      BY <1>s, <1>7, <2>0, <2>3, <3>2, <3>3
  <2> QED
    BY <1>8, <2>1, <2>2, <2>3 DEF PutObject
<1>9. ASSUME NEW t \in Threads, CommitRow(t) PROVE Stored' /\ EachFaithful'
  <2>0. /\ UNCHANGED objects /\ call[t].pc = "commit" /\ call[t].id \in Resources
        /\ rows \in [Resources -> SUBSET Contents]
    BY <1>9 DEF CommitRow, At, Truthful, TypeOK, Calls
  <2>1. CASE /\ rows[call[t].id] = {} /\ End(t, "done")
             /\ rows' = [rows EXCEPT ![call[t].id] = {call[t].wanted}]
    <3>1. /\ rows'[call[t].id] = {call[t].wanted}
          /\ \A id \in Resources \ {call[t].id} : rows'[id] = rows[id]
      BY <2>0, <2>1
    <3>2. objects[call[t].id] = {[bytes |-> call[t].wanted, says |-> call[t].wanted]}
      BY <2>0 DEF Truthful, EachFaithful, Faithful
    <3>3. Grows
      BY <2>0, <2>1, <3>1 DEF Grows
    <3>4. Stored'
      BY <2>0, <3>1, <3>2 DEF Truthful, Stored
    <3> QED
      BY <2>0, <2>1, <3>3, <3>4, EndFaithful
  <2>2. CASE (\E content \in rows[call[t].id] : Meet(t, content)) /\ UNCHANGED rows
    BY <1>s, <1>5, <2>0, <2>2 DEF Publishing
  <2> QED
    BY <1>9, <2>1, <2>2 DEF CommitRow
<1>10. ~ Fault
    BY DEF Fault
<1> QED
    BY <1>0, <1>1, <1>2, <1>3, <1>4, <1>6, <1>8, <1>9, <1>10
    DEF Next, PublishStep, RemoteFailure, Garble, Misanswered, Rot, ReleaseReference, vars

--------------------------------------------------------------------------------
(* The theorems. *)

\* The invariant holds at the start, ...
LEMMA InvInit == Init => IInv
<1> SUFFICES ASSUME Init PROVE IInv
    OBVIOUS
<1>0. /\ (CHOOSE id \in Resources : TRUE) \in Resources
      /\ (CHOOSE content \in Contents : TRUE) \in Contents
    BY ResourcesAssumption, ContentsAssumption
<1>1. TypeOK
    BY <1>0, BoundsAssumption DEF Init, TypeOK, Calls, Outcomes, Parts
<1>2. TokensOK
  <2>1. EachAccounted
    BY DEF Init, EachAccounted
  <2> QED
    BY <2>1, AccountedEach DEF Init, TokensOK, OwnTokens
<1>3. EachHanded
    BY DEF Init, EachHanded, Handed
<1>4. Stored /\ EachFaithful
    BY DEF Init, Stored, EachFaithful, Faithful, Reading
<1> QED
    BY <1>1, <1>2, <1>3, <1>4 DEF IInv

\* ... is kept by every step, ...
LEMMA InvNext == IInv /\ [Next]_vars => IInv'
<1> SUFFICES ASSUME IInv, [Next]_vars PROVE IInv'
    OBVIOUS
<1>1. TypeOK'
    BY TypeNext DEF IInv, TokensOK
<1>2. TokensOK'
    BY TokensNext DEF IInv
<1>3. EachHanded'
    BY HandedNext DEF IInv
<1>4. faults \in Nat /\ (faults' = faults \/ faults' = faults + 1)
  <2>1. faults \in Nat
    BY BoundsAssumption DEF IInv, TypeOK
  <2>2. UNCHANGED faults \/ Fault
    BY DEF Next, ReadStep, PublishStep, Consume, PublishBytes, PublishReference,
       RegisterReference, Stat, Get, GetRange, Read, Leave, BodyRaises, ReadSlice, Lookup,
       PutObject, CommitRow, RemoteFailure, Garble, Misanswered, ReleaseReference, Rot, vars
  <2> QED
    BY <2>1, <2>2 DEF Fault
<1>5. faults' = 0 => faults = 0
    BY <1>4
<1>6. faults' = 0 => Stored' /\ EachFaithful'
    BY <1>5, FaithfulNext DEF IInv, Truthful
<1> QED
    BY <1>1, <1>2, <1>3, <1>6 DEF IInv

\* ... and so holds always.
LEMMA InvAlways == Spec => []IInv
<1> QED
    BY InvInit, InvNext, PTL DEF Spec

\* A call that uses a payload finds it registered: its own is accounted for, and
\* any other is a caller's.
THEOREM StateConsistent == Spec => []Consistent
<1>1. IInv => Consistent
  <2> SUFFICES ASSUME IInv, NEW t \in Threads, NEW token \in call[t].held
               PROVE  token \in Live
    BY DEF IInv, Consistent, HeldIsLive
  <2>1. \E entry \in registry : entry.token = token
    BY AccountedEach DEF IInv, TokensOK, OwnTokens, EachAccounted, TypeOK, Calls
  <2> QED
    BY <2>1 DEF Live
<1> QED
    BY <1>1, InvAlways, PTL

\* The registry holds what callers registered and what running calls hold, but for
\* answers that nobody could read: every other registration has been released, and
\* by its owner.
THEOREM RegistrationsAccounted == Spec => []Accounted
<1>1. IInv => Accounted
    BY DEF IInv, TokensOK
<1> QED
    BY <1>1, InvAlways, PTL

\* A body that ends without an exception was handed a part of the row's content.
THEOREM ReadsVerified == Spec => []ReadIsVerified
<1>1. IInv => ReadIsVerified
    BY DEF IInv, EachHanded, Handed, ReadIsVerified
<1> QED
    BY <1>1, InvAlways, PTL

\* A range has the length that was asked for, and without faults it is the content's.
THEOREM RangesWhole == Spec => []RangeIsWhole
<1>1. IInv => RangeIsWhole
    BY DEF IInv, EachHanded, Handed, EachFaithful, Faithful, RangeIsWhole
<1> QED
    BY <1>1, InvAlways, PTL

\* Without faults, whoever has a row finds its Object, and reads it.
THEOREM PublishedFound == Spec => []FindsPublished
<1>1. IInv => FindsPublished
  <2> SUFFICES ASSUME IInv PROVE FindsPublished
    OBVIOUS
  <2>1. faults # 0 => faults >= 1
    BY BoundsAssumption DEF IInv, TypeOK
  <2> QED
    BY <2>1 DEF IInv, Stored, EachFaithful, Faithful, FindsPublished
<1> QED
    BY <1>1, InvAlways, PTL
================================================================================
