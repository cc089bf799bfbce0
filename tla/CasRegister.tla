------------------------------ MODULE CasRegister ------------------------------
(***************************************************************************)
(* What a channel promises: one compare-and-set register per channel, as   *)
(* the public contract ("channel promotion requires compare-and-set        *)
(* pointer versions") and the class comment of ChannelRepository           *)
(* ("append-only, linearizable pointer rows") state it.                    *)
(*                                                                         *)
(* A call takes effect in one step between its invocation and its answer.  *)
(* "swapped" means the register was at the expected version and holds the  *)
(* call's value at the next one; "refused" means it was at another         *)
(* version; "declined" means the call never reached the register.  Only a  *)
(* disturbance (a failed or lost remote call, a crash) may leave a call    *)
(* with an answer that does not tell whether it took effect.               *)
(***************************************************************************)
EXTENDS Naturals

CONSTANTS Clients, Keys, Values, MaxVersion, MaxDisturbances

VARIABLES
    version,       \* version[k]: 0 before the first swap
    value,         \* value[k]: what k holds, {} before the first swap
    op,            \* op[c]: the call of client c
    disturbances

vars == <<version, value, op, disturbances>>

Answers == {"none", "swapped", "refused", "declined", "unknown"}

Ops == [pending : BOOLEAN, key : Keys, expected : 0 .. MaxVersion,
        value : Values, answer : Answers]

Init ==
    /\ version = [k \in Keys |-> 0]
    /\ value = [k \in Keys |-> {}]
    /\ op \in [Clients -> {o \in Ops : ~ o.pending /\ o.answer = "none"}]
    /\ disturbances = 0

Invoke(c) ==
    /\ ~ op[c].pending
    /\ \E o \in Ops : /\ o.pending /\ o.answer = "none"
                      /\ op' = [op EXCEPT ![c] = o]
    /\ UNCHANGED <<version, value, disturbances>>

Answer(c, answer) ==
    /\ op[c].pending
    /\ op' = [op EXCEPT ![c].pending = FALSE, ![c].answer = answer]

Matches(c) == version[op[c].key] = op[c].expected

SetRegister(c) ==
    /\ Matches(c)
    /\ version' = [version EXCEPT ![op[c].key] = op[c].expected + 1]
    /\ value' = [value EXCEPT ![op[c].key] = {op[c].value}]

Swap(c) ==
    /\ Answer(c, "swapped")
    /\ SetRegister(c)
    /\ UNCHANGED disturbances

Refuse(c) ==
    /\ Answer(c, "refused")
    /\ ~ Matches(c)
    /\ UNCHANGED <<version, value, disturbances>>

Decline(c) ==
    /\ Answer(c, "declined")
    /\ UNCHANGED <<version, value, disturbances>>

Disturb(c) ==
    /\ disturbances < MaxDisturbances /\ disturbances' = disturbances + 1
    /\ Answer(c, "refused") \/ Answer(c, "unknown")
    /\ SetRegister(c) \/ UNCHANGED <<version, value>>

\* A disturbance of somebody who only reads the register.
DisturbReader ==
    /\ disturbances < MaxDisturbances /\ disturbances' = disturbances + 1
    /\ UNCHANGED <<version, value, op>>

Next == \/ \E c \in Clients : \/ Invoke(c) \/ Swap(c) \/ Refuse(c)
                              \/ Decline(c) \/ Disturb(c)
        \/ DisturbReader

Spec == Init /\ [][Next]_vars
================================================================================
