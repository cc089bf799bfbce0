------------------------------- MODULE WriteOnce -------------------------------
(***************************************************************************)
(* What publication and deprecation promise: under each key, one register  *)
(* that is written at most once, and calls that take effect in one step    *)
(* between invocation and answer.                                          *)
(*                                                                         *)
(* The public contract states it twice: "namespace plus kind plus name     *)
(* plus version plus digest is immutable" (the value is what was           *)
(* published), and deprecation is one-way (the value is a mark).           *)
(*                                                                         *)
(* "stored" means the register holds the call's value, by this call or by  *)
(* an equal one; "declined" means this call has not written it.  Only      *)
(* after a disturbance (a failed or lost remote call, a crash) may an      *)
(* answer be "unknown".                                                    *)
(***************************************************************************)
EXTENDS Naturals

CONSTANTS Clients, Keys, Values, MaxDisturbances

VARIABLES
    holds,         \* holds[k]: {} or the one value written under k
    op,            \* op[c]: the call of client c
    disturbances

vars == <<holds, op, disturbances>>

Answers == {"stored", "declined", "unknown"}

\* A call "in doubt" has taken effect, and its answer was lost on the way.
Phases == {"new", "pending", "in doubt"} \union Answers

Ops == [key : Keys, value : Values, phase : Phases]

Init ==
    /\ holds = [k \in Keys |-> {}]
    /\ op \in [Clients -> {o \in Ops : o.phase = "new"}]
    /\ disturbances = 0

Running(c) == op[c].phase \in {"pending", "in doubt"}

Answer(c, answer) == op' = [op EXCEPT ![c].phase = answer]

Write(c) ==
    /\ holds[op[c].key] \subseteq {op[c].value}
    /\ holds' = [holds EXCEPT ![op[c].key] = {op[c].value}]

Invoke(c) ==
    /\ ~ Running(c)
    /\ \E o \in Ops : o.phase = "pending" /\ op' = [op EXCEPT ![c] = o]
    /\ UNCHANGED <<holds, disturbances>>

\* A call may be declined before it asks for anything.
InvokeDeclined(c) ==
    /\ ~ Running(c)
    /\ \E o \in Ops : o.phase = "declined" /\ op' = [op EXCEPT ![c] = o]
    /\ UNCHANGED <<holds, disturbances>>

Store(c) ==
    /\ Running(c)
    /\ Write(c)
    /\ Answer(c, "stored")
    /\ UNCHANGED disturbances

Decline(c) ==
    /\ op[c].phase = "pending"
    /\ Answer(c, "declined")
    /\ UNCHANGED <<holds, disturbances>>

Fail(c) ==
    /\ Running(c) /\ disturbances > 0
    /\ Answer(c, "unknown")
    /\ UNCHANGED <<holds, disturbances>>

Disturb(c) ==
    /\ disturbances < MaxDisturbances /\ disturbances' = disturbances + 1
    /\ Running(c)
    /\ \/ Write(c) /\ (Answer(c, "unknown") \/ Answer(c, "in doubt"))
       \/ /\ UNCHANGED holds
          /\ \/ UNCHANGED op
             \/ Answer(c, "unknown")
             \/ op[c].phase = "pending" /\ Answer(c, "declined")

\* A disturbance of somebody who writes no register.
DisturbOther ==
    /\ disturbances < MaxDisturbances /\ disturbances' = disturbances + 1
    /\ UNCHANGED <<holds, op>>

Next ==
    \/ \E c \in Clients : \/ Invoke(c) \/ InvokeDeclined(c) \/ Store(c)
                          \/ Decline(c) \/ Fail(c) \/ Disturb(c)
    \/ DisturbOther

Spec == Init /\ [][Next]_vars
================================================================================
