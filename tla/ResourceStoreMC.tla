---------------------------- MODULE ResourceStoreMC ----------------------------
(* Instances of ResourceStore for TLC. *)
EXTENDS ResourceStore, TLC

CONSTANTS r1, family1

OneFamily == [id \in Resources |-> family1]
BySnapshot == [form : {"snapshot"}, wanted : Profiles]

================================================================================
