------------------------------- MODULE ChannelsMC -------------------------------
(* Instances of Channels for TLC. *)
EXTENDS Channels, TLC

CONSTANTS r1, r2, family1, family2

OneFamily == [id \in Resources |-> family1]

\* One version in each family.
TwoFamilies == [id \in Resources |-> IF id = r1 THEN family1 ELSE family2]

AllAsks == Ask
ByIdentity == { [form |-> "identity", wanted |-> "ANY"] }
BySnapshot == { [form |-> "snapshot", wanted |-> "ANY"] }
================================================================================
