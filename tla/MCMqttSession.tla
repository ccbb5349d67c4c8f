---------------------------- MODULE MCMqttSession ----------------------------
(* Small instances of MqttSession for TLC. *)
EXTENDS MqttSession, TLC

\* Sets of calls the users of an instance make.
PublishCalls == {"Publish1"}
MixedCalls == {"Publish0", "Publish1", "Subscribe", "Unsubscribe"}
SubscribeCalls == {"Subscribe"}

\* User threads and topics are interchangeable.
Symmetry == Permutations(Users) \cup Permutations(Topics)
=============================================================================
