----------------------------- MODULE MCMqttShared -----------------------------
(***************************************************************************)
(* Two instances of MqttSession in one run: users that share a client, and *)
(* one user alone whose publishes are more than there are identifiers, so  *)
(* that the third meets the first again, which may still be pending.       *)
(***************************************************************************)
EXTENDS MCMqttSession

VARIABLE actors  \* the users who make calls

Wrapping == INSTANCE MqttSession WITH
    kMaxTxQueue <- 3, MaxPacketId <- 2,
    MaxCalls <- 3, MaxStarts <- 1, MaxFaults <- 1

sharedVars == <<actors, vars>>

SharedInit == Init /\ actors \in {Users} \cup {{u} : u \in Users}

Together == actors = Users /\ Next /\ UNCHANGED actors
Alone ==
    /\ actors # Users
    /\ Wrapping!Next
    /\ \A u \in Users \ actors : upc'[u] = upc[u]
    /\ UNCHANGED actors

SharedNext == Together \/ Alone

SharedSpec == SharedInit /\ [][SharedNext]_sharedVars
===============================================================================
