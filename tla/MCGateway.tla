------------------------------- MODULE MCGateway -------------------------------
(* Instances of Gateway for TLC. *)
EXTENDS Gateway

BothChannels == {"mqtt", "cmd"}
OneChannel == {"cmd"}
LinkCommands == {"inject_fault", "recover"}
FaultCommands == {"inject_fault"}
EveryCommand == AllCommands
NoWritePoints == {}
=============================================================================
