---------------------------- MODULE MCLeaderElection ----------------------------
(* Constants of LeaderElection for TLC. *)
EXTENDS LeaderElection, MCDriftCheckController

AccessOnly == {"none", "noAccess"}

=============================================================================
