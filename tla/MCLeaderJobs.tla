---------------------------- MODULE MCLeaderJobs ----------------------------
(* Instances of LeaderJobs for TLC.  Retry 5 s, deadline 20 s and duration  *)
(* 30 s are 1, 4 and 6 ticks.                                               *)
EXTENDS LeaderJobs

CONSTANTS p1, p2, p3

=============================================================================
