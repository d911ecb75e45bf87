---------------------------- MODULE MCBaotaSync ----------------------------
(* Instances of BaotaSync for TLC.                                          *)
EXTENDS BaotaSync

CONSTANTS d1, d2, leader, other

=============================================================================
