---------------------------- MODULE MCVmCapture ----------------------------
(* Instances of VmCapture for TLC: a1 is a capture of the VM v1.              *)
EXTENDS VmCapture

CONSTANTS v1, v2, v3, a1

MCVmOf == [c \in Captures |-> v1]
=============================================================================
