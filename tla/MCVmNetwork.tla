----------------------------- MODULE MCVmNetwork -----------------------------
(* Two workers, two devices, three runs.  The workers are the two of a      *)
(* larger pool between whose addresses the last byte wraps.                 *)
EXTENDS VmNetwork

CONSTANTS eth0, eth1

TwoIds == {63, 64}
TwoNics == {eth0, eth1}
===============================================================================
