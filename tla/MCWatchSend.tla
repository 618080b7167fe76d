---------------------------- MODULE MCWatchSend ----------------------------
(***************************************************************************)
(* Instances of WatchSend for TLC.                                         *)
(***************************************************************************)
EXTENDS WatchSend, TLC

CONSTANTS c1, c2
MCChats == {c1, c2}
MCSymmetry == Permutations(MCChats)

ASSUME SendConstants == ConstantsAssumption
=============================================================================
