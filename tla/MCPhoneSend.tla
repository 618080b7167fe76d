---------------------------- MODULE MCPhoneSend ----------------------------
(***************************************************************************)
(* Instances of PhoneSend for TLC.                                         *)
(***************************************************************************)
EXTENDS PhoneSend, TLC

\* Watch requests and call slots are interchangeable.
Symmetric == Permutations(Requests) \cup Permutations(Calls)
=============================================================================
