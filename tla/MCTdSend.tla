------------------------------ MODULE MCTdSend ------------------------------
(***************************************************************************)
(* Instances of TdSend for TLC.                                            *)
(***************************************************************************)
EXTENDS TdSend, TLC

CONSTANTS o1, o2, r1, r2

\* Two requests race for one operation.
RaceOp == (r1 :> o1) @@ (r2 :> o1)
RaceReply == (r1 :> TRUE) @@ (r2 :> TRUE)

\* Two operations share the account; the second is not a reply.
PairOp == (r1 :> o1) @@ (r2 :> o2)
PairReply == (r1 :> TRUE) @@ (r2 :> FALSE)
=============================================================================
