-------------------------- MODULE RequestContract --------------------------
(***************************************************************************)
(* What the request layer of the watch promises to the controllers that    *)
(* submit through it: a request that was accepted is answered by chunks    *)
(* 0, 1, 2 ... in that order, then ends exactly once, and nothing is       *)
(* reported about it afterwards.                                           *)
(***************************************************************************)
EXTENDS Integers

CONSTANT Sequences

VARIABLE heard     \* sequence |-> chunks reported so far, or Closed

Closed == -1

Init == heard = [s \in Sequences |-> Closed]

Accept(s) ==
    /\ heard[s] = Closed
    /\ heard' = [heard EXCEPT ![s] = 0]

Chunk(s) ==
    /\ heard[s] # Closed
    /\ heard' = [heard EXCEPT ![s] = @ + 1]

End(s) ==
    /\ heard[s] # Closed
    /\ heard' = [heard EXCEPT ![s] = Closed]

Next == \E s \in Sequences : Accept(s) \/ Chunk(s) \/ End(s)

Spec == Init /\ [][Next]_heard
=============================================================================
