----------------------------- MODULE MCSendLive -----------------------------
(***************************************************************************)
(* The liveness of a send, in the runtime and on the phone.  The two share *)
(* no state: "part" says which one a behaviour is about, and the other     *)
(* stays where it starts, where none of its fair actions is enabled.       *)
(***************************************************************************)
EXTENDS MCTdSend

CONSTANTS Attempts, WatchRequests, Calls, MaxKeys, PostAttempts

VARIABLES part, draft, entries, stored, calls, watch, server, keys
phoneVars == <<draft, entries, stored, calls, watch, server, keys>>

Phone == INSTANCE PhoneSend WITH Requests <- WatchRequests
ASSUME PhoneConstants == Phone!PhoneAssumption

LiveInit == part \in {"runtime", "phone"} /\ Init /\ Phone!Init
LiveNext == \/ part = "runtime" /\ Next /\ UNCHANGED <<part, phoneVars>>
            \/ part = "phone" /\ Phone!Next /\ UNCHANGED <<part, vars>>
LiveSpec == LiveInit /\ [][LiveNext]_<<part, vars, phoneVars>> /\ Fairness /\ Phone!Fairness

\* Every request the watch hears of is answered by the phone, unless the phone
\* side is restarted.
WatchIsAnswered == Phone!EveryRequestAnswered
=============================================================================
