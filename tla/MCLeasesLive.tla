---------------------------- MODULE MCLeasesLive ----------------------------
(***************************************************************************)
(* The two background threads of the runtime: the worker that opens and    *)
(* closes chats, and the one that refreshes the read model.  They share no *)
(* state: "part" says which one a behaviour is about, and the other stays  *)
(* where it starts, where none of its fair actions is enabled.             *)
(***************************************************************************)
EXTENDS MCInterestLeases

CONSTANTS RefreshAccounts, Reads, QueueLimit, MaxJobs

VARIABLES part, queues, turns, keys, running
refreshVars == <<queues, turns, keys, running>>

Queue == INSTANCE RefreshQueue WITH Accounts <- RefreshAccounts, MaxQueue <- MaxJobs, rotation <- turns
ASSUME QueueConstants == Queue!ConstantsAssumption

LiveInit == part \in {"leases", "refresh"} /\ Init /\ Queue!Init
LiveNext == /\ UNCHANGED part
            /\ \/ part = "leases" /\ Next /\ UNCHANGED refreshVars
               \/ part = "refresh" /\ Queue!Next /\ UNCHANGED vars
LiveSpec == LiveInit /\ [][LiveNext]_<<part, vars, refreshVars>> /\ Fairness /\ Queue!Fairness

\* Queues, rotation and keys of the refresh thread agree.
QueuesAgree == Queue!QueuesAgree

\* A pending refresh is done or cancelled, whatever the other accounts ask for.
\* Accounts and reads are interchangeable: one job stands for them all.
RefreshDone == Queue!JobDone("a", 1)
=============================================================================
