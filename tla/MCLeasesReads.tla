---------------------------- MODULE MCLeasesReads ----------------------------
(***************************************************************************)
(* What clients make the runtime do for a chat: keep it open while it is   *)
(* looked at (InterestLeases) and read its messages (ReadModel).  The two  *)
(* share no state and are checked side by side: "part" says which one a    *)
(* behaviour is about, and the other stays where it starts.                *)
(***************************************************************************)
EXTENDS MCInterestLeases

CONSTANTS Ids, Stored, Local, Clients, PageLimit, BatchLimit, Retained, PerChat, QueueLimit,
          MaxVersion, MaxSequence, MaxEpoch

VARIABLES part, td, model, jobs, calls, refresher, clients
readVars == <<td, model, jobs, calls, refresher, clients>>

Reads == INSTANCE ReadModel WITH account <- model, queue <- jobs, worker <- refresher
ASSUME ReadConstants == Reads!ConstantsAssumption

BothInit == part \in {"leases", "reads"} /\ Init /\ Reads!Init
BothNext == /\ UNCHANGED part
            /\ \/ part = "leases" /\ Next /\ UNCHANGED readVars
               \/ part = "reads" /\ Reads!Next /\ UNCHANGED vars
BothSpec == BothInit /\ [][BothNext]_<<part, vars, readVars>>

-----------------------------------------------------------------------------
(* The properties of ReadModel, which says what they mean.                 *)

\* A message in the cache is TDLib's current one, and the tables keep their limits.
CacheFresh == part = "reads" => Reads!TypeOK /\ Reads!CacheFresh

\* Every change of a message a client holds reaches the client.
ClientMissesNothing == part = "reads" => Reads!ClientMissesNothing
=============================================================================
