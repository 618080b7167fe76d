---------------------------- MODULE SendContract ----------------------------
(***************************************************************************)
(* What backend-tdlib promises backend-api about one send operation, as    *)
(* seen through POST /messages, the status lookup and the update journal.  *)
(* TdSend implements it for every operation; ApiSend relies on it.         *)
(***************************************************************************)
EXTENDS Naturals

VARIABLES
  stage,    \* what a lookup finds: nothing yet, open, a verdict, nothing any more
  fate,     \* whether Telegram may still deliver the message, has, or never will
  journal   \* the states of the operation the journal of this session holds

contractVars == <<stage, fate, journal>>

Verdicts == {"sent", "failed"}

ContractTypeOK == /\ stage \in {"unposted", "open", "lost"} \cup Verdicts
                  /\ fate \in {"live", "delivered", "dead"}
                  /\ journal \subseteq {"pending"} \cup Verdicts

ContractInit == stage = "unposted" /\ fate = "live" /\ journal = {}

\* The service takes the operation on.
Accept == stage = "unposted" /\ stage' = "open" /\ UNCHANGED <<fate, journal>>

\* The service refuses it: no fence, a conflict, an unknown chat, a full table.
Reject == stage = "unposted" /\ stage' = "lost" /\ fate' = "dead" /\ UNCHANGED journal

\* Telegram delivers the message, or it is certain that it never will.
Decide == /\ stage # "unposted"
          /\ fate = "live"
          /\ fate' \in {"delivered", "dead"}
          /\ UNCHANGED <<stage, journal>>

\* A send_changed event says that the message is on its way.
Progress == /\ stage \in {"open", "lost"}
            /\ journal' = journal \cup {"pending"}
            /\ UNCHANGED <<stage, fate>>

\* The operation is settled truthfully and the verdict published.  A lookup of
\* a later authorization generation does not see it (stage "lost").
Settle(verdict) ==
  /\ stage \in {"open", "lost"}
  /\ stage' = IF stage = "open" THEN verdict ELSE stage
  /\ IF verdict = "sent" THEN fate = "delivered" ELSE fate # "delivered"
  /\ fate' = IF verdict = "sent" THEN "delivered" ELSE "dead"
  /\ journal' = journal \cup {verdict}

\* The operation is forgotten: its session ended, its authorization generation
\* was superseded, or its retention ran out.  A crash also ends what was still
\* on its way to TDLib.
Forget == /\ stage # "unposted"
          /\ stage' = "lost"
          /\ journal' \in {journal, {}}
          /\ \/ UNCHANGED fate
             \/ fate = "live" /\ fate' = "dead"

ContractNext == \/ Accept \/ Reject \/ Decide \/ Progress \/ Forget
                \/ \E verdict \in Verdicts : Settle(verdict)

ContractSpec == ContractInit /\ [][ContractNext]_contractVars
=============================================================================
