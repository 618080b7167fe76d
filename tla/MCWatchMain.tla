---------------------------- MODULE MCWatchMain ----------------------------
(***************************************************************************)
(* What every window of the watch rests on: the way from the start to an   *)
(* open chat (WatchMain), and the requests (RequestLayer).  They are       *)
(* checked side by side: "part" says which one a behaviour is about, and   *)
(* the other stays where it starts.                                        *)
(***************************************************************************)
EXTENDS RequestLayer

CONSTANTS a1, a2, NoAccount, Defaults, Listings, NumChats, PageLimit, ChatCapacity,
          ConnectingInterval, ConnectingLimit, UpdatingInterval, UpdatingStep, UpdatingLimit

\* The listings a bootstrap returns: none, one account, or two with the other
\* one first, which then has the same index.
TwoAccounts == {<<>>, <<[id |-> a2, ready |-> TRUE]>>,
                <<[id |-> a1, ready |-> TRUE], [id |-> a2, ready |-> FALSE]>>}

\* A SEND is sent again when it times out; nobody waits for a VIEW_CLOSE.
MCKinds == {[resend |-> TRUE, max |-> 2, timeout |-> 1, owned |-> TRUE],
            [resend |-> FALSE, max |-> 1, timeout |-> 1, owned |-> FALSE]}

VARIABLES part, w, cursor
mainVars == <<w, cursor>>

Main == INSTANCE WatchMain
ASSUME WatchConstants == ConstantsAssumption /\ Main!ConstantsAssumption

WatchInit == /\ tb_requests_init
             /\ \/ part = "main" /\ Main!Init
                \/ part = "layer" /\ w = Main!tb_session_start(Main!started, TRUE, TRUE) /\ cursor = Main!NoCursor
WatchNext == \/ part = "main" /\ Main!Next /\ UNCHANGED <<part, vars>>
             \/ part = "layer" /\ Next /\ UNCHANGED <<part, mainVars>>
WatchSpec == WatchInit /\ [][WatchNext]_<<part, vars, mainVars>>

-----------------------------------------------------------------------------
(* The properties of WatchMain, which says what they mean.                 *)

\* The windows are typed and about one listed account, and a list at its end is
\* complete.
WindowsAgree == part = "main" => Main!WindowsAgree

\* No window leaves the user waiting for something that will not come.
NeverStuck == part = "main" => Main!NeverStuck
=============================================================================
