------------------------------ MODULE MCSends ------------------------------
(***************************************************************************)
(* A send at backend-api (ApiSend), in the runtime (TdSend) and on the     *)
(* phone (PhoneSend).  They are checked side by side: "part" says which    *)
(* one a behaviour is about; backend-api then stays where it starts, and   *)
(* the variables of the runtime or the phone are Off.                      *)
(***************************************************************************)
EXTENDS MCApiSend

CONSTANTS Ops, o1, o2, Requests, r1, r2, ReqOp, ReqReply, SendingIds, MessageIds, Limit, MaxEpoch, MaxAuth, None,
          Attempts, WatchRequests, Calls, MaxKeys, PostAttempts

\* Two operations share the account; the second is not a reply.
PairOp == (r1 :> o1) @@ (r2 :> o2)
PairReply == (r1 :> TRUE) @@ (r2 :> FALSE)

VARIABLES part,
          phase, client, epoch, auth, known, sends, sending_ids, send_messages, old, events, handler, messages,
          draft, entries, stored, calls, watch, server, keys

runtimeVars == <<phase, client, epoch, auth, known, sends, sending_ids, send_messages, old, events, handler, messages>>
phoneVars == <<draft, entries, stored, calls, watch, server, keys>>

Runtime == INSTANCE TdSend WITH journal <- events
Phone == INSTANCE PhoneSend WITH Requests <- WatchRequests
ASSUME PhoneConstants == Phone!PhoneAssumption

Off == 0
RuntimeOff == /\ phase = Off /\ client = Off /\ epoch = Off /\ auth = Off /\ known = Off /\ sends = Off /\ old = Off
              /\ sending_ids = Off /\ send_messages = Off /\ events = Off /\ handler = Off /\ messages = Off
PhoneOff == /\ draft = Off /\ entries = Off /\ stored = Off /\ calls = Off
            /\ watch = Off /\ server = Off /\ keys = Off

SendsInit == /\ Init
             /\ \/ part = "api" /\ RuntimeOff /\ PhoneOff
                \/ part = "runtime" /\ Runtime!Init /\ PhoneOff
                \/ part = "phone" /\ RuntimeOff /\ Phone!Init
SendsNext == \/ part = "api" /\ Next /\ UNCHANGED <<part, runtimeVars, phoneVars>>
             \/ part = "runtime" /\ Runtime!Next /\ UNCHANGED <<part, vars, phoneVars>>
             \/ part = "phone" /\ Phone!Next /\ UNCHANGED <<part, vars, runtimeVars>>
SendsSpec == SendsInit /\ [][SendsNext]_<<part, vars, runtimeVars, phoneVars>>

\* The ids TDLib and the runtime draw are interchangeable, and so are the
\* requests and the call slots of the phone.
SendsSymmetric == Symmetric \cup Permutations(SendingIds) \cup Permutations(MessageIds)
                            \cup Permutations(WatchRequests) \cup Permutations(Calls)

-----------------------------------------------------------------------------
(* The properties of TdSend and PhoneSend, which say what they mean.       *)

\* The tables of the runtime agree: an id leads to the operation that holds it.
TablesSound == part = "runtime" => Runtime!TablesSound

\* A verdict of the runtime is what became of the message.
Truthful == part = "runtime" => Runtime!Truthful

\* The phone answers once, dispatches one message at a time with the call that ends
\* it under way, and stores every open send.
JournalSound == part = "phone" => Phone!JournalSound

\* The phone shows "sent" only for a delivered message.
SentIsDelivered == part = "phone" => Phone!SentIsDelivered

\* While the phone remembers an attempt, its idempotency key stays.
KeyStays == [][part = "phone" => Phone!KeysKept]_phoneVars
=============================================================================
