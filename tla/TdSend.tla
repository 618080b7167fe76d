------------------------------- MODULE TdSend -------------------------------
(***************************************************************************)
(* The send operations of one Telegram account inside backend-tdlib:       *)
(* MessageSendService (message_send_service.cpp) with the part of the      *)
(* request broker, of the receive thread and of the session lifecycle it   *)
(* depends on.                                                             *)
(*                                                                         *)
(* A request is one HTTP handler thread that runs MessageSendService::send *)
(* for an operation.  The handler holds the runtime mutex only inside the  *)
(* steps modelled as single actions; between them the receive thread, the  *)
(* other handlers, TDLib and the session lifecycle take steps of their     *)
(* own.  TDLib itself is external: it accepts or refuses a sendMessage,    *)
(* announces the temporary message, and reports its fate later.            *)
(*                                                                         *)
(* One chat is modelled, so the {chat, message} key of send_messages is    *)
(* the temporary message alone.                                            *)
(***************************************************************************)
EXTENDS Naturals, FiniteSets

CONSTANTS Ops,         \* operation ids, chosen by backend-api
          Requests,    \* HTTP requests that carry them
          ReqOp,       \* the operation of a request
          ReqReply,    \* whether a request names a message to reply to
          SendingIds,  \* values new_sending_id may draw
          MessageIds,  \* temporary message ids TDLib may give out
          Limit,       \* operations_per_account
          MaxEpoch,    \* bound: sessions explored
          MaxAuth,     \* bound: authorization generations explored
          None         \* no operation / no message

ASSUME RequestAssumption == /\ ReqOp \in [Requests -> Ops]
                            /\ ReqReply \in [Requests -> BOOLEAN]
ASSUME NoneAssumption == /\ None \notin Ops
                         /\ None \notin SendingIds
                         /\ None \notin MessageIds
ASSUME BoundAssumption == /\ Limit \in Nat
                          /\ MaxEpoch \in Nat
                          /\ MaxAuth \in Nat \ {0}

VARIABLES
  phase,          \* what read_fence and the TDLib session allow
  client,         \* account.client_id, 0 when there is none
  epoch,          \* account.runtime_epoch
  auth,           \* account.authorization_generation
  known,          \* the chat has a projection in account.chats
  sends,          \* account.sends
  sending_ids,    \* account.sending_ids
  send_messages,  \* account.send_messages
  old,            \* operations whose retention has run out
  journal,        \* send_changed events of this session
  handler,        \* the HTTP handler threads
  messages        \* the temporary messages TDLib has created

accountVars == <<phase, client, epoch, auth, known>>
tableVars == <<sends, sending_ids, send_messages, old, journal>>
vars == <<accountVars, tableVars, handler, messages>>

(***************************************************************************)
(* Types.                                                                  *)
(***************************************************************************)
Settled == {"sent", "failed"}
Absent == [state |-> "absent", sid |-> None, temp |-> None, epoch |-> 0,
           auth |-> 0, retryable |-> FALSE, reply |-> FALSE]
Operation == [state : {"absent", "preparing", "dispatching", "pending"} \cup Settled,
              sid : SendingIds \cup {None}, temp : MessageIds \cup {None},
              epoch : 0..MaxEpoch, auth : 0..MaxAuth,
              retryable : BOOLEAN, reply : BOOLEAN]

\* A handler: where it is, the client and sending id it captured under the
\* lock, what became of its sendMessage in TDLib, the message that carries it,
\* the broker's answer, and the reply sent to backend-api.
Handler == [pc : {"idle", "lookup", "claim", "begin", "await", "answered",
                  "waiting", "done"},
            client : 0..MaxEpoch, sid : SendingIds \cup {None},
            td : {"none", "queued", "accepted", "immediate", "refused"},
            msg : MessageIds \cup {None},
            answer : {"none", "pending", "final", "error", "busy", "timeout"},
            reply : {"none", "refused", "unknown", "pending", "lost"} \cup Settled]
Idle == [pc |-> "idle", client |-> 0, sid |-> None, td |-> "none", msg |-> None,
         answer |-> "none", reply |-> "none"]

\* A temporary message: its operation and sending id, the client it was sent
\* through, what Telegram decided, and how much of it the receive thread saw.
Message == [op : Ops \cup {None}, sid : SendingIds \cup {None}, client : 0..MaxEpoch,
            fate : {"none", "open", "delivered", "refused"},
            seen : {"none", "new", "announced", "reported"}]
Unused == [op |-> None, sid |-> None, client |-> 0, fate |-> "none", seen |-> "none"]

TypeOK == /\ phase \in {"ready", "stalled", "fenced", "leaving", "closed"}
          /\ client \in 0..MaxEpoch
          /\ epoch \in 0..MaxEpoch
          /\ auth \in 0..MaxAuth
          /\ known \in BOOLEAN
          /\ sends \in [Ops -> Operation]
          /\ sending_ids \in [SendingIds -> Ops \cup {None}]
          /\ send_messages \in [MessageIds -> Ops \cup {None}]
          /\ old \subseteq Ops
          /\ journal \subseteq Ops \X ({"pending"} \cup Settled)
          /\ handler \in [Requests -> Handler]
          /\ messages \in [MessageIds -> Message]

Init == /\ phase = "closed" /\ client = 0 /\ epoch = 0 /\ auth = 1 /\ known = FALSE
        /\ sends = [o \in Ops |-> Absent]
        /\ sending_ids = [s \in SendingIds |-> None]
        /\ send_messages = [m \in MessageIds |-> None]
        /\ old = {} /\ journal = {}
        /\ handler = [r \in Requests |-> Idle]
        /\ messages = [m \in MessageIds |-> Unused]

(***************************************************************************)
(* The operation table.                                                    *)
(***************************************************************************)
Present(o) == sends[o].state # "absent"
PublicState(state) == IF state \in Settled THEN state ELSE "pending"

\* What lookup answers for an operation.
Lookup(o) == IF ~Present(o) \/ sends[o].epoch # epoch \/ sends[o].auth # auth
             THEN "not_found"
             ELSE PublicState(sends[o].state)

\* Mutants of finish: no event; the sending id stays taken.
FinishSilently(o, retryable) ==
  /\ sends' = [sends EXCEPT ![o].state = IF @ \in {"absent"} \cup Settled THEN @ ELSE "failed"]
  /\ sending_ids' = [s \in SendingIds |-> IF sending_ids[s] = o THEN None ELSE sending_ids[s]]
  /\ UNCHANGED <<old, journal>>
FinishKeepingId(o, retryable) ==
  IF ~Present(o) \/ sends[o].state \in Settled
  THEN UNCHANGED <<sends, sending_ids, old, journal>>
  ELSE /\ sends' = [sends EXCEPT ![o].state = "failed", ![o].retryable = retryable]
       /\ journal' = journal \cup {<<o, "failed">>}
       /\ UNCHANGED <<sending_ids, old>>

\* finish: an operation that is present and not settled becomes failed, its
\* sending id is released and the event published; send_messages is left alone.
Finish(o, retryable) ==
  IF ~Present(o) \/ sends[o].state \in Settled
  THEN UNCHANGED <<sends, sending_ids, old, journal>>
  ELSE /\ sends' = [sends EXCEPT ![o].state = "failed", ![o].retryable = retryable]
       /\ sending_ids' = [sending_ids EXCEPT ![sends[o].sid] = None]
       /\ old' = old \ {o}
       /\ journal' = journal \cup {<<o, "failed">>}

\* The operation reaches "sent".
MarkSent(o) ==
  /\ sends' = [sends EXCEPT ![o].state = "sent"]
  /\ sending_ids' = [sending_ids EXCEPT ![sends[o].sid] = None]
  /\ old' = old \ {o}
  /\ journal' = journal \cup {<<o, "sent">>}

\* Mutant of Bind: the message is not indexed.
BindUnindexed(o, m, from) ==
  /\ sends' = [sends EXCEPT ![o].temp = m, ![o].state = IF @ \in from THEN "pending" ELSE @]
  /\ journal' = IF sends[o].state \in from THEN journal \cup {<<o, "pending">>} ELSE journal
  /\ UNCHANGED send_messages

\* A message with a sending state is met: the first one is bound to the
\* operation, which becomes pending if it was in one of the states "from".
Bind(o, m, from) ==
  LET binds == sends[o].temp = None
      bound == IF binds THEN [sends EXCEPT ![o].temp = m] ELSE sends
  IN /\ send_messages' = IF binds THEN [send_messages EXCEPT ![m] = o] ELSE send_messages
     /\ IF sends[o].state \in from
        THEN /\ sends' = [bound EXCEPT ![o].state = "pending"]
             /\ journal' = journal \cup {<<o, "pending">>}
        ELSE sends' = bound /\ UNCHANGED journal

\* reset_session, as far as sends are concerned.
ResetTables == /\ sends' = [o \in Ops |-> Absent]
               /\ sending_ids' = [s \in SendingIds |-> None]
               /\ send_messages' = [m \in MessageIds |-> None]
               /\ old' = {}
               /\ journal' = {}
               /\ known' = FALSE

-----------------------------------------------------------------------------
(***************************************************************************)
(* The handler thread.                                                     *)
(***************************************************************************)
Goto(r, step) == handler' = [handler EXCEPT ![r].pc = step]
Refuse(r) == handler' = [handler EXCEPT ![r].pc = "done", ![r].reply = "refused"]

\* Mutant: settled operations are forgotten at once.
PrunedWithSettled == [o \in Ops |-> IF o \in old \/ sends[o].state \in Settled THEN Absent ELSE sends[o]]

\* prune forgets the operations whose retention has run out.
PrunedSends == [o \in Ops |-> IF o \in old THEN Absent ELSE sends[o]]
PrunedIds == [s \in SendingIds |-> IF sending_ids[s] \in old THEN None ELSE sending_ids[s]]
PrunedMessages ==
  [m \in MessageIds |-> IF \E o \in old : sends[o].temp = m THEN None ELSE send_messages[m]]

Remembers(o) == PrunedSends[o].state # "absent"
HasRoom == Cardinality({p \in Ops : PrunedSends[p].state # "absent"}) < Limit

\* backend-api posts an operation once; a repetition is only considered while
\* the table still remembers the operation.
MayPost(r) == \A q \in Requests : ReqOp[q] = ReqOp[r] /\ handler[q].pc # "idle"
                                    => Present(ReqOp[r]) /\ ReqOp[r] \notin old

\* The first critical section of send.  "current": the command carries the
\* account's authorization generation.
Send(r, current) ==
  LET o == ReqOp[r] IN
  /\ handler[r].pc = "idle"
  /\ MayPost(r)
  /\ UNCHANGED <<accountVars, messages, journal>>
  /\ IF phase # "ready" \/ ~current
     THEN Refuse(r) /\ UNCHANGED <<sends, sending_ids, send_messages, old>>
     ELSE /\ send_messages' = PrunedMessages
          /\ old' = {}
          /\ \/ \* the operation exists: wait for its outcome, or refuse another target
                /\ Remembers(o)
                /\ IF PrunedSends[o].reply # ReqReply[r] THEN Refuse(r) ELSE Goto(r, "waiting")
                /\ sends' = PrunedSends
                /\ sending_ids' = PrunedIds
             \/ /\ ~Remembers(o)
                /\ ~known \/ ~HasRoom
                /\ Refuse(r)
                /\ sends' = PrunedSends
                /\ sending_ids' = PrunedIds
             \/ \E s \in {t \in SendingIds : PrunedIds[t] = None} :
                /\ ~Remembers(o)
                /\ known
                /\ HasRoom
                /\ sends' = [PrunedSends EXCEPT ![o] =
                               [Absent EXCEPT !.state = "preparing", !.sid = s, !.epoch = epoch,
                                              !.auth = auth, !.reply = ReqReply[r]]]
                /\ sending_ids' = [PrunedIds EXCEPT ![s] = o]
                /\ handler' = [handler EXCEPT ![r].pc = IF ReqReply[r] THEN "lookup" ELSE "claim",
                                              ![r].client = client, ![r].sid = s]

\* dispatch: getMessage and getMessageProperties of the message replied to.
LookupReply(r) ==
  /\ handler[r].pc = "lookup"
  /\ \/ Goto(r, "claim") /\ UNCHANGED tableVars
     \/ \E retryable \in BOOLEAN : /\ Finish(ReqOp[r], retryable)
                                   /\ Goto(r, "waiting")
                                   /\ UNCHANGED send_messages
  /\ UNCHANGED <<accountVars, messages>>

\* dispatch: the operation must still be preparing to be dispatched.
Claim(r) ==
  LET o == ReqOp[r] IN
  /\ handler[r].pc = "claim"
  /\ IF sends[o].state = "preparing"
     THEN /\ sends' = [sends EXCEPT ![o].state = "dispatching"]
          /\ Goto(r, "begin")
     ELSE /\ Goto(r, "waiting")
          /\ UNCHANGED sends
  /\ UNCHANGED <<accountVars, sending_ids, send_messages, old, journal, messages>>

\* dispatch: begin_request hands sendMessage to TDLib, throws, or answers at
\* once because the broker is full.
Begin(r) ==
  /\ handler[r].pc = "begin"
  /\ \/ /\ handler' = [handler EXCEPT ![r].pc = "await", ![r].td = "queued"]
        /\ UNCHANGED tableVars
     \/ /\ handler' = [handler EXCEPT ![r].pc = "answered", ![r].answer = "busy"]
        /\ UNCHANGED tableVars
     \/ /\ Finish(ReqOp[r], TRUE)
        /\ Goto(r, "waiting")
        /\ UNCHANGED send_messages
  /\ UNCHANGED <<accountVars, messages>>

\* Mutant: a timeout is taken for a refusal.
AwaitTimeoutAsError(r) ==
  /\ handler[r].pc = "await"
  /\ handler' = [handler EXCEPT ![r].pc = "answered", ![r].answer = "error"]
  /\ UNCHANGED <<accountVars, tableVars, messages>>

\* await_request gives up: the answer is 504 and a later response is dropped.
AwaitTimeout(r) ==
  /\ handler[r].pc = "await"
  /\ handler' = [handler EXCEPT ![r].pc = "answered", ![r].answer = "timeout"]
  /\ UNCHANGED <<accountVars, tableVars, messages>>

\* The receive thread completes the request (TdRequestBroker::complete).
Complete(r) ==
  /\ handler[r].pc = "await"
  /\ handler[r].td \in {"accepted", "immediate", "refused"}
  /\ handler' = [handler EXCEPT ![r].pc = "answered",
                   ![r].answer = CASE handler[r].td = "accepted" -> "pending"
                                   [] handler[r].td = "immediate" -> "final"
                                   [] handler[r].td = "refused" -> "error"]
  /\ UNCHANGED <<accountVars, tableVars, messages>>

\* dispatch: the last critical section, applying TDLib's answer.
ApplyAnswer(r) ==
  LET o == ReqOp[r] IN
  /\ handler[r].pc = "answered"
  /\ Goto(r, "waiting")
  /\ UNCHANGED <<accountVars, messages>>
  /\ \/ /\ ~Present(o)
        /\ UNCHANGED tableVars
     \/ /\ Present(o)
        /\ handler[r].answer = "pending"
        /\ Bind(o, handler[r].msg, {"dispatching"})
        /\ UNCHANGED <<sending_ids, old>>
     \/ /\ Present(o)
        /\ handler[r].answer = "final"
        /\ IF sends[o].state = "dispatching"
           THEN MarkSent(o)
           ELSE UNCHANGED <<sends, sending_ids, old, journal>>
        /\ UNCHANGED send_messages
     \/ /\ Present(o)
        /\ handler[r].answer \in {"error", "busy"}
        /\ \E retryable \in (IF handler[r].answer = "busy" THEN {TRUE} ELSE BOOLEAN) :
             Finish(o, retryable)
        /\ UNCHANGED send_messages
     \/ /\ Present(o)
        /\ handler[r].answer = "timeout"
        /\ UNCHANGED tableVars

\* await_outcome: the operation is gone, settled, or the deadline has come.
AwaitOutcome(r) ==
  LET o == ReqOp[r] IN
  /\ handler[r].pc = "waiting"
  /\ handler' = [handler EXCEPT ![r].pc = "done",
                   ![r].reply = IF Present(o) THEN PublicState(sends[o].state) ELSE "unknown"]
  /\ UNCHANGED <<accountVars, tableVars, messages>>

-----------------------------------------------------------------------------
(***************************************************************************)
(* TDLib, external: how src/ uses it.                                      *)
(***************************************************************************)
\* TDLib accepts a sendMessage of the live client and creates the message: a
\* temporary one with a sending state, or one that is final at once, of which
\* no update concerns the send operations.
TdAccept(r) ==
  /\ handler[r].td = "queued"
  /\ handler[r].client = client
  /\ \E m \in MessageIds :
       /\ messages[m].fate = "none"
       /\ \E final \in BOOLEAN :
            /\ messages' = [messages EXCEPT ![m] =
                              [op |-> ReqOp[r], sid |-> handler[r].sid, client |-> client,
                               fate |-> IF final THEN "delivered" ELSE "open",
                               seen |-> IF final THEN "reported" ELSE "new"]]
            /\ handler' = [handler EXCEPT ![r].td = IF final THEN "immediate" ELSE "accepted",
                                          ![r].msg = m]
  /\ UNCHANGED <<accountVars, tableVars>>

\* TDLib answers a sendMessage with an error; the message never existed.
TdRefuse(r) ==
  /\ handler[r].td = "queued"
  /\ handler' = [handler EXCEPT ![r].td = "refused"]
  /\ UNCHANGED <<accountVars, tableVars, messages>>

\* Telegram decides the fate of an accepted message.
TdDecide(m) ==
  /\ messages[m].fate = "open"
  /\ \E fate \in {"delivered", "refused"} : messages' = [messages EXCEPT ![m].fate = fate]
  /\ UNCHANGED <<accountVars, tableVars, handler>>

-----------------------------------------------------------------------------
(***************************************************************************)
(* The receive thread.                                                     *)
(***************************************************************************)
\* updateNewMessage, handled by bind_pending.  The chat has to be known: the
\* handler returns early for a chat without projection.
Announce(m) ==
  LET o == sending_ids[messages[m].sid] IN
  /\ messages[m].seen = "new"
  /\ messages[m].client = client
  /\ messages' = [messages EXCEPT ![m].seen = "announced"]
  /\ IF ~known \/ o = None
     THEN UNCHANGED <<sends, send_messages, journal>>
     ELSE Bind(o, m, {"dispatching", "preparing"})
  /\ UNCHANGED <<accountVars, sending_ids, old, handler>>

\* updateMessageSendSucceeded and updateMessageSendFailed.  A message of an
\* earlier session that TDLib kept in its database is reported as well.
Report(m) ==
  LET o == send_messages[m] IN
  /\ client # 0
  /\ messages[m].fate \in {"delivered", "refused"}
  /\ \/ messages[m].seen = "announced"
     \/ messages[m].seen = "new" /\ messages[m].client # client
  /\ messages' = [messages EXCEPT ![m].seen = "reported"]
  /\ send_messages' = [send_messages EXCEPT ![m] = None]
  /\ \/ /\ o = None
        /\ UNCHANGED <<sends, sending_ids, old, journal>>
     \/ /\ o # None
        /\ messages[m].fate = "delivered"
        /\ IF Present(o) /\ sends[o].state \notin Settled
           THEN MarkSent(o)
           ELSE UNCHANGED <<sends, sending_ids, old, journal>>
     \/ /\ o # None
        /\ messages[m].fate = "refused"
        /\ \E retryable \in BOOLEAN : Finish(o, retryable)
  /\ UNCHANGED <<accountVars, handler>>

-----------------------------------------------------------------------------
(***************************************************************************)
(* The session.                                                            *)
(***************************************************************************)
\* logout and remove fence the account off and reset the session while TDLib
\* is still authorized.
Fence == /\ phase = "ready"
         /\ phase' = "fenced"
         /\ ResetTables
         /\ UNCHANGED <<client, epoch, auth, handler, messages>>

\* A request stayed unanswered past its recovery time: the client is being
\* closed and the account is not reconciled any more.
Stall == /\ phase = "ready"
         /\ phase' = "stalled"
         /\ UNCHANGED <<client, epoch, auth, known, tableVars, handler, messages>>

\* updateAuthorizationState leaves "ready".  Unless TDLib was closed locally,
\* the authorization generation moves on.
LeaveReady == /\ phase \in {"ready", "stalled", "fenced"}
              /\ epoch < MaxEpoch
              /\ phase' = "leaving"
              /\ epoch' = epoch + 1
              /\ \/ auth' = auth
                 \/ auth < MaxAuth /\ auth' = auth + 1
              /\ ResetTables
              /\ UNCHANGED <<client, handler, messages>>

\* authorizationStateClosed.
ClientClosed == /\ phase = "leaving"
                /\ phase' = "closed"
                /\ client' = 0
                /\ UNCHANGED <<epoch, auth, known, tableVars, handler, messages>>

\* activate creates a client and a new epoch; TDLib reports "ready".
Activate == /\ phase = "closed"
            /\ epoch < MaxEpoch
            /\ phase' = "ready"
            /\ epoch' = epoch + 1
            /\ client' = epoch + 1
            /\ UNCHANGED <<auth, known, tableVars, handler, messages>>

\* reconcile raises the authorization generation of a running account.
RaiseAuth == /\ phase = "ready"
             /\ auth < MaxAuth
             /\ auth' = auth + 1
             /\ UNCHANGED <<phase, client, epoch, known, tableVars, handler, messages>>

\* updateNewChat.
NewChat == /\ client # 0
           /\ ~known
           /\ known' = TRUE
           /\ UNCHANGED <<phase, client, epoch, auth, tableVars, handler, messages>>

\* The retention of an operation runs out: 24 hours after it finished, or was
\* created.  By then its handler, bounded by an 8 second deadline, is gone, and
\* TDLib has answered and announced its message: a client that leaves a request
\* unanswered for 22 seconds is closed.
Age(o) == /\ Present(o)
          /\ o \notin old
          /\ \A r \in Requests : ReqOp[r] = o => /\ handler[r].pc \in {"idle", "done"}
                                               /\ handler[r].td # "queued"
          /\ \A m \in MessageIds : messages[m].op = o => messages[m].seen # "new"
          /\ old' = old \cup {o}
          /\ UNCHANGED <<accountVars, sends, sending_ids, send_messages, journal, handler, messages>>

\* The process dies: everything in memory is lost, and so is every reply.
Crash == /\ phase # "closed"
         /\ phase' = "closed"
         /\ client' = 0
         /\ ResetTables
         /\ handler' = [r \in Requests |->
                          IF handler[r].pc \in {"idle", "done"} THEN handler[r]
                          ELSE [handler[r] EXCEPT !.pc = "done", !.reply = "lost",
                                  !.td = IF @ = "queued" THEN "refused" ELSE @]]
         /\ UNCHANGED <<epoch, auth, messages>>

HandlerStep(r) == \/ \E current \in BOOLEAN : Send(r, current)
                  \/ LookupReply(r) \/ Claim(r) \/ Begin(r)
                  \/ AwaitTimeout(r) \/ Complete(r)
                  \/ ApplyAnswer(r) \/ AwaitOutcome(r)

Next == \/ \E r \in Requests : HandlerStep(r) \/ TdAccept(r) \/ TdRefuse(r)
        \/ \E m \in MessageIds : TdDecide(m) \/ Announce(m) \/ Report(m)
        \/ Fence \/ Stall \/ LeaveReady \/ ClientClosed \/ Activate
        \/ RaiseAuth \/ NewChat \/ Crash
        \/ \E o \in Ops : Age(o)

Spec == Init /\ [][Next]_vars
-----------------------------------------------------------------------------
(***************************************************************************)
(* Fairness: handler threads run and their waits have deadlines, the       *)
(* receive thread runs; TDLib decides the fate of what it accepted and     *)
(* sends its updates while the client is alive.                            *)
(***************************************************************************)
Fairness == /\ \A r \in Requests : WF_vars(HandlerStep(r) /\ handler[r].pc # "idle")
            /\ \A m \in MessageIds : WF_vars(TdDecide(m) \/ Announce(m) \/ Report(m))

FairSpec == Spec /\ Fairness

(***************************************************************************)
(* Safety.                                                                 *)
(***************************************************************************)
Unsettled(o) == Present(o) /\ sends[o].state \notin Settled
Begun(r) == handler[r].td # "none"

\* The three tables agree: a sending id leads to the operation that holds it
\* exactly while that operation is unsettled, and a temporary message only to
\* the operation bound to it.  An update handler that met a dangling entry
\* would settle the wrong operation, or none.
TablesAgree ==
  /\ \A o \in Ops : Unsettled(o) => sending_ids[sends[o].sid] = o
  /\ \A s \in SendingIds : LET o == sending_ids[s] IN
       o # None => Unsettled(o) /\ sends[o].sid = s
  /\ \A m \in MessageIds : LET o == send_messages[m] IN
       o # None => Present(o) /\ sends[o].temp = m /\ messages[m].op = o

\* An operation waiting for Telegram can still be told the outcome: its
\* temporary message is bound to it and has not been reported yet, whichever
\* of the response and the updates came first.
PendingIsReachable ==
  \A o \in Ops : sends[o].state = "pending" =>
    /\ sends[o].temp # None
    /\ send_messages[sends[o].temp] = o
    /\ messages[sends[o].temp].seen # "reported"

\* The verdicts on an operation that anybody can see: the table, the journal
\* and the replies of the handlers.
Verdict(o, state) == \/ sends[o].state = state
                     \/ <<o, state>> \in journal
                     \/ \E r \in Requests : ReqOp[r] = o /\ handler[r].reply = state

\* "failed" is only said of an operation no message of which reached Telegram
\* or ever will, so that sending again cannot duplicate it; "sent" only of one
\* that was delivered.
Truthful ==
  \A o \in Ops :
    /\ Verdict(o, "failed") =>
         /\ \A m \in MessageIds : messages[m].op = o => messages[m].fate = "refused"
         /\ \A r \in Requests : ReqOp[r] = o => handler[r].td # "queued"
    /\ Verdict(o, "sent") =>
         \E m \in MessageIds : messages[m].op = o /\ messages[m].fate = "delivered"

\* However many requests carry an operation, one of them at most hands a
\* sendMessage to TDLib, and TDLib has at most one message for it.
DispatchedOnce ==
  /\ \A r, q \in Requests : ReqOp[r] = ReqOp[q] /\ Begun(r) /\ Begun(q) => r = q
  /\ \A m, n \in MessageIds : messages[m].op # None /\ messages[m].op = messages[n].op => m = n

\* The table never outgrows operations_per_account, and holds operations of
\* the current session only: whatever the caller learns from lookup is about
\* the session it asks.
TableBounded == /\ Cardinality({o \in Ops : Present(o)}) <= Limit
                /\ \A o \in Ops : Present(o) => sends[o].epoch = epoch

\* The tables of an account are sound: typed, bounded, in agreement, and good
\* enough to settle every pending operation, after every order of requests,
\* answers, updates, resets and restarts (message_send_service.cpp).
TablesSound == TypeOK /\ TableBounded /\ TablesAgree /\ PendingIsReachable

\* A settled operation keeps its outcome until it is forgotten, whatever late
\* response or update arrives, and a forgotten one comes back only as new.
SettledIsFinal ==
  [][\A o \in Ops :
       /\ sends[o].state \in Settled =>
            sends'[o].state \in {sends[o].state, "absent"} /\ sends'[o].retryable \in {sends[o].retryable, FALSE}
       /\ ~Present(o) => sends'[o].state \in {"absent", "preparing"}]_vars

(***************************************************************************)
(* Liveness.                                                               *)
(***************************************************************************)
\* Every handler answers, whatever TDLib does and however the session ends.
EveryRequestAnswered == \A r \in Requests : handler[r].pc # "idle" ~> handler[r].pc = "done"

\* A pending operation is settled, or forgotten with its session, as soon as
\* Telegram has decided.
PendingSettles == \A o \in Ops : sends[o].state = "pending" ~> sends[o].state # "pending"

\* Both: no request and no operation waits for ever.
SendsEnd == EveryRequestAnswered /\ PendingSettles
(***************************************************************************)
(* Refinement: every operation behaves as SendContract says.               *)
(***************************************************************************)
Posted(o) == \E r \in Requests : ReqOp[r] = o /\ handler[r].pc # "idle"
Live(o) == \/ \E m \in MessageIds : messages[m].op = o /\ messages[m].fate = "open"
           \/ \E r \in Requests : /\ ReqOp[r] = o
                                  /\ \/ handler[r].td = "queued"
                                     \/ handler[r].pc \in {"lookup", "claim", "begin"}
StageOf(o) == CASE ~Posted(o) -> "unposted"
                [] Posted(o) /\ Lookup(o) = "not_found" -> "lost"
                [] Posted(o) /\ Lookup(o) = "pending" -> "open"
                [] OTHER -> Lookup(o)
FateOf(o) ==
  IF \E m \in MessageIds : messages[m].op = o /\ messages[m].fate = "delivered" THEN "delivered"
  ELSE IF ~Posted(o) \/ Live(o) THEN "live" ELSE "dead"
JournalOf(o) == {state \in {"pending"} \cup Settled : <<o, state>> \in journal}

Contract(o) == INSTANCE SendContract WITH stage <- StageOf(o), fate <- FateOf(o),
                                          journal <- JournalOf(o)

\* What backend-api sees of an operation through replies, lookups and the
\* journal follows SendContract, across races, timeouts and lost sessions.
KeepsContract ==
  /\ \A o \in Ops : Contract(o)!ContractInit
  /\ [][\A o \in Ops : [Contract(o)!ContractNext]_(Contract(o)!contractVars)]_vars
=============================================================================
