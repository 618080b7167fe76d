-------------------------- MODULE TdSendInvariant ---------------------------
(***************************************************************************)
(* The inductive invariant of TdSend, for any sets of operations,          *)
(* requests, sending ids and messages and any bounds, and the lemmas about *)
(* what a handler and a report of TDLib do to it.                          *)
(***************************************************************************)
EXTENDS TdSend, TLAPS

(***************************************************************************)
(* The inductive invariant.                                                *)
(***************************************************************************)
\* The request that created its operation: only it has drawn a sending id.
Created(r) == handler[r].sid # None
\* The tables are those of a session that serves its client.
Serving == phase \in {"ready", "stalled"}

\* What a handler has done agrees with where it is, and with what TDLib has
\* made of its sendMessage.
HandlersAgree ==
  \A r \in Requests :
    /\ handler[r].pc = "idle" => handler[r] = Idle
    /\ handler[r].pc \in {"lookup", "claim", "begin"} => Created(r) /\ handler[r].td = "none"
    /\ handler[r].pc \in {"lookup", "claim", "begin", "await"} => handler[r].answer = "none"
    /\ handler[r].pc \in {"await", "answered"} => Created(r)
    /\ handler[r].td # "none" => Created(r)
    /\ handler[r].answer = "pending" => handler[r].td = "accepted"
    /\ handler[r].answer = "final" => handler[r].td = "immediate"
    /\ handler[r].answer = "error" => handler[r].td = "refused"
    /\ handler[r].answer = "busy" => handler[r].td = "none"
    /\ handler[r].td \in {"accepted", "immediate"} =>
         /\ handler[r].msg \in MessageIds
         /\ messages[handler[r].msg].op = ReqOp[r]
         /\ messages[handler[r].msg].sid = handler[r].sid
         /\ messages[handler[r].msg].client = handler[r].client
         /\ handler[r].td = "immediate" => /\ messages[handler[r].msg].fate = "delivered"
                                           /\ messages[handler[r].msg].seen = "reported"

\* One request creates an operation, and one creates a message.
OneCreator ==
  /\ \A r, q \in Requests : ReqOp[r] = ReqOp[q] /\ Created(r) /\ Created(q) => r = q
  /\ \A m \in MessageIds :
       /\ messages[m].fate = "none" <=> messages[m].op = None
       /\ messages[m].seen # "none" => messages[m].op # None
       /\ messages[m].op # None =>
            \E r \in Requests : /\ ReqOp[r] = messages[m].op
                                /\ handler[r].td \in {"accepted", "immediate"}
                                /\ handler[r].msg = m

\* Clients are numbered by the epoch they started in; the tables are empty
\* unless the session serves its client.
SessionAgrees ==
  /\ client <= epoch
  /\ \A r \in Requests : handler[r].client <= epoch
  /\ \A m \in MessageIds : messages[m].client <= epoch
  /\ Serving => client # 0
  /\ ~Serving => \A o \in Ops : ~Present(o)

\* An operation in the table belongs to the request that created it, was
\* created in this session, and is bound to its own message.
OperationsAgree ==
  \A o \in Ops : Present(o) =>
    /\ known
    /\ sends[o].epoch = epoch /\ sends[o].auth <= auth
    /\ sends[o].sid # None
    /\ sends[o].state \in {"preparing", "dispatching"} => sends[o].temp = None
    /\ sends[o].temp # None => messages[sends[o].temp].op = o
    /\ \E r \in Requests :
         /\ ReqOp[r] = o
         /\ handler[r].sid = sends[o].sid
         /\ handler[r].client = client
         /\ sends[o].state = "preparing" => handler[r].pc \in {"lookup", "claim"}
         /\ sends[o].state \notin Settled /\ sends[o].temp = None /\ handler[r].td = "accepted"
              => messages[handler[r].msg].seen = "new"

\* What is on its way to TDLib, or from TDLib to the receive thread, is about
\* an operation that is still unsettled.
UnderWay ==
  Serving =>
    /\ \A r \in Requests : /\ handler[r].td = "queued" \/ handler[r].pc \in {"lookup", "claim", "begin"}
                           /\ handler[r].client = client
                           => Unsettled(ReqOp[r])
    /\ \A m \in MessageIds : messages[m].seen = "new" /\ messages[m].client = client
                               => Unsettled(messages[m].op)

\* By the time an operation is forgotten, nothing is under way for it.
OldIsQuiet ==
  \A o \in old :
    /\ Present(o)
    /\ \A r \in Requests : ReqOp[r] = o => handler[r].pc \in {"idle", "done"} /\ handler[r].td # "queued"
    /\ \A m \in MessageIds : messages[m].op = o => messages[m].seen # "new"

\* The verdicts are true and will be; the journal is about operations that
\* were posted.
VerdictsTrue ==
  /\ Truthful
  /\ \A o \in Ops : Verdict(o, "failed") =>
       \A r \in Requests : ReqOp[r] = o => handler[r].pc \notin {"lookup", "claim", "begin"}
  /\ \A e \in journal : Posted(e[1])

IInv == /\ TypeOK /\ HandlersAgree /\ OneCreator /\ SessionAgrees /\ OperationsAgree
        /\ UnderWay /\ OldIsQuiet /\ TablesAgree /\ PendingIsReachable
        /\ VerdictsTrue

-----------------------------------------------------------------------------
\* What moving a handler on does to the handlers.
LEMMA GotoFacts ==
  ASSUME TypeOK, NEW r \in Requests,
         NEW step \in {"lookup", "claim", "begin", "await", "answered", "waiting", "done"},
         handler' = [handler EXCEPT ![r].pc = step]
  PROVE  /\ handler' \in [Requests -> Handler]
         /\ handler'[r].pc = step
         /\ \A q \in Requests : /\ q # r => handler'[q] = handler[q]
                                /\ handler'[q].sid = handler[q].sid /\ handler'[q].td = handler[q].td
                                /\ handler'[q].msg = handler[q].msg /\ handler'[q].client = handler[q].client
                                /\ handler'[q].answer = handler[q].answer /\ handler'[q].reply = handler[q].reply
<1> DEFINE h == [handler[r] EXCEPT !.pc = step]
<1>1. handler' = [handler EXCEPT ![r] = h]
  BY Zenon
<1>2. handler[r] \in Handler
  BY Zenon DEF TypeOK
<1>3. /\ h \in Handler /\ h.pc = step /\ h.sid = handler[r].sid /\ h.td = handler[r].td /\ h.msg = handler[r].msg
      /\ h.client = handler[r].client /\ h.answer = handler[r].answer /\ h.reply = handler[r].reply
  BY Zenon, <1>2 DEF Handler
<1> HIDE DEF h
<1> QED BY Zenon, <1>1, <1>3 DEF TypeOK

-----------------------------------------------------------------------------
(***************************************************************************)
(* A step of one handler that leaves everything else alone.                *)
(***************************************************************************)
\* It preserves the invariant when what it has done still agrees with where it is.
LEMMA HandlerMoves ==
  ASSUME IInv, NEW r \in Requests, NEW h \in Handler,
         handler' = [handler EXCEPT ![r] = h],
         UNCHANGED <<accountVars, tableVars, messages>>,
         h.pc # "idle", h.sid = handler[r].sid, h.client = handler[r].client,
         h.msg = handler[r].msg,
         \* where it is agrees with what it has done
         h.pc \in {"lookup", "claim", "begin"} => h.td = "none" /\ handler[r].pc \in {"lookup", "claim", "begin"},
         h.pc \in {"lookup", "claim", "begin", "await"} => h.answer = "none",
         h.pc \in {"await", "answered"} => Created(r),
         h.answer = "pending" => h.td = "accepted",
         h.answer = "final" => h.td = "immediate",
         h.answer = "error" => h.td = "refused",
         h.answer = "busy" => h.td = "none",
         \/ h.td = handler[r].td
         \/ h.td = "queued" /\ handler[r].pc = "begin"
         \/ h.td = "refused" /\ handler[r].td = "queued",
         \* the operation
         Created(r) /\ sends[ReqOp[r]].state = "preparing" => h.pc \in {"lookup", "claim"},
         handler[r].pc \in {"idle", "done"} => h.pc = "done",
         \A s \in Settled : h.reply = s => Verdict(ReqOp[r], s)
  PROVE  IInv'
<1> USE DEF IInv, accountVars, tableVars
<1>1. /\ handler' \in [Requests -> Handler]
      /\ handler'[r] = h
      /\ \A q \in Requests \ {r} : handler'[q] = handler[q]
  BY Zenon DEF TypeOK
<1>2. TypeOK'
  BY Zenon, <1>1 DEF TypeOK
<1>3. \A q \in Requests : Created(q)' <=> Created(q)
  BY Zenon, <1>1 DEF Created
<1>4. HandlersAgree'
  BY <1>1, <1>3 DEF HandlersAgree, Created
<1>5. OneCreator'
  BY <1>1, <1>3 DEF OneCreator, HandlersAgree
<1>6. SessionAgrees'
  BY Zenon, <1>1 DEF SessionAgrees, Serving, Present
<1>7. OperationsAgree'
  BY <1>1, <1>3 DEF OperationsAgree, Present, Created, OneCreator
<1>8. UnderWay'
  BY <1>1 DEF UnderWay, Serving, Unsettled, Present
<1>9. OldIsQuiet'
  BY <1>1 DEF OldIsQuiet, Present
<1>10. TablesAgree' /\ PendingIsReachable'
  BY Zenon DEF TablesAgree, PendingIsReachable, Unsettled, Present
<1>11. VerdictsTrue'
  <2>1. \A o \in Ops, s \in Settled : Verdict(o, s)' => Verdict(o, s)
    BY <1>1 DEF Verdict, Settled
  <2>2. \A o \in Ops : Posted(o) => Posted(o)'
    BY Zenon, <1>1 DEF Posted
  <2>3. \A e \in journal' : Posted(e[1])'
    BY Zenon, <2>2 DEF VerdictsTrue, TypeOK
  <2>4. "sent" \in Settled /\ "failed" \in Settled
    BY Zenon DEF Settled
  <2> QED BY <1>1, <2>1, <2>3, <2>4 DEF VerdictsTrue, Truthful
<1> QED BY Zenon, <1>2, <1>4, <1>5, <1>6, <1>7, <1>8, <1>9, <1>10, <1>11

\* A handler settles its operation: its sendMessage never was, was refused, or
\* was final at once.
LEMMA HandlerSettles ==
  ASSUME IInv, NEW r \in Requests, NEW v \in Settled, NEW e \in Operation,
         Created(r), Unsettled(ReqOp[r]), handler[r].pc # "idle",
         handler' = [handler EXCEPT ![r].pc = "waiting"],
         sends' = [sends EXCEPT ![ReqOp[r]] = e],
         e.state = v, e.sid = sends[ReqOp[r]].sid, e.temp = sends[ReqOp[r]].temp,
         e.epoch = sends[ReqOp[r]].epoch, e.auth = sends[ReqOp[r]].auth,
         sending_ids' = [sending_ids EXCEPT ![sends[ReqOp[r]].sid] = None],
         old' = old \ {ReqOp[r]}, journal' = journal \cup {<<ReqOp[r], v>>},
         UNCHANGED <<accountVars, send_messages, messages>>,
         \/ v = "failed" /\ handler[r].td \in {"none", "refused"}
         \/ v = "sent" /\ handler[r].td = "immediate"
  PROVE  IInv'
<1> DEFINE o == ReqOp[r]
<1> USE DEF IInv, accountVars
<1>0. o \in Ops /\ sends[o].sid \in SendingIds
  BY Zenon, RequestAssumption DEF TypeOK, Operation, OperationsAgree, Unsettled
<1>1. handler' \in [Requests -> Handler]
  BY Zenon, GotoFacts
<1>2. /\ sends' \in [Ops -> Operation]
      /\ sends'[o] = e
      /\ \A p \in Ops \ {o} : sends'[p] = sends[p]
  BY Zenon, <1>0 DEF TypeOK
<1>3. /\ sending_ids' \in [SendingIds -> Ops \cup {None}]
      /\ sending_ids'[sends[o].sid] = None
      /\ \A s \in SendingIds \ {sends[o].sid} : sending_ids'[s] = sending_ids[s]
  BY Zenon, <1>0 DEF TypeOK
<1>4. /\ handler'[r].pc = "waiting"
      /\ \A q \in Requests : /\ q # r => handler'[q] = handler[q]
                             /\ handler'[q].sid = handler[q].sid /\ handler'[q].td = handler[q].td
                             /\ handler'[q].msg = handler[q].msg /\ handler'[q].client = handler[q].client
                             /\ handler'[q].answer = handler[q].answer /\ handler'[q].reply = handler[q].reply
  BY Zenon, GotoFacts
<1>5. TypeOK'
  BY <1>0, <1>1, <1>2, <1>3 DEF TypeOK, Settled
<1>6. HandlersAgree'
  BY <1>1, <1>4 DEF HandlersAgree, Created
<1>7. OneCreator'
  BY <1>4 DEF OneCreator, Created
<1>8. SessionAgrees'
  BY Zenon, <1>2, <1>4 DEF SessionAgrees, Serving, Present, Unsettled, Settled
<1>9. OperationsAgree'
  BY SMTT(30), <1>0, <1>2, <1>4 DEF OperationsAgree, Present, Created, OneCreator, Unsettled, Settled
<1>10. UnderWay'
  BY <1>0, <1>2, <1>4 DEF UnderWay, Serving, Unsettled, Present, OneCreator, Created, HandlersAgree
<1>11. OldIsQuiet'
  BY SMTT(30), <1>0, <1>2, <1>4 DEF OldIsQuiet, Present
<1>12. TablesAgree'
  BY <1>0, <1>2, <1>3 DEF TablesAgree, Unsettled, Present, Settled, TypeOK
<1>13. PendingIsReachable'
  BY Zenon, <1>2 DEF PendingIsReachable, Settled
<1>15. VerdictsTrue'
  <2>1. \A p \in Ops, s \in Settled : Verdict(p, s)' => Verdict(p, s) \/ (p = o /\ s = v)
    BY <1>0, <1>2, <1>4 DEF Verdict, Settled
  <2>2. \A p \in Ops : Posted(p) => Posted(p)'
    BY <1>4 DEF Posted
  <2>3. \A x \in journal' : Posted(x[1])'
    BY <1>4, <2>2 DEF VerdictsTrue, TypeOK, Posted
  <2>4. "sent" \in Settled /\ "failed" \in Settled
    BY Zenon DEF Settled
  <2>5. v = "failed" => /\ \A m \in MessageIds : messages[m].op # o
                        /\ \A q \in Requests : ReqOp[q] = o => handler[q].td # "queued"
                        /\ \A q \in Requests \ {r} :
                             ReqOp[q] = o => handler[q].pc \notin {"lookup", "claim", "begin"}
    BY <1>0, NoneAssumption DEF OneCreator, HandlersAgree, Created
  <2>6. v = "sent" => \E m \in MessageIds : messages[m].op = o /\ messages[m].fate = "delivered"
    BY Zenon DEF HandlersAgree
  <2>7. Truthful'
    <3>1. ASSUME NEW p \in Ops, Verdict(p, "failed")'
          PROVE  /\ \A m \in MessageIds : messages'[m].op = p => messages'[m].fate = "refused"
                 /\ \A q \in Requests : ReqOp[q] = p => handler'[q].td # "queued"
      BY <1>4, <2>1, <2>4, <2>5, <3>1 DEF VerdictsTrue, Truthful
    <3>2. ASSUME NEW p \in Ops, Verdict(p, "sent")'
          PROVE  \E m \in MessageIds : messages'[m].op = p /\ messages'[m].fate = "delivered"
      BY <2>1, <2>4, <2>6, <3>2 DEF VerdictsTrue, Truthful
    <3> QED BY Zenon, <3>1, <3>2 DEF Truthful
  <2>8. ASSUME NEW p \in Ops, Verdict(p, "failed")', NEW q \in Requests, ReqOp[q] = p
        PROVE  handler'[q].pc \notin {"lookup", "claim", "begin"}
    BY Zenon, <1>4, <2>1, <2>4, <2>5, <2>8 DEF VerdictsTrue
  <2> QED BY Zenon, <2>3, <2>7, <2>8 DEF VerdictsTrue
<1> QED BY Zenon, <1>5, <1>6, <1>7, <1>8, <1>9, <1>10, <1>11, <1>12, <1>13, <1>15

-----------------------------------------------------------------------------
(***************************************************************************)
(* Binding a message to its operation.                                     *)
(***************************************************************************)
\* What bind_pending does to the tables, field by field.
LEMMA BindFacts ==
  ASSUME TypeOK, NEW o \in Ops, NEW m \in MessageIds, NEW from, Bind(o, m, from)
  PROVE  /\ sends' \in [Ops -> Operation]
         /\ \A p \in Ops \ {o} : sends'[p] = sends[p]
         /\ sends'[o].state = IF sends[o].state \in from THEN "pending" ELSE sends[o].state
         /\ sends'[o].temp = IF sends[o].temp = None THEN m ELSE sends[o].temp
         /\ sends'[o].sid = sends[o].sid /\ sends'[o].epoch = sends[o].epoch
         /\ sends'[o].auth = sends[o].auth /\ sends'[o].retryable = sends[o].retryable
         /\ send_messages' \in [MessageIds -> Ops \cup {None}]
         /\ send_messages'[m] = IF sends[o].temp = None THEN o ELSE send_messages[m]
         /\ \A n \in MessageIds \ {m} : send_messages'[n] = send_messages[n]
         /\ journal' = IF sends[o].state \in from THEN journal \cup {<<o, "pending">>} ELSE journal
<1> DEFINE t == IF sends[o].temp = None THEN m ELSE sends[o].temp
           s == IF sends[o].state \in from THEN "pending" ELSE sends[o].state
           e == [sends[o] EXCEPT !.temp = t, !.state = s]
<1>1. sends[o] \in Operation
  BY Zenon DEF TypeOK
<1>2. e \in Operation /\ e.temp = t /\ e.state = s /\ e.sid = sends[o].sid /\ e.epoch = sends[o].epoch
      /\ e.auth = sends[o].auth /\ e.retryable = sends[o].retryable
  BY Zenon, <1>1 DEF Operation
<1>3. sends' = [sends EXCEPT ![o] = e]
  BY Zenon, <1>1 DEF Bind, TypeOK, Operation
<1>4. /\ send_messages' \in [MessageIds -> Ops \cup {None}]
      /\ send_messages'[m] = IF sends[o].temp = None THEN o ELSE send_messages[m]
      /\ \A n \in MessageIds \ {m} : send_messages'[n] = send_messages[n]
  BY Zenon DEF Bind, TypeOK
<1>5. journal' = IF sends[o].state \in from THEN journal \cup {<<o, "pending">>} ELSE journal
  BY Zenon DEF Bind
<1> HIDE DEF e
<1> QED BY Zenon, <1>2, <1>3, <1>4, <1>5 DEF TypeOK

\* The tables agree after a message was bound to its own operation, unless the
\* message was reported before.
LEMMA BindKeepsTables ==
  ASSUME IInv, NEW o \in Ops, Present(o), NEW m \in MessageIds, messages[m].op = o,
         NEW from, Bind(o, m, from), UNCHANGED sending_ids,
         sends[o].state \in from => messages'[m].seen # "reported",
         sends[o].state \in {"preparing", "dispatching"} => sends[o].state \in from,
         from \cap Settled = {}, "absent" \notin from,
         \A n \in MessageIds : /\ messages'[n].op = messages[n].op
                               /\ messages[n].seen # "reported" => messages'[n].seen # "reported"
  PROVE  /\ \A p \in Ops : (Present(p)' <=> Present(p)) /\ (Unsettled(p)' <=> Unsettled(p))
         /\ TablesAgree' /\ PendingIsReachable'
         /\ sends'[o].state \notin {"preparing", "dispatching"}
<1> USE BindFacts DEF IInv
<1>1. \A p \in Ops : (Present(p)' <=> Present(p)) /\ (Unsettled(p)' <=> Unsettled(p))
  BY SMTT(30) DEF Present, Unsettled, Settled, TypeOK, Operation
<1>2. \A p \in Ops : sends'[p].sid = sends[p].sid
  BY Zenon
<1>3. TablesAgree'
  <2>1. \A p \in Ops : Unsettled(p)' => sending_ids'[sends'[p].sid] = p
    BY <1>1, <1>2 DEF TablesAgree
  <2>2. ASSUME NEW s \in SendingIds, sending_ids'[s] # None
        PROVE  Unsettled(sending_ids[s])' /\ sends'[sending_ids'[s]].sid = s
    <3>1. sending_ids[s] \in Ops /\ sending_ids'[s] = sending_ids[s]
      BY <2>2 DEF TypeOK
    <3>2. Unsettled(sending_ids[s]) /\ sends[sending_ids[s]].sid = s
      BY Zenon, <2>2 DEF TablesAgree
    <3>3. \A p \in Ops : Unsettled(p) => sends'[p].state \notin {"absent"} \cup Settled
      BY Zenon, <1>1 DEF Unsettled, Present
    <3> QED BY Zenon, <1>2, <3>1, <3>2, <3>3 DEF Unsettled, Present
  <2>3. ASSUME NEW n \in MessageIds, send_messages'[n] # None
        PROVE  /\ Present(send_messages[n])' /\ sends'[send_messages'[n]].temp = n
               /\ messages'[n].op = send_messages'[n]
    <3>1. \A p \in Ops : Present(p) => sends'[p].state # "absent"
      BY Zenon, <1>1 DEF Present
    <3>2. CASE n = m /\ sends[o].temp = None
      BY <3>1, <3>2 DEF Present
    <3>3. CASE ~(n = m /\ sends[o].temp = None)
      <4>1. send_messages'[n] = send_messages[n] /\ send_messages[n] \in Ops
        BY SMTT(30), <2>3, <3>3 DEF TypeOK
      <4>2. Present(send_messages[n]) /\ sends[send_messages[n]].temp = n /\ messages[n].op = send_messages[n]
        BY Zenon, <2>3, <4>1 DEF TablesAgree
      <4> QED BY <3>1, <4>1, <4>2, NoneAssumption DEF Present
    <3> QED BY Zenon, <3>2, <3>3
  <2> QED BY Zenon, <2>1, <2>2, <2>3 DEF TablesAgree
<1>4. PendingIsReachable'
  BY SMTT(30), NoneAssumption DEF PendingIsReachable, OperationsAgree, Present, TypeOK, Operation, Settled
<1> QED BY Zenon, <1>1, <1>3, <1>4 DEF Present, Settled, TypeOK, Operation

\* The answer of TDLib binds the message.
LEMMA HandlerBinds ==
  ASSUME IInv, NEW r \in Requests, handler[r].pc = "answered", handler[r].answer = "pending",
         Present(ReqOp[r]), handler' = [handler EXCEPT ![r].pc = "waiting"],
         Bind(ReqOp[r], handler[r].msg, {"dispatching"}),
         UNCHANGED <<accountVars, sending_ids, old, messages>>
  PROVE  IInv'
<1> DEFINE o == ReqOp[r]
           m == handler[r].msg
<1> USE DEF IInv, accountVars
<1>1. o \in Ops /\ Created(r) /\ handler[r].td = "accepted" /\ m \in MessageIds /\ messages[m].op = o
  BY Zenon, RequestAssumption DEF HandlersAgree
<1>2. sends[o].state # "preparing"
  BY <1>1 DEF OperationsAgree, OneCreator, Created, Present
<1>3. sends[o].state = "dispatching" => messages[m].seen = "new"
  BY <1>1 DEF OperationsAgree, OneCreator, Created, Present, Settled
<1>4. /\ \A p \in Ops : (Present(p)' <=> Present(p)) /\ (Unsettled(p)' <=> Unsettled(p))
      /\ TablesAgree' /\ PendingIsReachable'
      /\ sends'[o].state \notin {"preparing", "dispatching"}
  BY Zenon, <1>1, <1>2, <1>3, BindKeepsTables DEF Settled
<1>5. /\ sends' \in [Ops -> Operation]
      /\ \A p \in Ops \ {o} : sends'[p] = sends[p]
      /\ sends'[o].state = IF sends[o].state = "dispatching" THEN "pending" ELSE sends[o].state
      /\ sends'[o].temp = IF sends[o].temp = None THEN m ELSE sends[o].temp
      /\ sends'[o].sid = sends[o].sid /\ sends'[o].epoch = sends[o].epoch
      /\ sends'[o].auth = sends[o].auth
      /\ send_messages' \in [MessageIds -> Ops \cup {None}]
      /\ journal' \subseteq journal \cup {<<o, "pending">>}
  BY SMTT(30), <1>1, BindFacts
<1>6. /\ handler' \in [Requests -> Handler]
      /\ handler'[r].pc = "waiting"
      /\ \A q \in Requests : /\ q # r => handler'[q] = handler[q]
                             /\ handler'[q].sid = handler[q].sid /\ handler'[q].td = handler[q].td
                             /\ handler'[q].msg = handler[q].msg /\ handler'[q].client = handler[q].client
                             /\ handler'[q].answer = handler[q].answer /\ handler'[q].reply = handler[q].reply
  BY Zenon, GotoFacts
<1>7. TypeOK'
  BY SMTT(30), <1>1, <1>5, <1>6 DEF TypeOK
<1>8. HandlersAgree'
  BY <1>6 DEF HandlersAgree, Created
<1>9. OneCreator'
  BY <1>6 DEF OneCreator, Created
<1>10. SessionAgrees'
  BY SMTT(30), <1>4, <1>6 DEF SessionAgrees, Serving
<1>11. OperationsAgree'
  BY <1>1, <1>4, <1>5, <1>6, NoneAssumption DEF OperationsAgree, Present
<1>12. UnderWay'
  <2>1. \A p \in Ops : Unsettled(p) => sends'[p].state \notin {"absent"} \cup Settled
    BY Zenon, <1>4 DEF Unsettled, Present
  <2>2. \A n \in MessageIds : messages[n].seen = "new" => messages[n].op \in Ops
    BY Zenon DEF OneCreator, TypeOK, Message
  <2> QED BY <1>6, <2>1, <2>2, RequestAssumption DEF UnderWay, Serving, Unsettled, Present
<1>13. OldIsQuiet'
  BY <1>4, <1>6 DEF OldIsQuiet, TypeOK, Present
<1>15. VerdictsTrue'
  <2>1. \A p \in Ops : /\ Verdict(p, "failed")' => Verdict(p, "failed")
                       /\ Verdict(p, "sent")' => Verdict(p, "sent")
    BY <1>1, <1>5, <1>6 DEF Verdict
  <2>2. \A p \in Ops : Posted(p) => Posted(p)'
    BY Zenon, <1>6 DEF Posted
  <2>3. Posted(o)
    BY Zenon DEF Posted
  <2>4. \A x \in journal' : Posted(x[1])'
    BY <1>1, <1>5, <2>2, <2>3 DEF VerdictsTrue, TypeOK
  <2> QED BY <1>6, <2>1, <2>4 DEF VerdictsTrue, Truthful
<1> QED BY Zenon, <1>4, <1>7, <1>8, <1>9, <1>10, <1>11, <1>12, <1>13, <1>15

\* What the receive thread's mark does to the messages.
LEMMA SeenFacts ==
  ASSUME TypeOK, NEW m \in MessageIds, NEW mark \in {"announced", "reported"},
         messages' = [messages EXCEPT ![m].seen = mark]
  PROVE  /\ messages' \in [MessageIds -> Message]
         /\ messages'[m].seen = mark
         /\ \A n \in MessageIds : /\ n # m => messages'[n] = messages[n]
                                  /\ messages'[n].op = messages[n].op /\ messages'[n].sid = messages[n].sid
                                  /\ messages'[n].client = messages[n].client
                                  /\ messages'[n].fate = messages[n].fate
<1> DEFINE x == [messages[m] EXCEPT !.seen = mark]
<1>1. messages' = [messages EXCEPT ![m] = x]
  BY Zenon
<1>2. messages[m] \in Message
  BY Zenon DEF TypeOK
<1>3. /\ x \in Message /\ x.seen = mark /\ x.op = messages[m].op /\ x.sid = messages[m].sid
      /\ x.client = messages[m].client /\ x.fate = messages[m].fate
  BY Zenon, <1>2 DEF Message
<1> HIDE DEF x
<1> QED BY Zenon, <1>1, <1>3 DEF TypeOK

\* A message that the receive thread meets first was sent by the creator of its
\* operation.
LEMMA NewMessage ==
  ASSUME IInv, NEW m \in MessageIds, messages[m].op # None
  PROVE  /\ messages[m].op \in Ops
         /\ \E r \in Requests : /\ ReqOp[r] = messages[m].op /\ Created(r)
                                /\ handler[r].td \in {"accepted", "immediate"} /\ handler[r].msg = m
                                /\ handler[r].sid = messages[m].sid /\ handler[r].client = messages[m].client
                                /\ messages[m].sid \in SendingIds
                                /\ messages[m].seen = "new" => handler[r].td = "accepted"
<1>1. /\ messages[m] \in Message
      /\ \A r \in Requests : handler[r] \in Handler
      /\ messages[m].seen # "none" => messages[m].op # None
  BY Zenon DEF IInv, TypeOK, OneCreator
<1>2. PICK r \in Requests : /\ ReqOp[r] = messages[m].op
                            /\ handler[r].td \in {"accepted", "immediate"} /\ handler[r].msg = m
  BY Zenon DEF IInv, OneCreator
<1>3. handler[r].td # "none"
  BY <1>2
<1>4. /\ Created(r)
      /\ messages[handler[r].msg].sid = handler[r].sid /\ messages[handler[r].msg].client = handler[r].client
      /\ handler[r].td = "immediate" => messages[handler[r].msg].seen = "reported"
  BY Zenon, <1>2, <1>3 DEF IInv, HandlersAgree
<1>5. messages[m].op \in Ops /\ messages[m].sid \in SendingIds
  BY <1>1, <1>2, <1>4 DEF Message, Created
<1>6. messages[m].seen = "new" => handler[r].td = "accepted"
  BY <1>2, <1>4
<1> QED BY Zenon, <1>2, <1>4, <1>5, <1>6

\* The receive thread meets updateNewMessage: the step preserves the invariant.
LEMMA AnnounceKeeps ==
  ASSUME IInv, NEW m \in MessageIds, Announce(m)
  PROVE  IInv'
<1> DEFINE o == messages[m].op
<1> USE DEF IInv, accountVars
<1>1. /\ messages[m].seen = "new" /\ messages[m].client = client /\ o # None
      /\ UNCHANGED <<accountVars, sending_ids, old, handler>>
      /\ messages' = [messages EXCEPT ![m].seen = "announced"]
  BY Zenon DEF Announce, OneCreator
<1>2. PICK r \in Requests : /\ ReqOp[r] = o /\ Created(r) /\ handler[r].td = "accepted" /\ handler[r].msg = m
                            /\ handler[r].sid = messages[m].sid /\ handler[r].client = messages[m].client
                            /\ messages[m].sid \in SendingIds /\ o \in Ops
  BY Zenon, <1>1, NewMessage
<1>3. /\ messages' \in [MessageIds -> Message]
      /\ messages'[m].seen = "announced"
      /\ \A n \in MessageIds : /\ n # m => messages'[n] = messages[n]
                               /\ messages'[n].op = messages[n].op /\ messages'[n].sid = messages[n].sid
                               /\ messages'[n].client = messages[n].client
                               /\ messages'[n].fate = messages[n].fate
  BY ZenonT(30), <1>1, SeenFacts
<1>4. CASE ~Serving
  <2>1. \A p \in Ops : ~Present(p)
    BY Zenon, <1>4 DEF SessionAgrees
  <2>2. sending_ids[messages[m].sid] = None
    BY <1>2, <2>1 DEF TablesAgree, Unsettled, TypeOK
  <2>3. UNCHANGED <<sends, send_messages, journal>>
    BY Zenon, <2>2 DEF Announce
  <2>4. TypeOK' /\ HandlersAgree' /\ OneCreator' /\ SessionAgrees'
    BY SMTT(30), <1>1, <1>3, <2>3 DEF TypeOK, HandlersAgree, Created, OneCreator, SessionAgrees, Serving, Present
  <2>5. OperationsAgree' /\ UnderWay' /\ OldIsQuiet' /\ TablesAgree' /\ PendingIsReachable'
    BY <1>1, <1>3, <1>4, <2>1, <2>3 DEF OperationsAgree, UnderWay, OldIsQuiet, TablesAgree, PendingIsReachable, Present, Unsettled, Serving, TypeOK
  <2>6. VerdictsTrue'
    BY <1>1, <1>3, <2>3 DEF VerdictsTrue, Truthful, Verdict, Posted
  <2> QED BY Zenon, <2>4, <2>5, <2>6
<1>5. CASE Serving
  <2>1. Unsettled(o) /\ Present(o)
    BY Zenon, <1>1, <1>5 DEF UnderWay, Unsettled
  <2>2. sends[o].sid = messages[m].sid /\ known
    BY <1>2, <2>1 DEF OperationsAgree, OneCreator, Created
  <2>3. sending_ids[messages[m].sid] = o
    BY Zenon, <1>2, <2>1, <2>2 DEF TablesAgree
  <2>4. Bind(o, m, {"dispatching", "preparing"})
    BY Zenon, <1>1, <2>2, <2>3 DEF Announce
  <2>5. /\ \A p \in Ops : (Present(p)' <=> Present(p)) /\ (Unsettled(p)' <=> Unsettled(p))
        /\ TablesAgree' /\ PendingIsReachable'
        /\ sends'[o].state \notin {"preparing", "dispatching"}
    BY SMTT(30), <1>1, <1>2, <1>3, <2>1, <2>4, BindKeepsTables DEF Settled
  <2>6. /\ sends' \in [Ops -> Operation]
        /\ \A p \in Ops \ {o} : sends'[p] = sends[p]
        /\ sends'[o].state = IF sends[o].state \in {"dispatching", "preparing"} THEN "pending" ELSE sends[o].state
        /\ sends'[o].temp = IF sends[o].temp = None THEN m ELSE sends[o].temp
        /\ sends'[o].sid = sends[o].sid /\ sends'[o].epoch = sends[o].epoch
        /\ sends'[o].auth = sends[o].auth
        /\ send_messages' \in [MessageIds -> Ops \cup {None}]
        /\ journal' \subseteq journal \cup {<<o, "pending">>}
    BY <1>2, <2>4, BindFacts
  <2>7. TypeOK'
    BY SMTT(30), <1>1, <1>2, <1>3, <2>6 DEF TypeOK
  <2>8. HandlersAgree' /\ OneCreator'
    BY <1>1, <1>3 DEF HandlersAgree, Created, OneCreator
  <2>9. SessionAgrees'
    BY Zenon, <1>1, <1>3, <2>5 DEF SessionAgrees, Serving
  <2>10. OperationsAgree'
    <3>1. /\ handler' = handler /\ known' = known /\ epoch' = epoch /\ auth' = auth /\ client' = client
          /\ \A n \in MessageIds : messages'[n].op = messages[n].op /\ (n # m => messages'[n] = messages[n])
      BY Zenon, <1>1, <1>3
    <3>2. ASSUME NEW p \in Ops, Present(p)'
          PROVE  \E q \in Requests :
                   /\ ReqOp[q] = p
                   /\ handler'[q].sid = sends'[p].sid
                   /\ handler'[q].client = client'
                   /\ sends'[p].state = "preparing" => handler'[q].pc \in {"lookup", "claim"}
                   /\ sends'[p].state \notin Settled /\ sends'[p].temp = None /\ handler'[q].td = "accepted"
                        => messages'[handler'[q].msg].seen = "new"
      <4>1. Present(p)
        BY Zenon, <2>5, <3>2
      <4>2. PICK q \in Requests :
              /\ ReqOp[q] = p /\ handler[q].sid = sends[p].sid /\ handler[q].client = client
              /\ sends[p].state = "preparing" => handler[q].pc \in {"lookup", "claim"}
              /\ sends[p].state \notin Settled /\ sends[p].temp = None /\ handler[q].td = "accepted"
                   => messages[handler[q].msg].seen = "new"
        BY Zenon, <4>1 DEF OperationsAgree
      <4>3. CASE p = o
        <5>1. sends'[p].sid = sends[p].sid /\ sends'[p].temp # None /\ sends'[p].state # "preparing"
          BY <2>5, <2>6, <4>3, NoneAssumption
        <5> QED BY Zenon, <3>1, <4>2, <5>1
      <4>4. CASE p # o
        <5>1. sends'[p] = sends[p]
          BY Zenon, <2>6, <4>4
        <5>2. handler[q].td = "accepted" => messages'[handler[q].msg] = messages[handler[q].msg]
          BY SMTT(30), <3>1, <4>2, <4>4 DEF HandlersAgree
        <5>3. handler'[q] = handler[q] /\ client' = client
          BY Zenon, <3>1
        <5>4. \/ sends'[p].state \in Settled \/ sends'[p].temp # None \/ handler'[q].td # "accepted"
              \/ messages'[handler'[q].msg].seen = "new"
          BY Zenon, <4>2, <5>1, <5>2, <5>3
        <5>5. /\ ReqOp[q] = p /\ handler'[q].sid = sends'[p].sid /\ handler'[q].client = client'
              /\ sends'[p].state = "preparing" => handler'[q].pc \in {"lookup", "claim"}
          BY Zenon, <4>2, <5>1, <5>3
        <5> QED BY Zenon, <5>4, <5>5
      <4> QED BY Zenon, <4>3, <4>4
    <3>3. ASSUME NEW p \in Ops, Present(p)'
          PROVE  /\ known' /\ sends'[p].epoch = epoch' /\ sends'[p].auth <= auth' /\ sends'[p].sid # None
                 /\ sends'[p].state \in {"preparing", "dispatching"} => sends'[p].temp = None
                 /\ sends'[p].temp # None => messages'[sends'[p].temp].op = p
      <4>1. /\ known /\ sends[p].epoch = epoch /\ sends[p].auth <= auth /\ sends[p].sid # None
            /\ sends[p].state \in {"preparing", "dispatching"} => sends[p].temp = None
            /\ sends[p].temp # None => messages[sends[p].temp].op = p
        BY Zenon, <2>5, <3>3 DEF OperationsAgree
      <4>2. sends[p].temp # None => messages'[sends[p].temp].op = p
        BY <3>1, <4>1 DEF TypeOK, Operation
      <4>3. CASE p = o
        BY ZenonT(30), <2>5, <2>6, <3>1, <4>1, <4>2, <4>3
      <4>4. CASE p # o
        <5>1. sends'[p] = sends[p]
          BY Zenon, <2>6, <4>4
        <5> QED BY SMTT(30), <3>1, <4>1, <4>2, <5>1
      <4> QED BY Zenon, <4>3, <4>4
    <3> QED BY Zenon, <3>2, <3>3 DEF OperationsAgree
  <2>11. UnderWay'
    <3>1. \A p \in Ops : Unsettled(p) => sends'[p].state \notin {"absent"} \cup Settled
      BY Zenon, <2>5 DEF Unsettled, Present
    <3>2. \A n \in MessageIds : messages[n].seen = "new" => messages[n].op \in Ops
      BY Zenon DEF OneCreator, TypeOK, Message
    <3> QED BY Zenon, <1>1, <1>3, <3>1, <3>2, RequestAssumption DEF UnderWay, Serving, Unsettled, Present
  <2>12. OldIsQuiet'
    BY <1>1, <1>3, <2>5 DEF OldIsQuiet, TypeOK, Present
  <2>14. VerdictsTrue'
    <3>1. \A p \in Ops : /\ Verdict(p, "failed")' => Verdict(p, "failed")
                         /\ Verdict(p, "sent")' => Verdict(p, "sent")
      BY Zenon, <1>1, <1>2, <2>6 DEF Verdict
    <3>2. \A p \in Ops : Posted(p) => Posted(p)'
      BY Zenon, <1>1 DEF Posted
    <3>3. Posted(o)
      BY SMTT(30), <1>2 DEF Posted, HandlersAgree, Idle, Created
    <3>4. \A x \in journal' : Posted(x[1])'
      BY <1>2, <2>6, <3>2, <3>3 DEF VerdictsTrue, TypeOK
    <3> QED BY <1>1, <1>3, <3>1, <3>4 DEF VerdictsTrue, Truthful
  <2> QED BY Zenon, <2>5, <2>7, <2>8, <2>9, <2>10, <2>11, <2>12, <2>14
<1> QED BY Zenon, <1>4, <1>5

-----------------------------------------------------------------------------
(***************************************************************************)
(* The report of a message's fate.                                         *)
(***************************************************************************)
\* The facts both cases of Report share: the mark, the index, and that nobody
\* still waits for the announcement of the message.
LEMMA ReportFacts ==
  ASSUME IInv, NEW m \in MessageIds, Report(m)
  PROVE  /\ UNCHANGED <<accountVars, handler>>
         /\ messages[m].op \in Ops /\ messages[m].fate \in {"delivered", "refused"}
         /\ messages' \in [MessageIds -> Message] /\ messages'[m].seen = "reported"
         /\ \A n \in MessageIds : /\ n # m => messages'[n] = messages[n]
                                  /\ messages'[n].op = messages[n].op /\ messages'[n].sid = messages[n].sid
                                  /\ messages'[n].client = messages[n].client
                                  /\ messages'[n].fate = messages[n].fate
         /\ send_messages' \in [MessageIds -> Ops \cup {None}] /\ send_messages'[m] = None
         /\ \A n \in MessageIds \ {m} : send_messages'[n] = send_messages[n]
         /\ \E r \in Requests : /\ ReqOp[r] = messages[m].op /\ Created(r) /\ handler[r].pc # "idle"
                                /\ handler[r].td \in {"accepted", "immediate"} /\ handler[r].msg = m
                                /\ Present(messages[m].op) => messages[m].seen # "new"
         /\ HandlersAgree' /\ OneCreator'
<1> USE DEF IInv, accountVars
<1>1. /\ UNCHANGED <<accountVars, handler>>
      /\ messages[m].fate \in {"delivered", "refused"}
      /\ messages' = [messages EXCEPT ![m].seen = "reported"]
      /\ send_messages' = [send_messages EXCEPT ![m] = None]
      /\ messages[m].seen = "announced" \/ (messages[m].seen = "new" /\ messages[m].client # client)
  BY Zenon DEF Report
<1>2. messages[m].op \in Ops /\ messages[m].op # None
  BY Zenon, <1>1 DEF OneCreator, TypeOK, Message
<1>3. /\ messages' \in [MessageIds -> Message] /\ messages'[m].seen = "reported"
      /\ \A n \in MessageIds : /\ n # m => messages'[n] = messages[n]
                               /\ messages'[n].op = messages[n].op /\ messages'[n].sid = messages[n].sid
                               /\ messages'[n].client = messages[n].client
                               /\ messages'[n].fate = messages[n].fate
  BY Zenon, <1>1, SeenFacts
<1>4. /\ send_messages' \in [MessageIds -> Ops \cup {None}] /\ send_messages'[m] = None
      /\ \A n \in MessageIds \ {m} : send_messages'[n] = send_messages[n]
  BY Zenon, <1>1 DEF TypeOK
<1>5. \E r \in Requests : /\ ReqOp[r] = messages[m].op /\ Created(r) /\ handler[r].pc # "idle"
                          /\ handler[r].td \in {"accepted", "immediate"} /\ handler[r].msg = m
                          /\ Present(messages[m].op) => messages[m].seen # "new"
  <2>1. PICK r \in Requests : /\ ReqOp[r] = messages[m].op /\ Created(r)
                              /\ handler[r].td \in {"accepted", "immediate"} /\ handler[r].msg = m
                              /\ handler[r].client = messages[m].client
    BY Zenon, <1>2, NewMessage
  <2>2. handler[r].pc # "idle"
    BY <2>1 DEF HandlersAgree, Idle, Created
  <2>3. Present(messages[m].op) => handler[r].client = client
    BY <1>2, <2>1 DEF OperationsAgree, OneCreator, Created
  <2> QED BY Zenon, <1>1, <2>1, <2>2, <2>3
<1>6. HandlersAgree' /\ OneCreator'
  BY SMTT(30), <1>1, <1>2, <1>3 DEF HandlersAgree, Created, OneCreator
<1> QED BY Zenon, <1>1, <1>2, <1>3, <1>4, <1>5, <1>6

\* The report of a message that no unsettled operation is bound to.
LEMMA ReportUnbound ==
  ASSUME IInv, NEW m \in MessageIds, Report(m), UNCHANGED <<sends, sending_ids, old, journal>>,
         send_messages[m] # None => sends[send_messages[m]].state \in Settled
  PROVE  IInv'
<1>0. TypeOK /\ HandlersAgree /\ SessionAgrees /\ OperationsAgree /\ UnderWay /\ OldIsQuiet /\ TablesAgree
      /\ PendingIsReachable /\ VerdictsTrue
  BY Zenon DEF IInv
<1>a. /\ UNCHANGED <<phase, client, epoch, auth, known, handler>>
      /\ messages' \in [MessageIds -> Message] /\ messages'[m].seen = "reported"
      /\ send_messages' \in [MessageIds -> Ops \cup {None}] /\ send_messages'[m] = None
      /\ \A n \in MessageIds \ {m} : send_messages'[n] = send_messages[n]
      /\ HandlersAgree' /\ OneCreator'
  BY Zenon, ReportFacts DEF accountVars
<1>b. \A n \in MessageIds : /\ messages'[n].op = messages[n].op /\ messages'[n].sid = messages[n].sid
                            /\ messages'[n].client = messages[n].client /\ messages'[n].fate = messages[n].fate
  BY ReportFacts
<1>c. \A n \in MessageIds : n # m => messages'[n].seen = messages[n].seen
  BY ReportFacts
<1>d. \A p : (Present(p)' <=> Present(p)) /\ (Unsettled(p)' <=> Unsettled(p))
  BY Zenon DEF Present, Unsettled
<1>1. TypeOK'
  BY Zenon, <1>0, <1>a DEF TypeOK
<1>2. SessionAgrees'
  BY Zenon, <1>0, <1>a, <1>b, <1>d DEF SessionAgrees, Serving
<1>3. OperationsAgree'
  <2>1. \A p \in Ops : Present(p) /\ sends[p].temp # None => sends[p].temp \in MessageIds
    BY Zenon, <1>0 DEF TypeOK, Operation
  <2>2. ASSUME NEW p \in Ops, Present(p)
        PROVE  \E r \in Requests :
                 /\ ReqOp[r] = p
                 /\ handler[r].sid = sends[p].sid
                 /\ handler[r].client = client
                 /\ sends[p].state = "preparing" => handler[r].pc \in {"lookup", "claim"}
                 /\ sends[p].state \notin Settled /\ sends[p].temp = None /\ handler[r].td = "accepted"
                      => messages'[handler[r].msg].seen = "new"
    <3>1. PICK r \in Requests :
                 /\ ReqOp[r] = p
                 /\ handler[r].sid = sends[p].sid
                 /\ handler[r].client = client
                 /\ sends[p].state = "preparing" => handler[r].pc \in {"lookup", "claim"}
                 /\ sends[p].state \notin Settled /\ sends[p].temp = None /\ handler[r].td = "accepted"
                      => messages[handler[r].msg].seen = "new"
      BY Zenon, <1>0, <2>2 DEF OperationsAgree
    <3>2. handler[r].td = "accepted" => handler[r].msg \in MessageIds /\ messages[handler[r].msg].op = p
      BY Zenon, <1>0, <3>1 DEF HandlersAgree
    <3>3. Present(messages[m].op) => messages[m].seen # "new"
      BY Zenon, ReportFacts
    <3> QED BY Zenon, <1>c, <2>2, <3>1, <3>2, <3>3
  <2>3. ASSUME NEW p \in Ops, Present(p)
        PROVE  /\ known /\ sends[p].epoch = epoch /\ sends[p].auth <= auth /\ sends[p].sid # None
               /\ sends[p].state \in {"preparing", "dispatching"} => sends[p].temp = None
               /\ sends[p].temp # None => messages'[sends[p].temp].op = p
    BY <1>0, <1>b, <2>1, <2>3 DEF OperationsAgree
  <2> QED BY <1>a, <1>d, <2>2, <2>3 DEF OperationsAgree
<1>4. UnderWay'
  BY Zenon, <1>0, <1>a, <1>b, <1>c, <1>d DEF UnderWay, Serving
<1>5. OldIsQuiet'
  BY <1>0, <1>a, <1>b, <1>c, <1>d DEF OldIsQuiet, TypeOK
<1>6. TablesAgree'
  BY <1>0, <1>a, <1>b, <1>d DEF TablesAgree
<1>7. PendingIsReachable'
  BY <1>0, <1>a, <1>c, NoneAssumption DEF PendingIsReachable, Settled, TypeOK, Operation
<1>9. VerdictsTrue'
  BY <1>0, <1>a, <1>b DEF VerdictsTrue, Truthful, Verdict, Posted
<1> QED BY Zenon, <1>a, <1>1, <1>2, <1>3, <1>4, <1>5, <1>6, <1>7, <1>9 DEF IInv

\* The report of the message an unsettled operation waits for.
LEMMA ReportSettles ==
  ASSUME IInv, NEW m \in MessageIds, Report(m), NEW o \in Ops, send_messages[m] = o, Unsettled(o),
         NEW v \in Settled, NEW e \in Operation,
         sends' = [sends EXCEPT ![o] = e],
         e.state = v, e.sid = sends[o].sid, e.temp = sends[o].temp,
         e.epoch = sends[o].epoch, e.auth = sends[o].auth,
         sending_ids' = [sending_ids EXCEPT ![sends[o].sid] = None],
         old' = old \ {o}, journal' = journal \cup {<<o, v>>},
         v = "sent" => messages[m].fate = "delivered",
         v = "failed" => messages[m].fate = "refused"
  PROVE  IInv'
<1>i. TypeOK /\ HandlersAgree /\ OneCreator /\ SessionAgrees /\ OperationsAgree /\ UnderWay /\ OldIsQuiet /\ TablesAgree
      /\ PendingIsReachable /\ VerdictsTrue
  BY Zenon DEF IInv
<1>a. /\ UNCHANGED <<phase, client, epoch, auth, known, handler>>
      /\ messages' \in [MessageIds -> Message] /\ messages'[m].seen = "reported"
  BY Zenon, ReportFacts DEF accountVars
<1>b. \A n \in MessageIds : /\ messages'[n].op = messages[n].op /\ messages'[n].sid = messages[n].sid
                            /\ messages'[n].client = messages[n].client /\ messages'[n].fate = messages[n].fate
  BY Zenon, ReportFacts
<1>c. \A n \in MessageIds : n # m => messages'[n].seen = messages[n].seen
  BY ReportFacts
<1>d. /\ send_messages' \in [MessageIds -> Ops \cup {None}] /\ send_messages'[m] = None
      /\ \A n \in MessageIds \ {m} : send_messages'[n] = send_messages[n]
  BY Zenon, ReportFacts
<1>e. HandlersAgree' /\ OneCreator' /\ (Present(messages[m].op) => messages[m].seen # "new")
  BY Zenon, ReportFacts
<1>f. \E r \in Requests : /\ ReqOp[r] = messages[m].op /\ Created(r) /\ handler[r].pc # "idle"
                          /\ handler[r].td \in {"accepted", "immediate"} /\ handler[r].msg = m
  BY Zenon, ReportFacts
<1>0. Present(o) /\ sends[o].temp = m /\ messages[m].op = o /\ messages[m].seen # "new"
  BY Zenon, <1>i, <1>e, NoneAssumption DEF TablesAgree
<1>1. /\ sends' \in [Ops -> Operation]
      /\ sends'[o] = e
      /\ \A p \in Ops \ {o} : sends'[p] = sends[p]
  BY Zenon, <1>i DEF TypeOK
<1>g. PICK k \in SendingIds : k = sends[o].sid
  <2>1. sends[o].sid \in SendingIds \cup {None}
    BY Zenon, <1>i DEF TypeOK, Operation
  <2>2. sends[o].sid # None
    BY Zenon, <1>i, <1>0 DEF OperationsAgree
  <2> QED BY Zenon, <2>1, <2>2
<1>2. /\ sending_ids' \in [SendingIds -> Ops \cup {None}]
      /\ sending_ids'[k] = None
      /\ \A s \in SendingIds \ {k} : sending_ids'[s] = sending_ids[s]
  BY Zenon, <1>i, <1>g DEF TypeOK
<1>3. PICK r \in Requests : /\ ReqOp[r] = o /\ Created(r) /\ handler[r].pc # "idle"
                            /\ handler[r].td \in {"accepted", "immediate"} /\ handler[r].msg = m
  BY Zenon, <1>0, <1>f
<1>4. \A q \in Requests : ReqOp[q] = o /\ Created(q) => q = r
  BY <1>i, <1>3 DEF OneCreator
<1>5. \A n \in MessageIds : messages[n].op = o => n = m
  <2> SUFFICES ASSUME NEW n \in MessageIds, messages[n].op = o PROVE n = m
    BY Zenon
  <2>1. PICK q \in Requests : ReqOp[q] = o /\ Created(q) /\ handler[q].msg = n
    BY NewMessage, NoneAssumption
  <2> QED BY Zenon, <1>3, <1>4, <2>1
<1>h. /\ \A p \in Ops : Present(p)' <=> Present(p)
      /\ \A p \in Ops : Unsettled(p)' <=> Unsettled(p) /\ p # o
  BY Zenon, <1>0, <1>1 DEF Present, Unsettled, Settled
<1>j. \A p \in Ops : /\ sends'[p].sid = sends[p].sid /\ sends'[p].temp = sends[p].temp
                     /\ sends'[p].epoch = sends[p].epoch /\ sends'[p].auth = sends[p].auth
                     /\ sends'[p].state = sends[p].state \/ (p = o /\ sends'[p].state \in Settled)
  BY Zenon, <1>1
<1>6. TypeOK'
  BY <1>i, <1>a, <1>d, <1>1, <1>2 DEF TypeOK, Settled
<1>7. SessionAgrees'
  BY Zenon, <1>i, <1>a, <1>b, <1>h DEF SessionAgrees, Serving
<1>8. OperationsAgree'
  <2>1. \A p \in Ops : Present(p) /\ sends[p].temp # None => sends[p].temp \in MessageIds
    BY Zenon, <1>i DEF TypeOK, Operation
  <2>2. ASSUME NEW p \in Ops, Present(p)
        PROVE  \E q \in Requests :
                 /\ ReqOp[q] = p
                 /\ handler[q].sid = sends'[p].sid
                 /\ handler[q].client = client
                 /\ sends'[p].state = "preparing" => handler[q].pc \in {"lookup", "claim"}
                 /\ sends'[p].state \notin Settled /\ sends'[p].temp = None /\ handler[q].td = "accepted"
                      => messages'[handler[q].msg].seen = "new"
    <3>1. PICK q \in Requests :
                 /\ ReqOp[q] = p
                 /\ handler[q].sid = sends[p].sid
                 /\ handler[q].client = client
                 /\ sends[p].state = "preparing" => handler[q].pc \in {"lookup", "claim"}
                 /\ sends[p].state \notin Settled /\ sends[p].temp = None /\ handler[q].td = "accepted"
                      => messages[handler[q].msg].seen = "new"
      BY Zenon, <1>i, <2>2 DEF OperationsAgree
    <3>2. handler[q].td = "accepted" => handler[q].msg \in MessageIds
      BY Zenon, <1>i DEF HandlersAgree
    <3> QED BY <1>c, <1>0, <1>j, <3>1, <3>2 DEF Settled
  <2>3. ASSUME NEW p \in Ops, Present(p)
        PROVE  /\ known /\ sends'[p].epoch = epoch /\ sends'[p].auth <= auth /\ sends'[p].sid # None
               /\ sends'[p].state \in {"preparing", "dispatching"} => sends'[p].temp = None
               /\ sends'[p].temp # None => messages'[sends'[p].temp].op = p
    <3>1. /\ known /\ sends[p].epoch = epoch /\ sends[p].auth <= auth /\ sends[p].sid # None
          /\ sends[p].state \in {"preparing", "dispatching"} => sends[p].temp = None
          /\ sends[p].temp # None => messages[sends[p].temp].op = p
      BY Zenon, <1>i, <2>3 DEF OperationsAgree
    <3> QED BY <1>b, <1>j, <2>1, <2>3, <3>1 DEF Settled
  <2> QED BY <1>a, <1>h, <2>2, <2>3 DEF OperationsAgree
<1>9. UnderWay'
  <2>1. \A q \in Requests : ReqOp[q] = o => handler[q].td # "queued" /\ handler[q].pc \notin {"lookup", "claim", "begin"}
    BY Zenon, <1>i, <1>3, <1>4 DEF HandlersAgree
  <2>2. \A n \in MessageIds : messages'[n].seen = "new" => messages[n].seen = "new" /\ messages[n].op # o
    BY Zenon, <1>a, <1>c, <1>5
  <2>3. \A n \in MessageIds : messages[n].op \in Ops \cup {None}
    BY Zenon, <1>i DEF TypeOK, Message
  <2>4. \A n \in MessageIds : messages[n].seen = "new" => messages[n].op \in Ops
    BY Zenon, <1>i, <2>3 DEF OneCreator
  <2> QED BY <1>i, <1>a, <1>b, <1>h, <2>1, <2>2, <2>4, RequestAssumption DEF UnderWay, Serving
<1>10. OldIsQuiet'
  <2>1. \A p \in old' : p \in old /\ p \in Ops
    BY Zenon, <1>i DEF TypeOK
  <2> QED BY <1>i, <1>a, <1>b, <1>c, <1>h, <2>1 DEF OldIsQuiet
<1>11. TablesAgree'
  <2>1. \A p \in Ops : Unsettled(p)' => sending_ids'[sends'[p].sid] = p
    <3> SUFFICES ASSUME NEW p \in Ops, Unsettled(p), p # o PROVE sending_ids'[sends[p].sid] = p
      BY <1>h, <1>j
    <3>1. sending_ids[sends[p].sid] = p /\ sending_ids[k] = o
      BY Zenon, <1>i, <1>g DEF TablesAgree
    <3>2. sends[p].sid \in SendingIds
      <4>1. sends[p].sid \in SendingIds \cup {None} /\ Present(p)
        BY Zenon, <1>i DEF TypeOK, Operation, Unsettled, Present
      <4> QED BY Zenon, <1>i, <4>1 DEF OperationsAgree
    <3> QED BY Zenon, <1>2, <3>1, <3>2
  <2>2. ASSUME NEW s \in SendingIds, NEW p, p = sending_ids'[s], p # None
        PROVE  Unsettled(p)' /\ sends'[p].sid = s
    <3>1. s # k /\ p = sending_ids[s] /\ p \in Ops
      BY Zenon, <1>2, <2>2
    <3>2. Unsettled(p) /\ sends[p].sid = s
      BY <1>i, <2>2, <3>1 DEF TablesAgree
    <3> QED BY Zenon, <1>g, <1>h, <1>j, <3>1, <3>2
  <2>3. ASSUME NEW n \in MessageIds, NEW p, p = send_messages'[n], p # None
        PROVE  Present(p)' /\ sends'[p].temp = n /\ messages'[n].op = p
    <3>1. p = send_messages[n] /\ p \in Ops
      BY Zenon, <1>d, <2>3
    <3>2. Present(p) /\ sends[p].temp = n /\ messages[n].op = p
      BY <1>i, <2>3, <3>1 DEF TablesAgree
    <3> QED BY Zenon, <1>b, <1>h, <1>j, <3>1, <3>2
  <2> QED BY <2>1, <2>2, <2>3 DEF TablesAgree, Unsettled, Present
<1>12. PendingIsReachable'
  <2> SUFFICES ASSUME NEW p \in Ops, sends'[p].state = "pending"
               PROVE  /\ sends'[p].temp # None /\ send_messages'[sends'[p].temp] = p
                      /\ messages'[sends'[p].temp].seen # "reported"
    BY Zenon DEF PendingIsReachable
  <2>1. p # o /\ sends[p].state = "pending" /\ sends'[p].temp = sends[p].temp
    BY Zenon, <1>1, <1>j DEF Settled
  <2>2. /\ sends[p].temp # None /\ send_messages[sends[p].temp] = p
        /\ messages[sends[p].temp].seen # "reported"
    BY Zenon, <1>i, <2>1 DEF PendingIsReachable
  <2>3. sends[p].temp \in MessageIds
    BY Zenon, <1>i, <2>2 DEF TypeOK, Operation
  <2> QED BY <1>c, <1>d, <2>1, <2>2, <2>3
<1>14. VerdictsTrue'
  <2>1. \A p \in Ops : /\ Verdict(p, "failed")' => Verdict(p, "failed") \/ (p = o /\ v = "failed")
                       /\ Verdict(p, "sent")' => Verdict(p, "sent") \/ (p = o /\ v = "sent")
    BY Zenon, <1>a, <1>1 DEF Verdict
  <2>2. \A x \in journal' : Posted(x[1])'
    BY <1>i, <1>a, <1>3 DEF VerdictsTrue, Posted
  <2>3. v = "failed" => /\ \A n \in MessageIds : messages[n].op = o => messages[n].fate = "refused"
                        /\ \A q \in Requests : ReqOp[q] = o => handler[q].td # "queued"
                        /\ \A q \in Requests : ReqOp[q] = o => handler[q].pc \notin {"lookup", "claim", "begin"}
    BY ZenonT(30), <1>i, <1>3, <1>4, <1>5 DEF HandlersAgree
  <2>4. /\ \A p \in Ops : Verdict(p, "failed") =>
             /\ \A n \in MessageIds : messages[n].op = p => messages[n].fate = "refused"
             /\ \A q \in Requests : ReqOp[q] = p => handler[q].td # "queued"
        /\ \A p \in Ops : Verdict(p, "sent") => \E n \in MessageIds : messages[n].op = p /\ messages[n].fate = "delivered"
        /\ \A p \in Ops : Verdict(p, "failed") =>
             \A q \in Requests : ReqOp[q] = p => handler[q].pc \notin {"lookup", "claim", "begin"}
    BY Zenon, <1>i DEF VerdictsTrue, Truthful
  <2>5. Truthful'
    <3>1. ASSUME NEW p \in Ops, Verdict(p, "failed")'
          PROVE  /\ \A n \in MessageIds : messages'[n].op = p => messages'[n].fate = "refused"
                 /\ \A q \in Requests : ReqOp[q] = p => handler'[q].td # "queued"
      BY <1>a, <1>b, <2>1, <2>3, <2>4, <3>1
    <3>2. ASSUME NEW p \in Ops, Verdict(p, "sent")'
          PROVE  \E n \in MessageIds : messages'[n].op = p /\ messages'[n].fate = "delivered"
      BY <1>b, <1>0, <2>1, <2>4, <3>2
    <3> QED BY Zenon, <3>1, <3>2 DEF Truthful
  <2>6. ASSUME NEW p \in Ops, Verdict(p, "failed")', NEW q \in Requests, ReqOp[q] = p
        PROVE  handler'[q].pc \notin {"lookup", "claim", "begin"}
    BY Zenon, <1>a, <2>1, <2>3, <2>4, <2>6
  <2> QED BY Zenon, <2>2, <2>5, <2>6 DEF VerdictsTrue
<1> QED BY Zenon, <1>e, <1>6, <1>7, <1>8, <1>9, <1>10, <1>11, <1>12, <1>14 DEF IInv
=============================================================================
