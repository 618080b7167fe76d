---------------------------- MODULE TdSendProofs ----------------------------
(***************************************************************************)
(* TdSend: the handlers preserve the inductive invariant, the theorems     *)
(* that follow from it, which steps can add an operation to the table, and *)
(* that a verdict stands.                                                  *)
(***************************************************************************)
EXTENDS TdSendSteps


\* Finish, as the two lemmas about settling see it.
LEMMA FinishFacts ==
  ASSUME TypeOK, NEW o \in Ops, NEW retryable \in BOOLEAN, Finish(o, retryable), Unsettled(o)
  PROVE  \E e \in Operation :
           /\ sends' = [sends EXCEPT ![o] = e]
           /\ e.state = "failed" /\ e.sid = sends[o].sid /\ e.temp = sends[o].temp
           /\ e.epoch = sends[o].epoch /\ e.auth = sends[o].auth
           /\ sending_ids' = [sending_ids EXCEPT ![sends[o].sid] = None]
           /\ old' = old \ {o} /\ journal' = journal \cup {<<o, "failed">>}
<1> DEFINE e == [sends[o] EXCEPT !.state = "failed", !.retryable = retryable]
<1>1. sends[o] \in Operation
  BY Zenon DEF TypeOK
<1>2. /\ e \in Operation /\ e.state = "failed" /\ e.sid = sends[o].sid /\ e.temp = sends[o].temp
      /\ e.epoch = sends[o].epoch /\ e.auth = sends[o].auth
  BY Zenon, <1>1 DEF Operation, Settled
<1>3. /\ sends' = [sends EXCEPT ![o] = e]
      /\ sending_ids' = [sending_ids EXCEPT ![sends[o].sid] = None]
      /\ old' = old \ {o} /\ journal' = journal \cup {<<o, "failed">>}
  BY Zenon DEF Finish, Unsettled
<1> QED BY Zenon, <1>2, <1>3

\* What MarkSent does to the tables.
LEMMA MarkSentFacts ==
  ASSUME TypeOK, NEW o \in Ops, MarkSent(o)
  PROVE  \E e \in Operation :
           /\ sends' = [sends EXCEPT ![o] = e]
           /\ e.state = "sent" /\ e.sid = sends[o].sid /\ e.temp = sends[o].temp
           /\ e.epoch = sends[o].epoch /\ e.auth = sends[o].auth
           /\ sending_ids' = [sending_ids EXCEPT ![sends[o].sid] = None]
           /\ old' = old \ {o} /\ journal' = journal \cup {<<o, "sent">>}
<1> DEFINE e == [sends[o] EXCEPT !.state = "sent"]
<1>1. sends[o] \in Operation
  BY Zenon DEF TypeOK
<1>2. /\ e \in Operation /\ e.state = "sent" /\ e.sid = sends[o].sid /\ e.temp = sends[o].temp
      /\ e.epoch = sends[o].epoch /\ e.auth = sends[o].auth
  BY Zenon, <1>1 DEF Operation, Settled
<1> QED BY ZenonT(30), <1>2 DEF MarkSent

\* A handler that finishes its operation and waits.
LEMMA HandlerFinishes ==
  ASSUME IInv, NEW r \in Requests, NEW retryable \in BOOLEAN, Finish(ReqOp[r], retryable), Goto(r, "waiting"),
         UNCHANGED <<accountVars, send_messages, messages>>,
         Created(r), handler[r].pc # "idle", handler[r].td \in {"none", "refused"}, 
         handler[r].pc # "done"
  PROVE  IInv'
<1> USE DEF IInv
<1>1. handler' = [handler EXCEPT ![r].pc = "waiting"] /\ ReqOp[r] \in Ops
  BY Zenon, RequestAssumption DEF Goto
<1>2. CASE Unsettled(ReqOp[r])
  BY ZenonT(30), <1>1, <1>2, FinishFacts, HandlerSettles DEF Settled
<1>3. CASE ~Unsettled(ReqOp[r])
  <2>1. UNCHANGED <<sends, sending_ids, old, journal>>
    BY Zenon, <1>3 DEF Finish, Unsettled
  <2> DEFINE h == [handler[r] EXCEPT !.pc = "waiting"]
  <2>2. handler[r] \in Handler
    BY Zenon DEF TypeOK
  <2>3. /\ h \in Handler /\ h.pc = "waiting" /\ h.sid = handler[r].sid /\ h.client = handler[r].client
        /\ h.msg = handler[r].msg /\ h.td = handler[r].td /\ h.answer = handler[r].answer /\ h.reply = handler[r].reply
    BY Zenon, <2>2 DEF Handler
  <2>4. handler' = [handler EXCEPT ![r] = h]
    BY Zenon, <1>1
  <2>5. sends[ReqOp[r]].state # "preparing"
    BY ZenonT(30), <1>3 DEF Unsettled, Present, Settled
  <2>6. \A s \in Settled : handler[r].reply = s => Verdict(ReqOp[r], s)
    BY ZenonT(30) DEF Verdict
  <2>7. handler[r].answer = "pending" => handler[r].td = "accepted"
    BY ZenonT(30) DEF HandlersAgree
  <2>8. /\ handler[r].answer = "final" => handler[r].td = "immediate"
        /\ handler[r].answer = "error" => handler[r].td = "refused"
        /\ handler[r].answer = "busy" => handler[r].td = "none"
    BY ZenonT(30) DEF HandlersAgree
  <2> HIDE DEF h
  <2> QED BY Zenon, <2>1, <2>3, <2>4, <2>5, <2>6, <2>7, <2>8, HandlerMoves DEF tableVars
<1> QED BY Zenon, <1>2, <1>3

\* Claim keeps the invariant: an operation that is still preparing is
\* dispatched by the request that created it, any other is only waited for.
LEMMA ClaimKeeps ==
  ASSUME IInv, NEW r \in Requests, Claim(r)
  PROVE  IInv'
<1> DEFINE o == ReqOp[r]
<1> USE DEF IInv, accountVars, tableVars
<1>0. /\ o \in Ops /\ handler[r].pc = "claim" /\ Created(r)
      /\ handler[r].td = "none" /\ handler[r].answer = "none"
  BY Zenon, RequestAssumption DEF Claim, HandlersAgree
<1>1. CASE sends[o].state = "preparing"
  <2> DEFINE e == [sends[o] EXCEPT !.state = "dispatching"]
  <2>1. /\ handler' = [handler EXCEPT ![r].pc = "begin"] /\ sends' = [sends EXCEPT ![o] = e]
        /\ UNCHANGED <<accountVars, sending_ids, send_messages, old, journal, messages>>
    BY Zenon, <1>1 DEF Claim, Goto
  <2>2. sends[o] \in Operation
    BY Zenon, <1>0 DEF TypeOK
  <2>3. /\ e \in Operation /\ e.state = "dispatching" /\ e.sid = sends[o].sid /\ e.temp = sends[o].temp
        /\ e.epoch = sends[o].epoch /\ e.auth = sends[o].auth
    BY Zenon, <2>2 DEF Operation
  <2> HIDE DEF e
  <2>4. /\ sends' \in [Ops -> Operation]
        /\ sends'[o] = e
        /\ \A p \in Ops \ {o} : sends'[p] = sends[p]
    BY Zenon, <1>0, <2>1, <2>3 DEF TypeOK
  <2>5. /\ handler' \in [Requests -> Handler]
        /\ handler'[r].pc = "begin"
        /\ \A q \in Requests : /\ q # r => handler'[q] = handler[q]
                               /\ handler'[q].sid = handler[q].sid /\ handler'[q].td = handler[q].td
                               /\ handler'[q].msg = handler[q].msg /\ handler'[q].client = handler[q].client
                               /\ handler'[q].answer = handler[q].answer /\ handler'[q].reply = handler[q].reply
    BY Zenon, <2>1, GotoFacts
  <2>6. TypeOK'
    BY Zenon, <2>1, <2>4, <2>5 DEF TypeOK
  <2>7. \A q \in Requests : Created(q)' <=> Created(q)
    BY Zenon, <2>5 DEF Created
  <2>8. \A p \in Ops : Present(p)' <=> Present(p)
    BY Zenon, <1>1, <2>3, <2>4 DEF Present
  <2>9. \A p \in Ops : Unsettled(p)' <=> Unsettled(p)
    BY ZenonT(30), <1>1, <2>3, <2>4, <2>8 DEF Unsettled, Settled
  <2>10. HandlersAgree'
    BY <1>0, <2>1, <2>5, <2>7 DEF HandlersAgree, Created
  <2>11. OneCreator'
    BY <2>1, <2>5, <2>7 DEF OneCreator
  <2>12. SessionAgrees'
    BY Zenon, <2>1, <2>5, <2>8 DEF SessionAgrees, Serving
  <2>13. OperationsAgree'
    <3> SUFFICES ASSUME NEW p \in Ops, Present(p)
                 PROVE  OperationsAgree!(p)!2'
      BY Zenon, <2>8 DEF OperationsAgree
    <3> QED
      BY SMTT(30), <1>0, <1>1, <2>1, <2>3, <2>4, <2>5, <2>7 DEF OperationsAgree, Settled, OneCreator, Created
  <2>14. UnderWay'
    BY SMTT(30), <1>0, <2>1, <2>5, <2>9, RequestAssumption DEF UnderWay, Serving, OneCreator, TypeOK, Message
  <2>15. OldIsQuiet'
    BY SMTT(30), <1>0, <2>1, <2>5, <2>8 DEF OldIsQuiet, TypeOK
  <2>16. TablesAgree'
    BY SMTT(30), <2>1, <2>3, <2>4, <2>8, <2>9 DEF TablesAgree, TypeOK
  <2>17. PendingIsReachable'
    BY Zenon, <2>1, <2>3, <2>4 DEF PendingIsReachable
  <2>19. VerdictsTrue'
    <3>1. \A p \in Ops, s \in Settled : Verdict(p, s)' => Verdict(p, s)
      BY SMTT(30), <2>1, <2>3, <2>4, <2>5 DEF Verdict, Settled
    <3>2. \A p \in Ops : Posted(p) => Posted(p)'
      BY Zenon, <2>5 DEF Posted
    <3>3. \A x \in journal' : Posted(x[1])'
      BY Zenon, <2>1, <3>2 DEF VerdictsTrue, TypeOK
    <3>4. "sent" \in Settled /\ "failed" \in Settled
      BY Zenon DEF Settled
    <3> QED BY SMTT(30), <1>0, <2>1, <2>5, <3>1, <3>3, <3>4 DEF VerdictsTrue, Truthful
  <2> QED BY Zenon, <2>6, <2>10, <2>11, <2>12, <2>13, <2>14, <2>15, <2>16, <2>17, <2>19
<1>2. CASE sends[o].state # "preparing"
  <2> DEFINE h == [handler[r] EXCEPT !.pc = "waiting"]
  <2>1. handler' = [handler EXCEPT ![r] = h] /\ UNCHANGED <<accountVars, tableVars, messages>>
    BY Zenon, <1>2 DEF Claim, Goto
  <2>2. handler[r] \in Handler
    BY Zenon DEF TypeOK
  <2>3. /\ h \in Handler /\ h.pc = "waiting" /\ h.sid = handler[r].sid /\ h.client = handler[r].client
        /\ h.msg = handler[r].msg /\ h.td = handler[r].td /\ h.answer = handler[r].answer /\ h.reply = handler[r].reply
    BY Zenon, <2>2 DEF Handler
  <2>4. \A s \in Settled : handler[r].reply = s => Verdict(ReqOp[r], s)
    BY Zenon DEF Verdict
  <2> HIDE DEF h
  <2> QED BY ZenonT(30), <1>0, <1>2, <2>1, <2>3, <2>4, HandlerMoves
<1> QED BY Zenon, <1>1, <1>2

\* The steps of a handler, and TDLib's refusal, that change nothing but the
\* handler keep the invariant: AwaitTimeout, Complete, AwaitOutcome, TdRefuse.
LEMMA HandlerOnlyKeeps ==
  ASSUME IInv, NEW r \in Requests,
         AwaitTimeout(r) \/ Complete(r) \/ AwaitOutcome(r) \/ TdRefuse(r)
  PROVE  IInv'
<1> USE DEF IInv
<1>0. handler[r] \in Handler /\ ReqOp[r] \in Ops
  BY Zenon, RequestAssumption DEF TypeOK
<1>1. \A s \in Settled : handler[r].reply = s => Verdict(ReqOp[r], s)
  BY Zenon DEF Verdict
<1>2. Created(r) /\ sends[ReqOp[r]].state = "preparing" => handler[r].pc \in {"lookup", "claim"}
  BY SMTT(30), <1>0 DEF OperationsAgree, Present, OneCreator, Created
<1>3. CASE AwaitTimeout(r)
  <2> DEFINE h == [handler[r] EXCEPT !.pc = "answered", !.answer = "timeout"]
  <2>1. handler' = [handler EXCEPT ![r] = h] /\ UNCHANGED <<accountVars, tableVars, messages>>
    BY Zenon, <1>3 DEF AwaitTimeout
  <2>2. /\ h \in Handler /\ h.pc = "answered" /\ h.sid = handler[r].sid /\ h.client = handler[r].client
        /\ h.msg = handler[r].msg /\ h.td = handler[r].td /\ h.answer = "timeout" /\ h.reply = handler[r].reply
    BY ZenonT(30), <1>0 DEF Handler
  <2>3. handler[r].pc = "await" /\ Created(r)
    BY Zenon, <1>3 DEF AwaitTimeout, HandlersAgree
  <2> HIDE DEF h
  <2> QED BY Zenon, <1>1, <1>2, <2>1, <2>2, <2>3, HandlerMoves
<1>4. CASE Complete(r)
  <2> DEFINE a == CASE handler[r].td = "accepted" -> "pending"
                    [] handler[r].td = "immediate" -> "final"
                    [] handler[r].td = "refused" -> "error"
             h == [handler[r] EXCEPT !.pc = "answered", !.answer = a]
  <2>1. handler' = [handler EXCEPT ![r] = h] /\ UNCHANGED <<accountVars, tableVars, messages>>
    BY Zenon, <1>4 DEF Complete
  <2>2. handler[r].pc = "await" /\ Created(r) /\ handler[r].td \in {"accepted", "immediate", "refused"}
    BY Zenon, <1>4 DEF Complete, HandlersAgree
  <2>3. \/ handler[r].td = "accepted" /\ a = "pending"
        \/ handler[r].td = "immediate" /\ a = "final"
        \/ handler[r].td = "refused" /\ a = "error"
    BY Zenon, <2>2
  <2> HIDE DEF a
  <2>4. /\ h \in Handler /\ h.pc = "answered" /\ h.sid = handler[r].sid /\ h.client = handler[r].client
        /\ h.msg = handler[r].msg /\ h.td = handler[r].td /\ h.answer = a /\ h.reply = handler[r].reply
    BY ZenonT(30), <1>0, <2>3 DEF Handler
  <2> HIDE DEF h
  <2> QED BY Zenon, <1>1, <1>2, <2>1, <2>2, <2>3, <2>4, HandlerMoves
<1>5. CASE AwaitOutcome(r)
  <2> DEFINE v == IF Present(ReqOp[r]) THEN PublicState(sends[ReqOp[r]].state) ELSE "unknown"
             h == [handler[r] EXCEPT !.pc = "done", !.reply = v]
  <2>1. handler' = [handler EXCEPT ![r] = h] /\ UNCHANGED <<accountVars, tableVars, messages>>
    BY Zenon, <1>5 DEF AwaitOutcome
  <2>2. handler[r].pc = "waiting"
    BY Zenon, <1>5 DEF AwaitOutcome
  <2>3. /\ v \in {"pending", "unknown"} \cup Settled
        /\ \A s \in Settled : v = s => sends[ReqOp[r]].state = s
    BY Zenon DEF PublicState, Settled
  <2> HIDE DEF v
  <2>4. /\ h \in Handler /\ h.pc = "done" /\ h.sid = handler[r].sid /\ h.client = handler[r].client
        /\ h.msg = handler[r].msg /\ h.td = handler[r].td /\ h.answer = handler[r].answer /\ h.reply = v
    BY ZenonT(30), <1>0, <2>3 DEF Handler
  <2>5. \A s \in Settled : h.reply = s => Verdict(ReqOp[r], s)
    BY Zenon, <2>3, <2>4 DEF Verdict
  <2>6. /\ h.answer = "pending" => h.td = "accepted"
        /\ h.answer = "final" => h.td = "immediate"
        /\ h.answer = "error" => h.td = "refused"
        /\ h.answer = "busy" => h.td = "none"
    BY <2>4 DEF HandlersAgree
  <2>7. ~(Created(r) /\ sends[ReqOp[r]].state = "preparing")
    BY Zenon, <1>2, <2>2
  <2> HIDE DEF h
  <2> QED BY Zenon, <2>1, <2>2, <2>4, <2>5, <2>6, <2>7, HandlerMoves
<1>6. CASE TdRefuse(r)
  <2> DEFINE h == [handler[r] EXCEPT !.td = "refused"]
  <2>1. handler' = [handler EXCEPT ![r] = h] /\ UNCHANGED <<accountVars, tableVars, messages>>
    BY Zenon, <1>6 DEF TdRefuse
  <2>2. /\ h \in Handler /\ h.pc = handler[r].pc /\ h.sid = handler[r].sid /\ h.client = handler[r].client
        /\ h.msg = handler[r].msg /\ h.td = "refused" /\ h.answer = handler[r].answer /\ h.reply = handler[r].reply
    BY Zenon, <1>0 DEF Handler
  <2>3. handler[r].td = "queued"
    BY Zenon, <1>6 DEF TdRefuse
  <2>4. /\ handler[r].pc \notin {"idle", "lookup", "claim", "begin"}
        /\ handler[r].pc \in {"await", "answered"} => Created(r)
        /\ handler[r].pc = "await" => handler[r].answer = "none"
        /\ handler[r].answer \notin {"pending", "final", "busy", "error"}
    BY SMTT(30), <2>3 DEF HandlersAgree, Idle
  <2> HIDE DEF h
  <2> QED BY ZenonT(30), <1>1, <1>2, <2>1, <2>2, <2>3, <2>4, HandlerMoves
<1> QED BY Zenon, <1>3, <1>4, <1>5, <1>6

\* LookupReply keeps the invariant.
LEMMA LookupReplyKeeps ==
  ASSUME IInv, NEW r \in Requests, LookupReply(r)
  PROVE  IInv'
<1> USE DEF IInv
<1>0. /\ handler[r] \in Handler /\ handler[r].pc = "lookup" /\ Created(r) /\ handler[r].td = "none"
      /\ handler[r].answer = "none" /\ UNCHANGED <<accountVars, messages>>
  BY ZenonT(30) DEF TypeOK, LookupReply, HandlersAgree
<1>1. CASE Goto(r, "claim") /\ UNCHANGED tableVars
  <2> DEFINE h == [handler[r] EXCEPT !.pc = "claim"]
  <2>1. handler' = [handler EXCEPT ![r] = h]
    BY Zenon, <1>1 DEF Goto
  <2>2. /\ h \in Handler /\ h.pc = "claim" /\ h.sid = handler[r].sid /\ h.client = handler[r].client
        /\ h.msg = handler[r].msg /\ h.td = handler[r].td /\ h.answer = handler[r].answer /\ h.reply = handler[r].reply
    BY Zenon, <1>0 DEF Handler
  <2>3. \A s \in Settled : handler[r].reply = s => Verdict(ReqOp[r], s)
    BY Zenon DEF Verdict
  <2> HIDE DEF h
  <2> QED BY ZenonT(30), <1>0, <1>1, <2>1, <2>2, <2>3, HandlerMoves
<1>2. CASE \E retryable \in BOOLEAN : Finish(ReqOp[r], retryable) /\ Goto(r, "waiting") /\ UNCHANGED send_messages
  BY Zenon, <1>0, <1>2, HandlerFinishes
<1> QED BY Zenon, <1>1, <1>2 DEF LookupReply

\* Begin keeps the invariant.
LEMMA BeginKeeps ==
  ASSUME IInv, NEW r \in Requests, Begin(r)
  PROVE  IInv'
<1> USE DEF IInv
<1>0. /\ handler[r] \in Handler /\ handler[r].pc = "begin" /\ Created(r) /\ handler[r].td = "none"
      /\ handler[r].answer = "none" /\ UNCHANGED <<accountVars, messages>> /\ ReqOp[r] \in Ops
  BY Zenon, RequestAssumption DEF TypeOK, Begin, HandlersAgree
<1>1. \A s \in Settled : handler[r].reply = s => Verdict(ReqOp[r], s)
  BY Zenon DEF Verdict
<1>2. sends[ReqOp[r]].state # "preparing"
  BY SMTT(30), <1>0 DEF OperationsAgree, Present, OneCreator, Created
<1>3. CASE /\ handler' = [handler EXCEPT ![r].pc = "await", ![r].td = "queued"]
           /\ UNCHANGED tableVars
  <2> DEFINE h == [handler[r] EXCEPT !.pc = "await", !.td = "queued"]
  <2>1. handler' = [handler EXCEPT ![r] = h]
    BY Zenon, <1>3
  <2>2. /\ h \in Handler /\ h.pc = "await" /\ h.sid = handler[r].sid /\ h.client = handler[r].client
        /\ h.msg = handler[r].msg /\ h.td = "queued" /\ h.answer = handler[r].answer /\ h.reply = handler[r].reply
    BY Zenon, <1>0 DEF Handler
  <2> HIDE DEF h
  <2> QED BY Zenon, <1>0, <1>1, <1>2, <1>3, <2>1, <2>2, HandlerMoves
<1>4. CASE /\ handler' = [handler EXCEPT ![r].pc = "answered", ![r].answer = "busy"]
           /\ UNCHANGED tableVars
  <2> DEFINE h == [handler[r] EXCEPT !.pc = "answered", !.answer = "busy"]
  <2>1. handler' = [handler EXCEPT ![r] = h]
    BY Zenon, <1>4
  <2>2. /\ h \in Handler /\ h.pc = "answered" /\ h.sid = handler[r].sid /\ h.client = handler[r].client
        /\ h.msg = handler[r].msg /\ h.td = handler[r].td /\ h.answer = "busy" /\ h.reply = handler[r].reply
    BY Zenon, <1>0 DEF Handler
  <2> HIDE DEF h
  <2> QED BY Zenon, <1>0, <1>1, <1>2, <1>4, <2>1, <2>2, HandlerMoves
<1>5. CASE Finish(ReqOp[r], TRUE) /\ Goto(r, "waiting") /\ UNCHANGED send_messages
  BY Zenon, <1>0, <1>5, HandlerFinishes
<1> QED BY Zenon, <1>3, <1>4, <1>5 DEF Begin

\* ApplyAnswer keeps the invariant.
LEMMA ApplyAnswerKeeps ==
  ASSUME IInv, NEW r \in Requests, ApplyAnswer(r)
  PROVE  IInv'
<1> USE DEF IInv
<1> DEFINE o == ReqOp[r]
<1>0. /\ handler[r] \in Handler /\ handler[r].pc = "answered" /\ Created(r) /\ o \in Ops
      /\ UNCHANGED <<accountVars, messages>> /\ Goto(r, "waiting")
      /\ handler' = [handler EXCEPT ![r].pc = "waiting"]
  BY Zenon, RequestAssumption DEF TypeOK, ApplyAnswer, HandlersAgree, Goto
<1>1. CASE UNCHANGED tableVars
  <2> DEFINE h == [handler[r] EXCEPT !.pc = "waiting"]
  <2>1. handler' = [handler EXCEPT ![r] = h]
    BY Zenon, <1>0
  <2>2. /\ h \in Handler /\ h.pc = "waiting" /\ h.sid = handler[r].sid /\ h.client = handler[r].client
        /\ h.msg = handler[r].msg /\ h.td = handler[r].td /\ h.answer = handler[r].answer /\ h.reply = handler[r].reply
    BY Zenon, <1>0 DEF Handler
  <2>3. \A s \in Settled : handler[r].reply = s => Verdict(ReqOp[r], s)
    BY Zenon DEF Verdict
  <2>4. /\ handler[r].answer = "pending" => handler[r].td = "accepted"
        /\ handler[r].answer = "final" => handler[r].td = "immediate"
        /\ handler[r].answer = "error" => handler[r].td = "refused"
        /\ handler[r].answer = "busy" => handler[r].td = "none"
    BY Zenon DEF HandlersAgree
  <2>5. sends[o].state # "preparing"
    BY <1>0 DEF OperationsAgree, Present, OneCreator, Created
  <2> HIDE DEF h
  <2> QED BY ZenonT(30), <1>0, <1>1, <2>1, <2>2, <2>3, <2>4, <2>5, HandlerMoves
<1>2. CASE /\ Present(o)
           /\ handler[r].answer = "pending"
           /\ Bind(o, handler[r].msg, {"dispatching"})
           /\ UNCHANGED <<sending_ids, old>>
  BY Zenon, <1>0, <1>2, HandlerBinds
<1>3. CASE /\ Present(o)
           /\ handler[r].answer = "final"
           /\ IF sends[o].state = "dispatching"
              THEN MarkSent(o)
              ELSE UNCHANGED <<sends, sending_ids, old, journal>>
           /\ UNCHANGED send_messages
  <2>1. CASE sends[o].state = "dispatching"
    <3>1. Unsettled(o) /\ handler[r].td = "immediate"
      BY Zenon, <1>3, <2>1 DEF Unsettled, Settled, HandlersAgree
    <3>2. MarkSent(o)
      BY Zenon, <1>3, <2>1
    <3>3. "sent" \in Settled
      BY Zenon DEF Settled
    <3>4. PICK e \in Operation :
             /\ sends' = [sends EXCEPT ![o] = e]
             /\ e.state = "sent" /\ e.sid = sends[o].sid /\ e.temp = sends[o].temp
             /\ e.epoch = sends[o].epoch /\ e.auth = sends[o].auth
             /\ sending_ids' = [sending_ids EXCEPT ![sends[o].sid] = None]
             /\ old' = old \ {o} /\ journal' = journal \cup {<<o, "sent">>}
      BY Zenon, <1>0, <3>2, MarkSentFacts
    <3> QED BY ZenonT(30), <1>0, <1>3, <3>1, <3>3, <3>4, HandlerSettles
  <2>2. CASE sends[o].state # "dispatching"
    BY Zenon, <1>1, <1>3, <2>2 DEF tableVars
  <2> QED BY Zenon, <2>1, <2>2
<1>4. CASE /\ Present(o)
           /\ handler[r].answer \in {"error", "busy"}
           /\ \E retryable \in (IF handler[r].answer = "busy" THEN {TRUE} ELSE BOOLEAN) :
                Finish(o, retryable)
           /\ UNCHANGED send_messages
  <2>1. handler[r].td \in {"none", "refused"}
    BY ZenonT(30), <1>4 DEF HandlersAgree
  <2>2. PICK retryable \in BOOLEAN : Finish(o, retryable)
    BY Zenon, <1>4
  <2> QED BY Zenon, <1>0, <1>4, <2>1, <2>2, HandlerFinishes
<1> QED BY Zenon, <1>1, <1>2, <1>3, <1>4 DEF ApplyAnswer

\* Report keeps the invariant.
LEMMA ReportKeeps ==
  ASSUME IInv, NEW m \in MessageIds, Report(m)
  PROVE  IInv'
<1> USE DEF IInv
<1> DEFINE o == send_messages[m]
<1>1. o # None => o \in Ops /\ Present(o)
  BY DEF TypeOK, TablesAgree
<1>2. CASE o = None
  BY Zenon, <1>2, ReportUnbound DEF Report
<1>3. CASE o # None /\ sends[o].state \in Settled
  <2>1. UNCHANGED <<sends, sending_ids, old, journal>>
    BY Zenon, <1>3 DEF Report, Finish
  <2> QED BY Zenon, <1>3, <2>1, ReportUnbound
<1>4. CASE o # None /\ Unsettled(o) /\ messages[m].fate = "delivered"
  <2>1. MarkSent(o)
    BY Zenon, <1>4 DEF Report, Unsettled
  <2>2. "sent" \in Settled /\ o \in Ops
    BY Zenon, <1>1, <1>4 DEF Settled
  <2>3. PICK e \in Operation :
           /\ sends' = [sends EXCEPT ![o] = e]
           /\ e.state = "sent" /\ e.sid = sends[o].sid /\ e.temp = sends[o].temp
           /\ e.epoch = sends[o].epoch /\ e.auth = sends[o].auth
           /\ sending_ids' = [sending_ids EXCEPT ![sends[o].sid] = None]
           /\ old' = old \ {o} /\ journal' = journal \cup {<<o, "sent">>}
    BY Zenon, <2>1, <2>2, MarkSentFacts
  <2> QED BY Zenon, <1>4, <2>2, <2>3, ReportSettles
<1>5. CASE o # None /\ Unsettled(o) /\ messages[m].fate = "refused"
  <2>1. PICK retryable \in BOOLEAN : Finish(o, retryable)
    BY Zenon, <1>5 DEF Report
  <2>2. "failed" \in Settled /\ o \in Ops
    BY Zenon, <1>1, <1>5 DEF Settled
  <2>3. PICK e \in Operation :
           /\ sends' = [sends EXCEPT ![o] = e]
           /\ e.state = "failed" /\ e.sid = sends[o].sid /\ e.temp = sends[o].temp
           /\ e.epoch = sends[o].epoch /\ e.auth = sends[o].auth
           /\ sending_ids' = [sending_ids EXCEPT ![sends[o].sid] = None]
           /\ old' = old \ {o} /\ journal' = journal \cup {<<o, "failed">>}
    BY ZenonT(30), <1>5, <2>1, <2>2, FinishFacts
  <2> QED BY Zenon, <1>5, <2>2, <2>3, ReportSettles
<1> QED BY Zenon, <1>1, <1>2, <1>3, <1>4, <1>5 DEF Report, Unsettled

-----------------------------------------------------------------------------
(***************************************************************************)
(* The invariant holds.                                                    *)
(***************************************************************************)
\* Nothing is in the tables, under way or posted to begin with.
LEMMA Initially ==
  ASSUME Init
  PROVE  IInv
<1> USE DEF Init
<1>0. Absent \in Operation /\ Absent.state = "absent" /\ Absent.temp = None
  BY SMTT(30), BoundAssumption DEF Absent, Operation
<1>1. /\ Idle \in Handler /\ Idle.pc = "idle" /\ Idle.sid = None /\ Idle.td = "none" /\ Idle.client = 0
      /\ Idle.answer = "none" /\ Idle.reply = "none"
  BY SMTT(30), BoundAssumption DEF Idle, Handler
<1>2. /\ Unused \in Message /\ Unused.op = None /\ Unused.fate = "none" /\ Unused.seen = "none"
      /\ Unused.client = 0
  BY BoundAssumption DEF Unused, Message
<1>3. TypeOK
  <2>1. sends \in [Ops -> Operation] /\ handler \in [Requests -> Handler] /\ messages \in [MessageIds -> Message]
    BY Zenon, <1>0, <1>1, <1>2
  <2>2. /\ sending_ids \in [SendingIds -> Ops \cup {None}] /\ send_messages \in [MessageIds -> Ops \cup {None}]
        /\ old \subseteq Ops /\ journal \subseteq Ops \X ({"pending"} \cup Settled)
    BY Zenon
  <2>3. client \in 0..MaxEpoch /\ epoch \in 0..MaxEpoch /\ auth \in 0..MaxAuth
    BY BoundAssumption
  <2> QED BY ZenonT(30), <2>1, <2>2, <2>3 DEF TypeOK
<1>4. \A o \in Ops : ~Present(o) /\ ~Unsettled(o)
  BY Zenon, <1>0 DEF Present, Unsettled
<1>5. HandlersAgree /\ OneCreator
  BY ZenonT(30), <1>1, <1>2 DEF HandlersAgree, OneCreator, Created
<1>6. SessionAgrees
  BY SMTT(30), <1>1, <1>2, <1>4 DEF SessionAgrees, Serving
<1>7. OperationsAgree /\ UnderWay /\ OldIsQuiet
  BY ZenonT(30), <1>4 DEF OperationsAgree, UnderWay, OldIsQuiet, Serving
<1>8. TablesAgree /\ PendingIsReachable
  BY ZenonT(30), <1>0, <1>4 DEF TablesAgree, PendingIsReachable
<1>10. VerdictsTrue
  <2>1. \A o \in Ops : ~Verdict(o, "failed") /\ ~Verdict(o, "sent")
    BY ZenonT(30), <1>0, <1>1 DEF Verdict
  <2> QED BY ZenonT(30), <2>1 DEF VerdictsTrue, Truthful
<1> QED BY Zenon, <1>3, <1>5, <1>6, <1>7, <1>8, <1>10 DEF IInv

\* Every step keeps the invariant.
LEMMA StepKeeps ==
  ASSUME IInv, [Next]_vars
  PROVE  IInv'
<1>1. CASE \E r \in Requests : HandlerStep(r) \/ TdAccept(r) \/ TdRefuse(r)
  <2>1. PICK r \in Requests : HandlerStep(r) \/ TdAccept(r) \/ TdRefuse(r)
    BY Zenon, <1>1
  <2>2. CASE \E current \in BOOLEAN : Send(r, current)
    BY Zenon, <2>2, SendKeeps
  <2>3. CASE LookupReply(r)
    BY Zenon, <2>3, LookupReplyKeeps
  <2>4. CASE Claim(r)
    BY Zenon, <2>4, ClaimKeeps
  <2>5. CASE Begin(r)
    BY Zenon, <2>5, BeginKeeps
  <2>6. CASE AwaitTimeout(r) \/ Complete(r) \/ AwaitOutcome(r) \/ TdRefuse(r)
    BY Zenon, <2>6, HandlerOnlyKeeps
  <2>7. CASE ApplyAnswer(r)
    BY Zenon, <2>7, ApplyAnswerKeeps
  <2>8. CASE TdAccept(r)
    BY Zenon, <2>8, TdAcceptKeeps
  <2> QED BY Zenon, <2>1, <2>2, <2>3, <2>4, <2>5, <2>6, <2>7, <2>8 DEF HandlerStep
<1>2. CASE \E m \in MessageIds : TdDecide(m) \/ Announce(m) \/ Report(m)
  BY Zenon, <1>2, TdDecideKeeps, AnnounceKeeps, ReportKeeps
<1>3. CASE Fence \/ LeaveReady
  <2>1. epoch \in 0..MaxEpoch /\ auth \in 0..MaxAuth
    BY Zenon DEF IInv, TypeOK
  <2>2. /\ ResetTables /\ UNCHANGED <<client, handler, messages>>
        /\ phase' \in {"fenced", "leaving"} /\ epoch' \in epoch..MaxEpoch /\ auth' \in 0..MaxAuth
    BY <1>3, <2>1, BoundAssumption DEF Fence, LeaveReady
  <2> QED BY Zenon, <2>2, ResetKeeps
<1>4. CASE Stall \/ ClientClosed \/ Activate \/ RaiseAuth \/ NewChat
  BY Zenon, <1>4, AccountKeeps
<1>5. CASE Crash
  BY Zenon, <1>5, CrashKeeps
<1>6. CASE \E o \in Ops : Age(o)
  BY Zenon, <1>6, AgeKeeps
<1>7. CASE UNCHANGED vars
  <2> USE <1>7 DEF vars, accountVars, tableVars, IInv
  <2>1. TypeOK' /\ HandlersAgree' /\ OneCreator' /\ SessionAgrees'
    BY SMTT(30) DEF TypeOK, HandlersAgree, OneCreator, Created, SessionAgrees, Serving, Present
  <2>2. OperationsAgree' /\ UnderWay' /\ OldIsQuiet' /\ TablesAgree' /\ PendingIsReachable'
    BY SMTT(30) DEF OperationsAgree, Present, UnderWay, Serving, Unsettled, OldIsQuiet, TablesAgree, PendingIsReachable
  <2>3. VerdictsTrue'
    BY ZenonT(30) DEF VerdictsTrue, Truthful, Verdict, Posted
  <2> QED BY Zenon, <2>1, <2>2, <2>3
<1> QED BY Zenon, <1>1, <1>2, <1>3, <1>4, <1>5, <1>6, <1>7 DEF Next

\* The inductive invariant holds in every reachable state of the send service.
THEOREM Invariant == Spec => []IInv
<1>1. Init => IInv
  BY Zenon, Initially
<1>2. IInv /\ [Next]_vars => IInv'
  BY Zenon, StepKeeps
<1> QED BY <1>1, <1>2, PTL DEF Spec

\* No reply, event or lookup of the send service is wrong about delivery:
\* "failed" is only said of an operation no message of which reached Telegram
\* or ever will, "sent" only of one that was delivered.
THEOREM VerdictsAreTrue == Spec => []Truthful
<1>1. IInv => Truthful
  BY Zenon DEF IInv, VerdictsTrue
<1> QED BY <1>1, Invariant, PTL

\* However many requests carry an operation, one at most hands a sendMessage
\* to TDLib, and TDLib has at most one message for it.
THEOREM Once == Spec => []DispatchedOnce
<1>1. IInv => DispatchedOnce
  <2> SUFFICES ASSUME IInv PROVE DispatchedOnce
    BY Zenon
  <2>1. \A r, q \in Requests : ReqOp[r] = ReqOp[q] /\ Begun(r) /\ Begun(q) => r = q
    BY ZenonT(30) DEF IInv, Begun, HandlersAgree, OneCreator
  <2>2. \A m, n \in MessageIds : messages[m].op # None /\ messages[m].op = messages[n].op => m = n
    BY <2>1 DEF IInv, OneCreator, Begun
  <2> QED BY Zenon, <2>1, <2>2 DEF DispatchedOnce
<1> QED BY <1>1, Invariant, PTL
-----------------------------------------------------------------------------
(***************************************************************************)
(* How the table grows.                                                    *)
(***************************************************************************)
\* The operations in the table.
InTable == {o \in Ops : Present(o)}

\* A step that writes the entry of one operation of the table adds none.
LEMMA WriteAddsNone ==
  ASSUME TypeOK, NEW o \in Ops, NEW e, sends' = [sends EXCEPT ![o] = e], Present(o)
  PROVE  InTable' \subseteq InTable
BY Zenon DEF TypeOK, InTable, Present

\* finish adds no operation to the table.
LEMMA FinishAddsNone ==
  ASSUME TypeOK, NEW o \in Ops, NEW retryable, Finish(o, retryable)
  PROVE  InTable' \subseteq InTable
<1>1. CASE ~Present(o) \/ sends[o].state \in Settled
  BY Zenon, <1>1 DEF Finish, InTable, Present
<1>2. CASE Present(o) /\ sends[o].state \notin Settled
  <2>1. sends' = [sends EXCEPT ![o] = [sends[o] EXCEPT !.state = "failed", !.retryable = retryable]]
    BY Zenon, <1>2 DEF Finish
  <2> QED BY Zenon, <1>2, <2>1, WriteAddsNone
<1> QED BY Zenon, <1>1, <1>2

\* Nor does the binding of a message.
LEMMA BindAddsNone ==
  ASSUME TypeOK, NEW o \in Ops, NEW m \in MessageIds, NEW from, Bind(o, m, from), Present(o)
  PROVE  InTable' \subseteq InTable
<1>1. \A p \in Ops \ {o} : sends'[p] = sends[p]
  BY Zenon DEF Bind, TypeOK
<1> QED BY Zenon, <1>1 DEF InTable, Present

\* Only the first critical section of send adds an operation to the table.
LEMMA OnlySendAdds ==
  ASSUME IInv, [Next]_vars, ~\E r \in Requests, current \in BOOLEAN : Send(r, current)
  PROVE  InTable' \subseteq InTable
<1>0. TypeOK /\ HandlersAgree /\ TablesAgree
  BY Zenon DEF IInv
<1>1. ASSUME UNCHANGED sends PROVE InTable' \subseteq InTable
  BY Zenon, <1>1 DEF InTable, Present
<1>2. ASSUME NEW r \in Requests, LookupReply(r) \/ Claim(r) \/ Begin(r) \/ ApplyAnswer(r)
      PROVE  InTable' \subseteq InTable
  <2>0. ReqOp[r] \in Ops
    BY Zenon, RequestAssumption
  <2>1. CASE LookupReply(r) \/ Begin(r)
    BY Zenon, <1>0, <1>1, <2>0, <2>1, FinishAddsNone DEF LookupReply, Begin, tableVars
  <2>2. CASE Claim(r)
    <3>1. \/ UNCHANGED sends
          \/ /\ Present(ReqOp[r])
             /\ sends' = [sends EXCEPT ![ReqOp[r]] = [sends[ReqOp[r]] EXCEPT !.state = "dispatching"]]
      BY Zenon, <2>2 DEF Claim, Present
    <3> QED BY Zenon, <1>0, <1>1, <2>0, <3>1, WriteAddsNone
  <2>3. CASE ApplyAnswer(r)
    <3>1. CASE Present(ReqOp[r]) /\ handler[r].answer = "pending" /\ Bind(ReqOp[r], handler[r].msg, {"dispatching"})
      <4>1. handler[r].msg \in MessageIds
        BY Zenon, <1>0, <3>1 DEF HandlersAgree
      <4> QED BY Zenon, <1>0, <2>0, <3>1, <4>1, BindAddsNone
    <3>2. CASE Present(ReqOp[r]) /\ MarkSent(ReqOp[r])
      <4>1. sends' = [sends EXCEPT ![ReqOp[r]] = [sends[ReqOp[r]] EXCEPT !.state = "sent"]]
        BY Zenon, <3>2 DEF MarkSent
      <4> QED BY Zenon, <1>0, <2>0, <3>2, <4>1, WriteAddsNone
    <3>3. CASE \E retryable : Finish(ReqOp[r], retryable)
      BY Zenon, <1>0, <2>0, <3>3, FinishAddsNone
    <3> QED BY Zenon, <1>1, <2>3, <3>1, <3>2, <3>3 DEF ApplyAnswer, tableVars
  <2> QED BY Zenon, <1>2, <2>1, <2>2, <2>3
<1>3. ASSUME NEW m \in MessageIds, Announce(m)
      PROVE  InTable' \subseteq InTable
  <2>1. CASE UNCHANGED sends
    BY Zenon, <1>1, <2>1
  <2>2. CASE sending_ids[messages[m].sid] # None /\ Bind(sending_ids[messages[m].sid], m, {"dispatching", "preparing"})
    <3>0. messages[m].op # None
      BY Zenon, <1>3 DEF Announce, IInv, OneCreator
    <3>1. messages[m].sid \in SendingIds
      BY Zenon, <3>0, NewMessage
    <3>2. sending_ids[messages[m].sid] \in Ops /\ Present(sending_ids[messages[m].sid])
      BY <1>0, <2>2, <3>1 DEF TypeOK, TablesAgree, Unsettled
    <3> QED BY Zenon, <1>0, <2>2, <3>2, BindAddsNone
  <2> QED BY Zenon, <1>3, <2>1, <2>2 DEF Announce
<1>4. ASSUME NEW m \in MessageIds, Report(m)
      PROVE  InTable' \subseteq InTable
  <2> DEFINE o == send_messages[m]
  <2>1. CASE UNCHANGED sends
    BY Zenon, <1>1, <2>1
  <2>2. CASE o \in Ops /\ Present(o) /\ MarkSent(o)
    <3>1. sends' = [sends EXCEPT ![o] = [sends[o] EXCEPT !.state = "sent"]]
      BY Zenon, <2>2 DEF MarkSent
    <3> QED BY Zenon, <1>0, <2>2, <3>1, WriteAddsNone
  <2>3. CASE o \in Ops /\ \E retryable : Finish(o, retryable)
    BY Zenon, <1>0, <2>3, FinishAddsNone
  <2>4. o # None => o \in Ops
    BY Zenon, <1>0 DEF TypeOK
  <2> QED BY Zenon, <1>4, <2>1, <2>2, <2>3, <2>4 DEF Report
<1>5. ASSUME Fence \/ LeaveReady \/ Crash
      PROVE  InTable' \subseteq InTable
  <2>1. sends' = [o \in Ops |-> Absent]
    BY Zenon, <1>5 DEF Fence, LeaveReady, Crash, ResetTables
  <2>2. Absent.state = "absent"
    BY Zenon DEF Absent
  <2> QED BY Zenon, <2>1, <2>2 DEF InTable, Present
<1>6. ASSUME NEW r \in Requests, AwaitTimeout(r) \/ Complete(r) \/ AwaitOutcome(r) \/ TdAccept(r) \/ TdRefuse(r)
      PROVE  UNCHANGED sends
  BY Zenon, <1>6 DEF AwaitTimeout, Complete, AwaitOutcome, TdAccept, TdRefuse, tableVars
<1>7. ASSUME NEW m \in MessageIds, TdDecide(m) PROVE UNCHANGED sends
  BY Zenon, <1>7 DEF TdDecide, tableVars
<1>8. ASSUME \/ Stall \/ ClientClosed \/ Activate \/ RaiseAuth \/ NewChat
             \/ (\E o \in Ops : Age(o)) \/ UNCHANGED vars
      PROVE  UNCHANGED sends
  BY Zenon, <1>8 DEF Stall, ClientClosed, Activate, RaiseAuth, NewChat, Age, vars, tableVars
<1> QED BY Zenon, <1>1, <1>2, <1>3, <1>4, <1>5, <1>6, <1>7, <1>8 DEF Next, HandlerStep

-----------------------------------------------------------------------------
(***************************************************************************)
(* Verdicts stand.                                                         *)
(***************************************************************************)
\* What may become of an operation in the table in one step: a verdict is
\* final, and an operation that is absent starts afresh.
Lasts(o) ==
  /\ sends[o].state \in Settled =>
       sends'[o].state \in {sends[o].state, "absent"} /\ sends'[o].retryable \in {sends[o].retryable, FALSE}
  /\ ~Present(o) => sends'[o].state \in {"absent", "preparing"}

\* Settling leaves every other operation alone, and one that is settled or
\* absent as it is.
LEMMA SettlingLasts ==
  ASSUME TypeOK, NEW o \in Ops,
         \/ \E retryable \in BOOLEAN : Finish(o, retryable)
         \/ Unsettled(o) /\ MarkSent(o)
  PROVE  \A p \in Ops : Lasts(p)
<1>1. CASE Unsettled(o)
  <2>1. \E e \in Operation : sends' = [sends EXCEPT ![o] = e]
    BY <1>1, FinishFacts, MarkSentFacts
  <2>2. \A p \in Ops : p # o => sends'[p] = sends[p]
    BY Zenon, <2>1 DEF TypeOK
  <2> QED BY ZenonT(30), <1>1, <2>2 DEF Lasts, Unsettled, Present
<1>2. CASE ~Unsettled(o)
  <2>1. UNCHANGED sends
    BY Zenon, <1>2 DEF Finish, Unsettled
  <2> QED BY Zenon, <2>1 DEF Lasts, Present
<1> QED BY Zenon, <1>1, <1>2

\* So does binding a message to an operation that is present.
LEMMA BindingLasts ==
  ASSUME TypeOK, NEW o \in Ops, Present(o), NEW m \in MessageIds, NEW from,
         from \cap Settled = {}, Bind(o, m, from)
  PROVE  \A p \in Ops : Lasts(p)
<1>1. /\ \A p \in Ops \ {o} : sends'[p] = sends[p]
      /\ sends'[o].state = IF sends[o].state \in from THEN "pending" ELSE sends[o].state
      /\ sends'[o].retryable = sends[o].retryable
  BY ZenonT(30), BindFacts
<1> QED BY Zenon, <1>1 DEF Lasts, Present

\* Every step lets a verdict stand.
LEMMA StepLasts ==
  ASSUME IInv, [Next]_vars
  PROVE  \A o \in Ops : Lasts(o)
<1>0. TypeOK /\ sends \in [Ops -> Operation] /\ \A r \in Requests : ReqOp[r] \in Ops
  BY Zenon, RequestAssumption DEF IInv, TypeOK
<1>1. CASE UNCHANGED sends
  BY Zenon, <1>1 DEF Lasts, Present
<1>2. CASE ResetTables
  BY ZenonT(30), <1>2 DEF ResetTables, Absent, Lasts
<1>3. ASSUME NEW r \in Requests, NEW current \in BOOLEAN, Send(r, current) PROVE \A o \in Ops : Lasts(o)
  <2>1. MayPost(r) /\ handler[r].pc = "idle"
    BY Zenon, <1>3 DEF Send
  <2>2. \A o \in Ops : PrunedSends[o] = IF o \in old THEN Absent ELSE sends[o]
    BY Zenon DEF PrunedSends
  <2>3. /\ \A o \in Ops : o \in old => Present(o)
        /\ Absent.state = "absent" /\ Absent.retryable = FALSE
    BY Zenon DEF IInv, OldIsQuiet, Absent
  <2>4. CASE sends' = PrunedSends
    BY Zenon, <2>2, <2>3, <2>4 DEF Lasts, Present
  <2>5. ASSUME ~Remembers(ReqOp[r]), NEW e, e.state = "preparing", sends' = [PrunedSends EXCEPT ![ReqOp[r]] = e]
        PROVE  \A o \in Ops : Lasts(o)
    <3>1. ~Present(ReqOp[r])
      BY Zenon, <2>1, <2>5, FirstRequest
    <3>2. \A o \in Ops : sends'[o] = IF o = ReqOp[r] THEN e ELSE PrunedSends[o]
      BY Zenon, <2>5 DEF PrunedSends
    <3> QED BY ZenonT(30), <2>2, <2>3, <2>5, <3>1, <3>2 DEF Lasts, Present, Settled
  <2>6. ASSUME NEW s, sends' = [PrunedSends EXCEPT ![ReqOp[r]] =
                                  [Absent EXCEPT !.state = "preparing", !.sid = s, !.epoch = epoch,
                                                 !.auth = auth, !.reply = ReqReply[r]]],
               ~Remembers(ReqOp[r])
        PROVE  \A o \in Ops : Lasts(o)
    <3> DEFINE e == [Absent EXCEPT !.state = "preparing", !.sid = s, !.epoch = epoch,
                                   !.auth = auth, !.reply = ReqReply[r]]
    <3>1. e.state = "preparing"
      BY Zenon DEF Absent
    <3>2. sends' = [PrunedSends EXCEPT ![ReqOp[r]] = e]
      BY Zenon, <2>6
    <3> HIDE DEF e
    <3> QED BY Zenon, <2>5, <2>6, <3>1, <3>2
  <2> QED BY Zenon, <1>1, <1>3, <2>4, <2>6 DEF Send
<1>4. ASSUME NEW r \in Requests, LookupReply(r) \/ Begin(r) PROVE \A o \in Ops : Lasts(o)
  <2>1. UNCHANGED sends \/ \E retryable \in BOOLEAN : Finish(ReqOp[r], retryable)
    BY Zenon, <1>4 DEF LookupReply, Begin, tableVars
  <2> QED BY Zenon, <1>0, <1>1, <2>1, SettlingLasts
<1>5. ASSUME NEW r \in Requests, Claim(r) PROVE \A o \in Ops : Lasts(o)
  <2>1. CASE sends[ReqOp[r]].state = "preparing"
    <3>1. \A o \in Ops : o # ReqOp[r] => sends'[o] = sends[o]
      BY Zenon, <1>0, <1>5, <2>1 DEF Claim
    <3> QED BY ZenonT(30), <2>1, <3>1 DEF Lasts, Present, Settled
  <2>2. CASE sends[ReqOp[r]].state # "preparing"
    BY Zenon, <1>1, <1>5, <2>2 DEF Claim
  <2> QED BY Zenon, <2>1, <2>2
<1>6. ASSUME NEW r \in Requests, ApplyAnswer(r) PROVE \A o \in Ops : Lasts(o)
  <2>1. handler[r].answer = "pending" => handler[r].msg \in MessageIds
    BY ZenonT(30) DEF IInv, HandlersAgree
  <2>2. CASE Present(ReqOp[r]) /\ handler[r].answer = "pending" /\ Bind(ReqOp[r], handler[r].msg, {"dispatching"})
    <3>1. {"dispatching"} \cap Settled = {}
      BY Zenon DEF Settled
    <3> QED BY Zenon, <1>0, <2>1, <2>2, <3>1, BindingLasts
  <2>3. CASE Present(ReqOp[r]) /\ sends[ReqOp[r]].state = "dispatching" /\ MarkSent(ReqOp[r])
    <3>1. Unsettled(ReqOp[r])
      BY Zenon, <2>3 DEF Unsettled, Settled
    <3> QED BY Zenon, <1>0, <2>3, <3>1, SettlingLasts
  <2>4. CASE \E retryable \in BOOLEAN : Finish(ReqOp[r], retryable)
    BY Zenon, <1>0, <2>4, SettlingLasts
  <2>5. \/ UNCHANGED sends
        \/ Present(ReqOp[r]) /\ handler[r].answer = "pending" /\ Bind(ReqOp[r], handler[r].msg, {"dispatching"})
        \/ Present(ReqOp[r]) /\ sends[ReqOp[r]].state = "dispatching" /\ MarkSent(ReqOp[r])
        \/ \E retryable \in BOOLEAN : Finish(ReqOp[r], retryable)
    BY Zenon, <1>6 DEF ApplyAnswer, tableVars
  <2> QED BY Zenon, <1>1, <2>2, <2>3, <2>4, <2>5
<1>7. ASSUME NEW m \in MessageIds, Announce(m) PROVE \A o \in Ops : Lasts(o)
  <2>1. PICK o : o = sending_ids[messages[m].sid]
    BY Zenon
  <2>2. CASE ~known \/ o = None
    BY Zenon, <1>1, <1>7, <2>1, <2>2 DEF Announce
  <2>3. CASE ~(~known \/ o = None)
    <3>1. messages[m].op # None
      BY Zenon, <1>7 DEF Announce, IInv, OneCreator
    <3>2. o \in Ops /\ Present(o)
      BY SMTT(30), <2>1, <2>3, <3>1, NewMessage DEF IInv, TypeOK, TablesAgree, Unsettled
    <3>3. Bind(o, m, {"dispatching", "preparing"}) /\ {"dispatching", "preparing"} \cap Settled = {}
      BY Zenon, <1>7, <2>1, <2>3 DEF Announce, Settled
    <3> QED BY Zenon, <1>0, <3>2, <3>3, BindingLasts
  <2> QED BY Zenon, <2>2, <2>3
<1>8. ASSUME NEW m \in MessageIds, Report(m) PROVE \A o \in Ops : Lasts(o)
  <2>1. PICK o : o = send_messages[m]
    BY Zenon
  <2>2. o # None => o \in Ops
    BY Zenon, <1>0, <2>1 DEF TypeOK
  <2>3. \/ UNCHANGED sends
        \/ o # None /\ Unsettled(o) /\ MarkSent(o)
        \/ o # None /\ \E retryable \in BOOLEAN : Finish(o, retryable)
    BY Zenon, <1>8, <2>1 DEF Report, Unsettled
  <2> QED BY Zenon, <1>0, <1>1, <2>2, <2>3, SettlingLasts
<1>9. CASE UNCHANGED vars
  BY Zenon, <1>1, <1>9 DEF vars, tableVars
<1>10. ASSUME NEW r \in Requests, AwaitTimeout(r) \/ Complete(r) \/ AwaitOutcome(r) \/ TdRefuse(r) \/ TdAccept(r)
       PROVE  UNCHANGED sends
  BY Zenon, <1>10 DEF AwaitTimeout, Complete, AwaitOutcome, TdRefuse, TdAccept, tableVars
<1>11. ASSUME NEW m \in MessageIds, TdDecide(m) PROVE UNCHANGED sends
  BY Zenon, <1>11 DEF TdDecide, tableVars
<1>12. ASSUME Stall \/ ClientClosed \/ Activate \/ RaiseAuth \/ NewChat \/ \E o \in Ops : Age(o)
       PROVE  UNCHANGED sends
  BY Zenon, <1>12 DEF Stall, ClientClosed, Activate, RaiseAuth, NewChat, Age, tableVars
<1>13. Fence \/ LeaveReady \/ Crash => ResetTables
  BY Zenon DEF Fence, LeaveReady, Crash
<1> QED BY Zenon, <1>1, <1>2, <1>3, <1>4, <1>5, <1>6, <1>7, <1>8, <1>9, <1>10, <1>11, <1>12, <1>13 DEF Next, HandlerStep

\* The outcome of an operation is final: no late response of TDLib, no update
\* in whatever order, and no repeated request changes a verdict that the table
\* holds, until the operation is forgotten (message_send_service.cpp).
THEOREM VerdictsStand == Spec => SettledIsFinal
<1>1. IInv /\ [Next]_vars => \A o \in Ops :
       /\ sends[o].state \in Settled =>
            sends'[o].state \in {sends[o].state, "absent"} /\ sends'[o].retryable \in {sends[o].retryable, FALSE}
       /\ ~Present(o) => sends'[o].state \in {"absent", "preparing"}
  BY Zenon, StepLasts DEF Lasts
<1> QED BY <1>1, Invariant, PTL DEF Spec, SettledIsFinal
=============================================================================
