---------------------------- MODULE TdSendSteps -----------------------------
(***************************************************************************)
(* TdSend: TDLib, crashes, the account and new requests preserve the       *)
(* inductive invariant.                                                    *)
(***************************************************************************)
EXTENDS TdSendInvariant

-----------------------------------------------------------------------------
(***************************************************************************)
(* TDLib.                                                                  *)
(***************************************************************************)
\* TDLib takes a sendMessage and makes the one message of its operation: the
\* step preserves the invariant.
LEMMA TdAcceptKeeps ==
  ASSUME IInv, NEW r \in Requests, TdAccept(r)
  PROVE  IInv'
<1> DEFINE o == ReqOp[r]
<1> USE DEF IInv, accountVars, tableVars
<1>1. /\ handler[r].td = "queued" /\ handler[r].client = client
      /\ UNCHANGED <<accountVars, tableVars>>
      /\ o \in Ops /\ Created(r) /\ handler[r].pc # "idle"
  BY RequestAssumption DEF TdAccept, HandlersAgree, Idle
<1>2. PICK m \in MessageIds, final \in BOOLEAN :
        /\ messages[m].fate = "none"
        /\ messages' = [messages EXCEPT ![m] =
                          [op |-> o, sid |-> handler[r].sid, client |-> client,
                           fate |-> IF final THEN "delivered" ELSE "open",
                           seen |-> IF final THEN "reported" ELSE "new"]]
        /\ handler' = [handler EXCEPT ![r].td = IF final THEN "immediate" ELSE "accepted", ![r].msg = m]
  BY Zenon DEF TdAccept
<1> DEFINE x == [op |-> o, sid |-> handler[r].sid, client |-> client,
                 fate |-> IF final THEN "delivered" ELSE "open",
                 seen |-> IF final THEN "reported" ELSE "new"]
           h == [handler[r] EXCEPT !.td = IF final THEN "immediate" ELSE "accepted", !.msg = m]
<1>3. /\ messages' \in [MessageIds -> Message]
      /\ messages'[m].op = o /\ messages'[m].sid = handler[r].sid /\ messages'[m].client = client
      /\ messages'[m].fate = IF final THEN "delivered" ELSE "open"
      /\ messages'[m].seen = IF final THEN "reported" ELSE "new"
      /\ \A n \in MessageIds \ {m} : messages'[n] = messages[n]
  <2>1. handler[r].sid \in SendingIds \cup {None} /\ client \in 0..MaxEpoch
    BY Zenon DEF TypeOK, Handler
  <2>2. x \in Message
    BY Zenon, <1>1, <2>1 DEF Message
  <2> QED BY Zenon, <1>2, <2>2 DEF TypeOK
<1>4. /\ handler' \in [Requests -> Handler]
      /\ handler'[r].td = IF final THEN "immediate" ELSE "accepted"
      /\ handler'[r].msg = m
      /\ \A q \in Requests : /\ q # r => handler'[q] = handler[q]
                             /\ handler'[q].sid = handler[q].sid /\ handler'[q].pc = handler[q].pc
                             /\ handler'[q].client = handler[q].client
                             /\ handler'[q].answer = handler[q].answer /\ handler'[q].reply = handler[q].reply
  <2>1. handler[r] \in Handler
    BY Zenon DEF TypeOK
  <2>2. /\ h \in Handler /\ h.td = (IF final THEN "immediate" ELSE "accepted") /\ h.msg = m
        /\ h.sid = handler[r].sid /\ h.pc = handler[r].pc /\ h.client = handler[r].client
        /\ h.answer = handler[r].answer /\ h.reply = handler[r].reply
    BY Zenon, <2>1 DEF Handler
  <2>3. handler' = [handler EXCEPT ![r] = h]
    BY Zenon, <1>2
  <2> HIDE DEF h
  <2> QED BY Zenon, <2>2, <2>3 DEF TypeOK
<1>5. messages[m].op = None
  BY Zenon, <1>2 DEF OneCreator
<1>6. TypeOK'
  BY SMTT(30), <1>1, <1>3, <1>4 DEF TypeOK
<1>7. HandlersAgree'
  BY SMTT(30), <1>1, <1>3, <1>4, <1>5, NoneAssumption, RequestAssumption DEF HandlersAgree, Created
<1>8. OneCreator'
  <2>1. \A p, q \in Requests : ReqOp[p] = ReqOp[q] /\ Created(p)' /\ Created(q)' => p = q
    BY <1>4 DEF OneCreator, Created
  <2>2. \A n \in MessageIds : /\ messages'[n].fate = "none" <=> messages'[n].op = None
                              /\ messages'[n].seen # "none" => messages'[n].op # None
    BY SMTT(30), <1>1, <1>3, NoneAssumption DEF OneCreator
  <2>3. ASSUME NEW n \in MessageIds, messages'[n].op # None
        PROVE  \E q \in Requests : /\ ReqOp[q] = messages'[n].op
                                   /\ handler'[q].td \in {"accepted", "immediate"}
                                   /\ handler'[q].msg = n
    BY SMTT(30), <1>1, <1>3, <1>4, <2>3 DEF OneCreator
  <2> QED BY Zenon, <2>1, <2>2, <2>3 DEF OneCreator
<1>9. SessionAgrees'
  BY ZenonT(30), <1>1, <1>3, <1>4 DEF SessionAgrees, Serving, Present
<1>10. OperationsAgree'
  <2>1. \A p \in Ops : Present(p) /\ sends[p].temp # None =>
          sends[p].temp \in MessageIds /\ sends[p].temp # m
    BY SMTT(30), <1>5, NoneAssumption DEF OperationsAgree, TypeOK, Operation
  <2>2. ASSUME NEW p \in Ops, Present(p)
        PROVE  \E q \in Requests :
                 /\ ReqOp[q] = p
                 /\ handler'[q].sid = sends[p].sid
                 /\ handler'[q].client = client
                 /\ sends[p].state = "preparing" => handler'[q].pc \in {"lookup", "claim"}
                 /\ sends[p].state \notin Settled /\ sends[p].temp = None /\ handler'[q].td = "accepted"
                      => messages'[handler'[q].msg].seen = "new"
    <3>1. PICK q \in Requests :
                 /\ ReqOp[q] = p
                 /\ handler[q].sid = sends[p].sid
                 /\ handler[q].client = client
                 /\ sends[p].state = "preparing" => handler[q].pc \in {"lookup", "claim"}
                 /\ sends[p].state \notin Settled /\ sends[p].temp = None /\ handler[q].td = "accepted"
                      => messages[handler[q].msg].seen = "new"
      BY ZenonT(30), <2>2 DEF OperationsAgree
    <3>2. q # r /\ handler[q].td = "accepted" => handler[q].msg \in MessageIds \ {m}
      BY SMTT(30), <1>5, <3>1, NoneAssumption DEF HandlersAgree
    <3> QED BY SMTT(30), <1>3, <1>4, <3>1, <3>2
  <2> QED BY SMTT(30), <1>1, <1>3, <2>1, <2>2 DEF OperationsAgree, Present
<1>11. UnderWay'
  BY SMTT(30), <1>1, <1>3, <1>4 DEF UnderWay, Serving, Unsettled, Present
<1>12. OldIsQuiet'
  BY SMTT(40), <1>1, <1>3, <1>4 DEF OldIsQuiet, Present
<1>13. TablesAgree'
  BY SMTT(30), <1>1, <1>3, <1>5, NoneAssumption DEF TablesAgree, Unsettled, Present
<1>14. PendingIsReachable'
  <2>1. \A p \in Ops : sends[p].state = "pending" => sends[p].temp \in MessageIds /\ sends[p].temp # m
    BY <1>5, NoneAssumption DEF OperationsAgree, PendingIsReachable, Present, TypeOK, Operation
  <2> QED BY SMTT(30), <1>1, <1>3, <2>1 DEF PendingIsReachable
<1>16. VerdictsTrue'
  <2>1. \A p \in Ops : /\ Verdict(p, "failed")' => Verdict(p, "failed")
                       /\ Verdict(p, "sent")' => Verdict(p, "sent")
    BY <1>1, <1>4 DEF Verdict
  <2>2. ~Verdict(o, "failed")
    BY Zenon, <1>1 DEF VerdictsTrue, Truthful
  <2>3. \A e \in journal' : Posted(e[1])'
    BY SMTT(30), <1>1, <1>4 DEF VerdictsTrue, Posted
  <2>4. Truthful'
    BY <1>3, <1>4, <1>5, <2>1, <2>2, NoneAssumption DEF VerdictsTrue, Truthful
  <2> QED BY Zenon, <1>4, <2>1, <2>3, <2>4 DEF VerdictsTrue
<1> QED BY SMTT(30), <1>6, <1>7, <1>8, <1>9, <1>10, <1>11, <1>12, <1>13, <1>14, <1>16

\* Telegram's decision on a message preserves the invariant.
LEMMA TdDecideKeeps ==
  ASSUME IInv, NEW m \in MessageIds, TdDecide(m)
  PROVE  IInv'
<1> USE DEF IInv, accountVars, tableVars
<1>1. PICK f \in {"delivered", "refused"} : messages' = [messages EXCEPT ![m].fate = f]
  BY Zenon DEF TdDecide
<1>2. messages[m].fate = "open" /\ UNCHANGED <<accountVars, tableVars, handler>>
  BY Zenon DEF TdDecide
<1>3. /\ messages' \in [MessageIds -> Message]
      /\ messages'[m].fate = f
      /\ \A n \in MessageIds : /\ n # m => messages'[n] = messages[n]
                               /\ messages'[n].op = messages[n].op /\ messages'[n].sid = messages[n].sid
                               /\ messages'[n].client = messages[n].client
                               /\ messages'[n].seen = messages[n].seen
  <2> DEFINE x == [messages[m] EXCEPT !.fate = f]
  <2>1. messages[m] \in Message
    BY Zenon DEF TypeOK
  <2>2. /\ x \in Message /\ x.fate = f /\ x.op = messages[m].op /\ x.sid = messages[m].sid
        /\ x.client = messages[m].client /\ x.seen = messages[m].seen
    BY Zenon, <2>1 DEF Message
  <2>3. messages' = [messages EXCEPT ![m] = x]
    BY Zenon, <1>1
  <2> HIDE DEF x
  <2> QED BY Zenon, <2>2, <2>3 DEF TypeOK
<1>4. TypeOK' /\ SessionAgrees'
  BY Zenon, <1>2, <1>3 DEF TypeOK, SessionAgrees, Serving, Present
<1>5. HandlersAgree' /\ OneCreator'
  BY SMTT(30), <1>2, <1>3 DEF HandlersAgree, Created, OneCreator
<1>6. OperationsAgree'
  <2>1. \A q \in Requests : handler[q].td = "accepted" => handler[q].msg \in MessageIds
    BY Zenon DEF HandlersAgree
  <2>2. \A p \in Ops : sends[p].temp # None => sends[p].temp \in MessageIds
    BY Zenon DEF TypeOK, Operation
  <2> QED BY SMTT(30), <1>2, <1>3, <2>1, <2>2 DEF OperationsAgree, Present
<1>7. UnderWay' /\ OldIsQuiet' /\ TablesAgree' /\ PendingIsReachable'
  BY SMTT(30), <1>2, <1>3 DEF UnderWay, OldIsQuiet, TablesAgree, PendingIsReachable, Serving, Unsettled, Present, TypeOK, Operation
<1>8. VerdictsTrue'
  BY SMTT(30), <1>2, <1>3 DEF VerdictsTrue, Truthful, Verdict, Posted
<1> QED BY Zenon, <1>4, <1>5, <1>6, <1>7, <1>8

-----------------------------------------------------------------------------
(***************************************************************************)
(* The session.                                                            *)
(***************************************************************************)
\* A reset leaves empty tables.
LEMMA ResetFacts ==
  ASSUME TypeOK, ResetTables
  PROVE  /\ sends' \in [Ops -> Operation] /\ \A o \in Ops : sends'[o].state = "absent"
         /\ sending_ids' \in [SendingIds -> Ops \cup {None}] /\ \A s \in SendingIds : sending_ids'[s] = None
         /\ send_messages' \in [MessageIds -> Ops \cup {None}] /\ \A m \in MessageIds : send_messages'[m] = None
         /\ old' = {} /\ journal' = {} /\ known' = FALSE
         /\ TablesAgree' /\ PendingIsReachable' /\ OldIsQuiet' /\ OperationsAgree'
         /\ \A o \in Ops : ~Present(o)'
<1>1. Absent \in Operation /\ Absent.state = "absent"
  BY BoundAssumption DEF Absent, Operation
<1>2. /\ sends' \in [Ops -> Operation] /\ \A o \in Ops : sends'[o].state = "absent"
      /\ sending_ids' \in [SendingIds -> Ops \cup {None}] /\ \A s \in SendingIds : sending_ids'[s] = None
      /\ send_messages' \in [MessageIds -> Ops \cup {None}] /\ \A m \in MessageIds : send_messages'[m] = None
      /\ old' = {} /\ journal' = {} /\ known' = FALSE
  BY Zenon, <1>1 DEF ResetTables
<1>3. \A o \in Ops : ~Present(o)'
  BY Zenon, <1>2 DEF Present
<1>4. TablesAgree' /\ PendingIsReachable' /\ OldIsQuiet' /\ OperationsAgree'
  BY Zenon, <1>2, <1>3 DEF TablesAgree, PendingIsReachable, OldIsQuiet, OperationsAgree, Unsettled
<1> QED BY Zenon, <1>2, <1>3, <1>4

\* The session ends while the process lives: logout, or an authorization that
\* leaves "ready".
LEMMA ResetKeeps ==
  ASSUME IInv, ResetTables, UNCHANGED <<client, handler, messages>>,
         phase' \in {"fenced", "leaving"}, epoch' \in epoch..MaxEpoch, auth' \in 0..MaxAuth
  PROVE  IInv'
<1> USE DEF IInv
<1>1. /\ sends' \in [Ops -> Operation] /\ \A o \in Ops : sends'[o].state = "absent"
      /\ sending_ids' \in [SendingIds -> Ops \cup {None}]
      /\ send_messages' \in [MessageIds -> Ops \cup {None}]
      /\ old' = {} /\ journal' = {} /\ known' = FALSE
      /\ TablesAgree' /\ PendingIsReachable' /\ OldIsQuiet' /\ OperationsAgree'
      /\ \A o \in Ops : ~Present(o)'
  BY Zenon, ResetFacts
<1>2. TypeOK'
  <2>1. epoch' \in 0..MaxEpoch
    BY BoundAssumption DEF TypeOK
  <2>2. known' \in BOOLEAN
    BY Zenon, <1>1
  <2> QED BY Zenon, <1>1, <2>1, <2>2 DEF TypeOK
<1>3. HandlersAgree' /\ OneCreator'
  BY SMTT(30) DEF HandlersAgree, Created, OneCreator
<1>4. SessionAgrees' /\ UnderWay'
  <2>1. ~Serving'
    BY Zenon DEF Serving
  <2>2. \A r \in Requests : handler[r].client \in Nat
    BY BoundAssumption DEF TypeOK, Handler
  <2>3. \A m \in MessageIds : messages[m].client \in Nat
    BY BoundAssumption DEF TypeOK, Message
  <2> QED BY SMTT(30), <1>1, <2>1, <2>2, <2>3, BoundAssumption DEF SessionAgrees, UnderWay, TypeOK
<1>5. VerdictsTrue'
  <2>1. \A o \in Ops : /\ Verdict(o, "failed")' => Verdict(o, "failed")
                       /\ Verdict(o, "sent")' => Verdict(o, "sent")
    BY Zenon, <1>1 DEF Verdict
  <2> QED BY SMTT(30), <1>1, <2>1 DEF VerdictsTrue, Truthful
<1> QED BY Zenon, <1>1, <1>2, <1>3, <1>4, <1>5

\* So does the end of the process.
LEMMA CrashKeeps ==
  ASSUME IInv, Crash
  PROVE  IInv'
<1> USE DEF IInv
<1>1. /\ sends' \in [Ops -> Operation] /\ \A o \in Ops : sends'[o].state = "absent"
      /\ sending_ids' \in [SendingIds -> Ops \cup {None}]
      /\ send_messages' \in [MessageIds -> Ops \cup {None}]
      /\ old' = {} /\ journal' = {} /\ known' = FALSE
      /\ TablesAgree' /\ PendingIsReachable' /\ OldIsQuiet' /\ OperationsAgree'
      /\ \A o \in Ops : ~Present(o)'
  BY ZenonT(30), ResetFacts DEF Crash
<1>2. phase' = "closed" /\ client' = 0 /\ UNCHANGED <<epoch, auth, messages>>
  BY Zenon DEF Crash
<1>3. /\ handler' \in [Requests -> Handler]
      /\ \A r \in Requests :
           /\ handler'[r].sid = handler[r].sid /\ handler'[r].client = handler[r].client
           /\ handler'[r].msg = handler[r].msg /\ handler'[r].answer = handler[r].answer
           /\ handler'[r].td = handler[r].td \/ (handler[r].td = "queued" /\ handler'[r].td = "refused")
           /\ handler'[r].reply \in {handler[r].reply, "lost"}
           /\ IF handler[r].pc = "idle" THEN handler'[r] = handler[r] ELSE handler'[r].pc = "done"
  <2> DEFINE h(r) == IF handler[r].pc \in {"idle", "done"} THEN handler[r]
                     ELSE [handler[r] EXCEPT !.pc = "done", !.reply = "lost",
                             !.td = IF @ = "queued" THEN "refused" ELSE @]
  <2>1. handler' = [r \in Requests |-> h(r)]
    BY Zenon DEF Crash
  <2>2. ASSUME NEW r \in Requests
        PROVE  /\ h(r) \in Handler
               /\ h(r).sid = handler[r].sid /\ h(r).client = handler[r].client
               /\ h(r).msg = handler[r].msg /\ h(r).answer = handler[r].answer
               /\ h(r).td = handler[r].td \/ (handler[r].td = "queued" /\ h(r).td = "refused")
               /\ h(r).reply \in {handler[r].reply, "lost"}
               /\ IF handler[r].pc = "idle" THEN h(r) = handler[r] ELSE h(r).pc = "done"
    <3>1. handler[r] \in Handler
      BY Zenon DEF TypeOK
    <3>2. CASE handler[r].pc \in {"idle", "done"}
      BY Zenon, <3>1, <3>2
    <3>3. CASE handler[r].pc \notin {"idle", "done"}
      <4> DEFINE t == IF handler[r].td = "queued" THEN "refused" ELSE handler[r].td
                 g == [handler[r] EXCEPT !.pc = "done", !.reply = "lost", !.td = t]
      <4>1. h(r) = g
        BY Zenon, <3>3
      <4>2. /\ g \in Handler /\ g.sid = handler[r].sid /\ g.client = handler[r].client
            /\ g.msg = handler[r].msg /\ g.answer = handler[r].answer /\ g.td = t
            /\ g.reply = "lost" /\ g.pc = "done"
        BY ZenonT(30), <3>1 DEF Handler
      <4> HIDE DEF g, h
      <4> QED BY Zenon, <3>3, <4>1, <4>2
    <3> QED BY Zenon, <3>2, <3>3
  <2> HIDE DEF h
  <2> QED BY Zenon, <2>1, <2>2
<1>4. TypeOK'
  <2>1. known' \in BOOLEAN
    BY Zenon, <1>1
  <2>2. client' \in 0..MaxEpoch
    BY SMTT(30), <1>2, BoundAssumption
  <2> QED BY Zenon, <1>1, <1>2, <1>3, <2>1, <2>2 DEF TypeOK
<1>5. HandlersAgree' /\ OneCreator'
  BY SMTT(30), <1>2, <1>3 DEF HandlersAgree, Created, OneCreator
<1>6. SessionAgrees' /\ UnderWay'
  BY <1>1, <1>2, <1>3 DEF SessionAgrees, UnderWay, Serving, TypeOK
<1>7. VerdictsTrue'
  <2>1. \A o \in Ops : /\ Verdict(o, "failed")' => Verdict(o, "failed")
                       /\ Verdict(o, "sent")' => Verdict(o, "sent")
    BY <1>1, <1>3 DEF Verdict
  <2> QED BY SMTT(30), <1>1, <1>2, <1>3, <2>1 DEF VerdictsTrue, Truthful
<1> QED BY Zenon, <1>1, <1>4, <1>5, <1>6, <1>7

\* Steps of the account that leave tables, handlers and messages alone.
LEMMA AccountKeeps ==
  ASSUME IInv, Stall \/ ClientClosed \/ Activate \/ RaiseAuth \/ NewChat
  PROVE  IInv'
<1> USE DEF IInv, tableVars
<1>1. /\ UNCHANGED <<tableVars, handler, messages>>
      /\ phase' \in {"ready", "stalled", "fenced", "leaving", "closed"}
      /\ client' \in 0..MaxEpoch /\ epoch' \in 0..MaxEpoch /\ auth' \in 0..MaxAuth /\ known' \in BOOLEAN
      /\ epoch <= epoch' /\ auth <= auth' /\ client' <= epoch' /\ (known => known')
  <2> USE BoundAssumption DEF TypeOK, SessionAgrees
  <2>1. CASE Stall
    BY <2>1 DEF Stall
  <2>2. CASE ClientClosed
    BY <2>2 DEF ClientClosed
  <2>3. CASE Activate
    BY <2>3 DEF Activate
  <2>4. CASE RaiseAuth
    BY <2>4 DEF RaiseAuth
  <2>5. CASE NewChat
    BY <2>5 DEF NewChat
  <2> QED BY Zenon, <2>1, <2>2, <2>3, <2>4, <2>5
<1>2. TypeOK' /\ HandlersAgree' /\ OneCreator' /\ OldIsQuiet' /\ TablesAgree' /\ PendingIsReachable'
      /\ VerdictsTrue'
  <2>1. TypeOK'
    BY Zenon, <1>1 DEF TypeOK
  <2>2. HandlersAgree' /\ OneCreator' /\ OldIsQuiet'
    BY SMTT(30), <1>1 DEF HandlersAgree, OneCreator, OldIsQuiet, Created, Present
  <2>3. TablesAgree' /\ PendingIsReachable'
    BY <1>1 DEF TablesAgree, PendingIsReachable, Unsettled, Present
  <2>4. VerdictsTrue'
    BY <1>1 DEF VerdictsTrue, Truthful, Verdict, Posted
  <2> QED BY Zenon, <2>1, <2>2, <2>3, <2>4
<1>3. \A o \in Ops : Present(o) => client' = client /\ epoch' = epoch /\ Serving'
  BY Zenon DEF SessionAgrees, Serving, Stall, ClientClosed, Activate, RaiseAuth, NewChat
<1>4. OperationsAgree'
  <2>1. \A o \in Ops : sends[o].auth \in Nat
    BY BoundAssumption DEF TypeOK, Operation
  <2> QED BY <1>1, <1>3, <2>1, BoundAssumption DEF OperationsAgree, Present, TypeOK
<1>5. SessionAgrees' /\ UnderWay'
  <2>1. \A r \in Requests : handler[r].client \in Nat
    BY BoundAssumption DEF TypeOK, Handler
  <2>2. \A m \in MessageIds : messages[m].client \in Nat
    BY SMTT(30), BoundAssumption DEF TypeOK, Message
  <2>3. SessionAgrees'
    <3>1. \A r \in Requests : handler'[r].client <= epoch'
      BY <1>1, <2>1, BoundAssumption DEF SessionAgrees, TypeOK
    <3>2. \A m \in MessageIds : messages'[m].client <= epoch'
      BY SMTT(30), <1>1, <2>2, BoundAssumption DEF SessionAgrees, TypeOK
    <3>3. Serving' => client' # 0
      BY BoundAssumption DEF SessionAgrees, Serving, Stall, ClientClosed, Activate, RaiseAuth, NewChat, TypeOK
    <3>4. ~Serving' => \A o \in Ops : ~Present(o)'
      BY Zenon, <1>1, <1>3 DEF Present
    <3> QED BY Zenon, <1>1, <3>1, <3>2, <3>3, <3>4 DEF SessionAgrees
  <2>4. UnderWay'
    <3>1. CASE Activate
      <4>1. client' = epoch + 1
        BY Zenon, <3>1 DEF Activate
      <4>2. \A r \in Requests : handler'[r].client # client'
        BY <1>1, <2>1, <4>1, BoundAssumption DEF SessionAgrees, TypeOK
      <4>3. \A m \in MessageIds : messages'[m].client # client'
        BY SMTT(30), <1>1, <2>2, <4>1, BoundAssumption DEF SessionAgrees, TypeOK
      <4> QED BY Zenon, <4>2, <4>3 DEF UnderWay
    <3>2. CASE ~Activate
      <4>1. (Serving' => Serving) /\ (Serving' => client' = client)
        BY Zenon, <3>2 DEF Serving, Stall, ClientClosed, RaiseAuth, NewChat
      <4> QED BY Zenon, <1>1, <4>1 DEF UnderWay, Unsettled, Present
    <3> QED BY Zenon, <3>1, <3>2
  <2> QED BY Zenon, <2>3, <2>4
<1> QED BY Zenon, <1>2, <1>4, <1>5

\* An operation whose retention runs out has nothing under way.
LEMMA AgeKeeps ==
  ASSUME IInv, NEW o \in Ops, Age(o)
  PROVE  IInv'
<1> USE DEF IInv, accountVars
<1>1. old' = old \cup {o} /\ UNCHANGED <<accountVars, sends, sending_ids, send_messages, journal, handler, messages>>
  BY ZenonT(30) DEF Age
<1>2. TypeOK'
  BY Zenon, <1>1 DEF TypeOK
<1>3. HandlersAgree' /\ OneCreator'
  BY SMTT(30), <1>1 DEF HandlersAgree, OneCreator, Created
<1>4. SessionAgrees' /\ UnderWay'
  BY Zenon, <1>1 DEF SessionAgrees, UnderWay, Present, Unsettled, Serving
<1>5. OperationsAgree'
  BY SMTT(30), <1>1 DEF OperationsAgree, Present
<1>6. OldIsQuiet'
  BY ZenonT(30), <1>1 DEF Age, OldIsQuiet, Present
<1>7. TablesAgree' /\ PendingIsReachable'
  BY ZenonT(30), <1>1 DEF TablesAgree, PendingIsReachable, Present, Unsettled
<1>8. VerdictsTrue'
  BY SMTT(30), <1>1 DEF VerdictsTrue, Truthful, Verdict, Posted
<1> QED BY Zenon, <1>2, <1>3, <1>4, <1>5, <1>6, <1>7, <1>8

-----------------------------------------------------------------------------
(***************************************************************************)
(* The first critical section of send.                                     *)
(***************************************************************************)
\* What prune leaves: the operations that are not old, with their entries.
LEMMA PruneFacts ==
  ASSUME IInv
  PROVE  /\ PrunedSends \in [Ops -> Operation]
         /\ \A o \in Ops : IF o \in old THEN PrunedSends[o].state = "absent" ELSE PrunedSends[o] = sends[o]
         /\ PrunedIds \in [SendingIds -> Ops \cup {None}]
         /\ \A s \in SendingIds : PrunedIds[s] = IF sending_ids[s] \in old THEN None ELSE sending_ids[s]
         /\ PrunedMessages \in [MessageIds -> Ops \cup {None}]
         /\ \A m \in MessageIds : PrunedMessages[m] = IF send_messages[m] \in old THEN None ELSE send_messages[m]
<1> USE DEF IInv
<1>1. Absent \in Operation /\ Absent.state = "absent"
  BY BoundAssumption DEF Absent, Operation
<1>2. /\ PrunedSends \in [Ops -> Operation]
      /\ \A o \in Ops : IF o \in old THEN PrunedSends[o].state = "absent" ELSE PrunedSends[o] = sends[o]
  BY Zenon, <1>1 DEF PrunedSends, TypeOK
<1>3. /\ PrunedIds \in [SendingIds -> Ops \cup {None}]
      /\ \A s \in SendingIds : PrunedIds[s] = IF sending_ids[s] \in old THEN None ELSE sending_ids[s]
  BY Zenon DEF PrunedIds, TypeOK
<1>4. PrunedMessages \in [MessageIds -> Ops \cup {None}]
  BY Zenon DEF PrunedMessages, TypeOK
<1>5. ASSUME NEW m \in MessageIds
      PROVE  PrunedMessages[m] = IF send_messages[m] \in old THEN None ELSE send_messages[m]
  <2>1. CASE send_messages[m] \in old
    <3>1. send_messages[m] # None
      BY Zenon, <2>1, NoneAssumption DEF TypeOK
    <3>2. sends[send_messages[m]].temp = m
      BY Zenon, <3>1 DEF TablesAgree
    <3> QED BY Zenon, <2>1, <3>2 DEF PrunedMessages
  <2>2. CASE send_messages[m] \notin old /\ send_messages[m] # None
    <3>1. messages[m].op = send_messages[m]
      BY Zenon, <2>2 DEF TablesAgree
    <3>2. \A o \in old : sends[o].temp = m => messages[m].op = o
      BY NoneAssumption DEF OldIsQuiet, OperationsAgree, TypeOK
    <3> QED BY Zenon, <2>2, <3>1, <3>2 DEF PrunedMessages
  <2>3. CASE send_messages[m] = None
    BY Zenon, <2>3, NoneAssumption DEF PrunedMessages, TypeOK
  <2> QED BY Zenon, <2>1, <2>2, <2>3
<1> QED BY Zenon, <1>2, <1>3, <1>4, <1>5

\* A request that creates nothing prunes all the same.
LEMMA SendPrunes ==
  ASSUME IInv, NEW r \in Requests, handler[r].pc = "idle", NEW h \in Handler,
         handler' = [handler EXCEPT ![r] = h],
         h.pc \in {"waiting", "done"}, h.sid = None, h.client = 0, h.td = "none", h.answer = "none",
         h.reply \in {"none", "refused"},
         sends' = PrunedSends, sending_ids' = PrunedIds, send_messages' = PrunedMessages, old' = {},
         UNCHANGED <<accountVars, messages, journal>>
  PROVE  IInv'
<1> USE DEF IInv, accountVars
<1>1. /\ handler' \in [Requests -> Handler]
      /\ handler'[r] = h
      /\ \A q \in Requests \ {r} : handler'[q] = handler[q]
  BY Zenon DEF TypeOK
<1>2. handler[r] = Idle
  BY Zenon DEF HandlersAgree
<1>3. /\ handler[r].sid = None /\ handler[r].td = "none" /\ handler[r].pc = "idle" /\ handler[r].reply = "none"
  BY SMTT(30), <1>2 DEF Idle
<1>4. /\ sends' \in [Ops -> Operation]
      /\ \A o \in Ops : IF o \in old THEN sends'[o].state = "absent" ELSE sends'[o] = sends[o]
      /\ sending_ids' \in [SendingIds -> Ops \cup {None}]
      /\ \A s \in SendingIds : sending_ids'[s] = IF sending_ids[s] \in old THEN None ELSE sending_ids[s]
      /\ send_messages' \in [MessageIds -> Ops \cup {None}]
      /\ \A m \in MessageIds : send_messages'[m] = IF send_messages[m] \in old THEN None ELSE send_messages[m]
  BY Zenon, PruneFacts
<1>5. TypeOK'
  BY Zenon, <1>1, <1>4 DEF TypeOK
<1>6. HandlersAgree' /\ OneCreator'
  <2>1. HandlersAgree'
    BY SMTT(30), <1>1 DEF HandlersAgree, Created
  <2>2. OneCreator'
    BY SMTT(30), <1>1, <1>3 DEF OneCreator, Created
  <2> QED BY Zenon, <2>1, <2>2
<1>7. SessionAgrees'
  BY SMTT(40), <1>1, <1>4, BoundAssumption DEF SessionAgrees, Serving, Present, TypeOK
<1>8. OperationsAgree'
  <2>1. \A o \in Ops : Present(o)' => Present(o) /\ sends'[o] = sends[o]
    BY Zenon, <1>4 DEF Present
  <2>2. \A q \in Requests : handler[q].sid # None => handler'[q] = handler[q]
    BY Zenon, <1>1, <1>3
  <2> QED BY SMTT(30), <2>1, <2>2 DEF OperationsAgree
<1>9. UnderWay'
  <2>1. \A m \in MessageIds : messages[m].seen = "new" => messages[m].op \in Ops \ old
    BY SMTT(30) DEF OldIsQuiet, OneCreator, TypeOK, Message
  <2>2. \A q \in Requests : handler[q].td = "queued" \/ handler[q].pc \in {"lookup", "claim", "begin"} => ReqOp[q] \in Ops \ old
    BY Zenon, RequestAssumption DEF OldIsQuiet
  <2> QED BY ZenonT(30), <1>1, <1>4, <2>1, <2>2 DEF UnderWay, Serving, Unsettled, Present
<1>10. OldIsQuiet'
  BY Zenon DEF OldIsQuiet
<1>11. TablesAgree'
  BY SMTT(30), <1>4, NoneAssumption DEF TablesAgree, Unsettled, Present, TypeOK, OperationsAgree, Operation
<1>12. PendingIsReachable'
  BY <1>4 DEF PendingIsReachable, TypeOK, Operation
<1>14. VerdictsTrue'
  <2>1. \A o \in Ops : /\ Verdict(o, "failed")' => Verdict(o, "failed")
                       /\ Verdict(o, "sent")' => Verdict(o, "sent")
    BY Zenon, <1>1, <1>4 DEF Verdict
  <2>2. \A e \in journal' : Posted(e[1])'
    BY Zenon, <1>1 DEF VerdictsTrue, Posted
  <2> QED BY SMTT(30), <1>1, <2>1, <2>2 DEF VerdictsTrue, Truthful
<1> QED BY Zenon, <1>5, <1>6, <1>7, <1>8, <1>9, <1>10, <1>11, <1>12, <1>14

\* A request that creates its operation: it is the first one that is posted.
LEMMA FirstRequest ==
  ASSUME IInv, NEW r \in Requests, handler[r].pc = "idle", MayPost(r), ~Remembers(ReqOp[r])
  PROVE  /\ ReqOp[r] \in Ops \ old /\ ~Present(ReqOp[r])
         /\ \A q \in Requests : ReqOp[q] = ReqOp[r] => handler[q] = Idle
         /\ \A m \in MessageIds : messages[m].op # ReqOp[r]
         /\ \A state : <<ReqOp[r], state>> \notin journal
         /\ ~Verdict(ReqOp[r], "sent") /\ ~Verdict(ReqOp[r], "failed")
<1> DEFINE o == ReqOp[r]
<1> USE DEF IInv
<1>0. o \in Ops
  BY Zenon, RequestAssumption
<1>1. Present(o) => \E q \in Requests : ReqOp[q] = o /\ handler[q].pc # "idle"
  <2> SUFFICES ASSUME Present(o) PROVE \E q \in Requests : ReqOp[q] = o /\ handler[q].pc # "idle"
    BY Zenon
  <2>1. PICK q \in Requests : ReqOp[q] = o /\ handler[q].sid = sends[o].sid /\ sends[o].sid # None
    BY SMTT(30), <1>0 DEF OperationsAgree
  <2> QED BY SMTT(30), <2>1 DEF HandlersAgree, Idle
<1>2. o \in old => Present(o)
  BY Zenon DEF OldIsQuiet
<1>3. o \notin old
  BY Zenon, <1>1, <1>2 DEF MayPost
<1>4. ~Present(o)
  BY Zenon, <1>0, <1>3, PruneFacts DEF Remembers, Present
<1>5. \A q \in Requests : ReqOp[q] = o => handler[q].pc = "idle"
  BY Zenon, <1>4 DEF MayPost
<1>6. \A q \in Requests : ReqOp[q] = o => handler[q] = Idle
  BY Zenon, <1>5 DEF HandlersAgree
<1>7. \A q \in Requests : ReqOp[q] = o => handler[q].td = "none" /\ handler[q].reply = "none"
  BY SMTT(30), <1>6 DEF Idle
<1>8. \A m \in MessageIds : messages[m].op # o
  BY <1>0, <1>7, NewMessage, NoneAssumption
<1>9. \A state : <<o, state>> \notin journal
  BY Zenon, <1>5 DEF VerdictsTrue, Posted
<1>10. ~Verdict(o, "sent") /\ ~Verdict(o, "failed")
  BY Zenon, <1>4, <1>7, <1>9 DEF Verdict, Present, VerdictsTrue, Truthful
<1> QED BY Zenon, <1>0, <1>3, <1>4, <1>6, <1>8, <1>9, <1>10

\* Replacing one handler keeps the others and the type.
LEMMA HandlerSet ==
  ASSUME TypeOK, NEW r \in Requests, NEW h \in Handler, handler' = [handler EXCEPT ![r] = h]
  PROVE  /\ handler' \in [Requests -> Handler] /\ handler'[r] = h
         /\ \A q \in Requests \ {r} : handler'[q] = handler[q]
BY Zenon DEF TypeOK

\* The operation that send creates joins the tables: the step preserves the
\* invariant.
LEMMA SendCreates ==
  ASSUME IInv, NEW r \in Requests, handler[r].pc = "idle", MayPost(r), ~Remembers(ReqOp[r]),
         phase = "ready", known, HasRoom,
         NEW s \in SendingIds, PrunedIds[s] = None,
         NEW e \in Operation, e.state = "preparing", e.sid = s, e.temp = None, e.epoch = epoch, e.auth = auth,
         sends' = [PrunedSends EXCEPT ![ReqOp[r]] = e],
         sending_ids' = [PrunedIds EXCEPT ![s] = ReqOp[r]],
         NEW step \in {"lookup", "claim"},
         handler' = [handler EXCEPT ![r].pc = step, ![r].client = client, ![r].sid = s],
         send_messages' = PrunedMessages, old' = {},
         UNCHANGED <<accountVars, messages, journal>>
  PROVE  IInv'
<1> DEFINE o == ReqOp[r]
<1> USE DEF IInv, accountVars
<1>0. /\ o \in Ops \ old /\ ~Present(o)
      /\ \A q \in Requests : ReqOp[q] = o => handler[q] = Idle
      /\ \A m \in MessageIds : messages[m].op # o
      /\ ~Verdict(o, "sent") /\ ~Verdict(o, "failed")
  BY Zenon, FirstRequest
<1>1. /\ handler' \in [Requests -> Handler]
      /\ handler'[r].pc = step /\ handler'[r].client = client /\ handler'[r].sid = s
      /\ handler'[r].td = "none" /\ handler'[r].answer = "none" /\ handler'[r].reply = "none"
      /\ \A q \in Requests \ {r} : handler'[q] = handler[q]
  <2> DEFINE h == [handler[r] EXCEPT !.pc = step, !.client = client, !.sid = s]
  <2>1. handler[r] \in Handler /\ handler[r] = Idle /\ client \in 0..MaxEpoch
    BY Zenon, <1>0 DEF TypeOK
  <2>2. handler[r].td = "none" /\ handler[r].answer = "none" /\ handler[r].reply = "none"
    BY <2>1 DEF Idle
  <2>3. h \in Handler /\ h.pc = step /\ h.client = client /\ h.sid = s
    BY Zenon, <2>1 DEF Handler
  <2>4. h.td = "none" /\ h.answer = "none" /\ h.reply = "none"
    BY Zenon, <2>1, <2>2 DEF Handler
  <2>5. handler' = [handler EXCEPT ![r] = h]
    BY Zenon
  <2> HIDE DEF h
  <2>6. /\ handler' \in [Requests -> Handler] /\ handler'[r] = h
        /\ \A q \in Requests \ {r} : handler'[q] = handler[q]
    BY ONLY Zenon, TypeOK, <2>3, <2>5, r \in Requests, HandlerSet
  <2> QED BY Zenon, <2>3, <2>4, <2>6
<1>2. /\ sends' \in [Ops -> Operation]
      /\ sends'[o] = e
      /\ \A p \in Ops \ {o} : IF p \in old THEN sends'[p].state = "absent" ELSE sends'[p] = sends[p]
  BY Zenon, <1>0, PruneFacts
<1>3. /\ sending_ids' \in [SendingIds -> Ops \cup {None}]
      /\ sending_ids'[s] = o
      /\ \A t \in SendingIds \ {s} : sending_ids'[t] = IF sending_ids[t] \in old THEN None ELSE sending_ids[t]
      /\ sending_ids[s] \in old \cup {None}
  BY Zenon, <1>0, PruneFacts
<1>4. /\ send_messages' \in [MessageIds -> Ops \cup {None}]
      /\ \A m \in MessageIds : send_messages'[m] = IF send_messages[m] \in old THEN None ELSE send_messages[m]
  BY PruneFacts
<1>5. /\ \A q \in Requests : ReqOp[q] = o => handler[q].sid = None /\ handler[q].pc = "idle" /\ handler[q].td = "none"
      /\ s # None
  BY <1>0, NoneAssumption DEF Idle
<1>6. TypeOK'
  BY Zenon, <1>1, <1>2, <1>3, <1>4 DEF TypeOK
<1>7. HandlersAgree'
  BY <1>1, <1>5 DEF HandlersAgree, Created
<1>8. OneCreator'
  <2>1. \A p, q \in Requests : ReqOp[p] = ReqOp[q] /\ Created(p)' /\ Created(q)' => p = q
    BY <1>1, <1>5 DEF OneCreator, Created
  <2> QED BY Zenon, <1>1, <1>5, <2>1 DEF OneCreator
<1>9. SessionAgrees'
  BY Zenon, <1>1, <1>2, BoundAssumption DEF SessionAgrees, Serving, Present, TypeOK
<1>10. OperationsAgree'
  <2>1. ASSUME NEW p \in Ops \ {o}, Present(p)'
        PROVE  sends'[p] = sends[p] /\ Present(p)
    BY Zenon, <1>2, <2>1 DEF Present
  <2>2. \A q \in Requests : ReqOp[q] # o => handler'[q] = handler[q]
    BY Zenon, <1>1
  <2> QED BY SMTT(30), <1>0, <1>1, <1>2, <1>5, <2>1, <2>2, BoundAssumption DEF OperationsAgree, TypeOK
<1>11. UnderWay'
  <2>1. \A m \in MessageIds : messages[m].seen = "new" => messages[m].op \in Ops \ old /\ messages[m].op # o
    BY <1>0 DEF OldIsQuiet, OneCreator, TypeOK, Message
  <2>2. \A q \in Requests : handler[q].td = "queued" \/ handler[q].pc \in {"lookup", "claim", "begin"} =>
          ReqOp[q] \in Ops \ old /\ ReqOp[q] # o
    BY Zenon, <1>5, RequestAssumption DEF OldIsQuiet
  <2>3. sends'[o].state = "preparing"
    BY Zenon, <1>2
  <2> QED BY SMTT(30), <1>0, <1>1, <1>2, <2>1, <2>2, <2>3 DEF UnderWay, Serving, Unsettled, Present, Settled
<1>12. OldIsQuiet'
  BY Zenon DEF OldIsQuiet
<1>13. TablesAgree'
  <2>1. ASSUME NEW p \in Ops, Unsettled(p)'
        PROVE  sending_ids'[sends'[p].sid] = p
    <3>1. CASE p = o
      BY Zenon, <1>2, <1>3, <3>1
    <3>2. CASE p # o
      <4>1. p \notin old /\ Unsettled(p) /\ sends'[p] = sends[p]
        BY Zenon, <1>2, <2>1, <3>2 DEF Unsettled, Present
      <4>2. sends[p].sid \in SendingIds /\ sending_ids[sends[p].sid] = p
        BY <4>1 DEF TablesAgree, OperationsAgree, Unsettled, TypeOK, Operation
      <4> QED BY <1>3, <4>1, <4>2, NoneAssumption
    <3> QED BY Zenon, <3>1, <3>2
  <2>2. ASSUME NEW t \in SendingIds, sending_ids'[t] # None
        PROVE  Unsettled(sending_ids[t])' /\ sends'[sending_ids'[t]].sid = t
    <3>1. CASE t = s
      BY Zenon, <1>0, <1>2, <1>3, <3>1 DEF Unsettled, Present, Settled
    <3>2. CASE t # s
      <4>1. sending_ids'[t] = sending_ids[t] /\ sending_ids[t] \in Ops \ old
        BY Zenon, <1>3, <2>2, <3>2 DEF TypeOK
      <4>2. Unsettled(sending_ids[t]) /\ sends[sending_ids[t]].sid = t
        BY <2>2, <4>1 DEF TablesAgree
      <4>3. sending_ids[t] # o
        BY Zenon, <1>0, <4>2 DEF Unsettled
      <4> QED BY Zenon, <1>2, <4>1, <4>2, <4>3 DEF Unsettled, Present
    <3> QED BY Zenon, <3>1, <3>2
  <2>3. ASSUME NEW m \in MessageIds, send_messages'[m] # None
        PROVE  /\ Present(send_messages[m])' /\ sends'[send_messages'[m]].temp = m
               /\ messages'[m].op = send_messages'[m]
    <3>1. send_messages'[m] = send_messages[m] /\ send_messages[m] \in Ops \ old
      BY <1>4, <2>3 DEF TypeOK
    <3>2. Present(send_messages[m]) /\ sends[send_messages[m]].temp = m /\ messages[m].op = send_messages[m]
      BY Zenon, <2>3, <3>1 DEF TablesAgree
    <3>3. send_messages[m] # o
      BY Zenon, <1>0, <3>2
    <3> QED BY Zenon, <1>2, <3>1, <3>2, <3>3 DEF Present
  <2> QED BY Zenon, <2>1, <2>2, <2>3 DEF TablesAgree
<1>14. PendingIsReachable'
  BY <1>0, <1>2, <1>4 DEF PendingIsReachable, TypeOK, Operation
<1>16. VerdictsTrue'
  <2>1. \A p \in Ops : /\ Verdict(p, "failed")' => Verdict(p, "failed")
                       /\ Verdict(p, "sent")' => Verdict(p, "sent")
    BY <1>1, <1>2 DEF Verdict
  <2>2. \A x \in journal' : Posted(x[1])'
    BY Zenon, <1>1 DEF VerdictsTrue, Posted
  <2>3. Truthful'
    BY <1>1, <2>1 DEF VerdictsTrue, Truthful
  <2>4. ASSUME NEW p \in Ops, Verdict(p, "failed")', NEW q \in Requests, ReqOp[q] = p
        PROVE  handler'[q].pc \notin {"lookup", "claim", "begin"}
    BY Zenon, <1>0, <1>1, <2>1, <2>4 DEF VerdictsTrue
  <2> QED BY Zenon, <2>2, <2>3, <2>4 DEF VerdictsTrue
<1> QED BY Zenon, <1>6, <1>7, <1>8, <1>9, <1>10, <1>11, <1>12, <1>13, <1>14, <1>16

-----------------------------------------------------------------------------
(***************************************************************************)
(* The steps of a handler thread.                                          *)
(***************************************************************************)
\* The first critical section of send preserves the invariant: it refuses,
\* joins the requests of an operation, or creates it.
LEMMA SendKeeps ==
  ASSUME IInv, NEW r \in Requests, NEW current \in BOOLEAN, Send(r, current)
  PROVE  IInv'
<1> USE DEF IInv, accountVars, tableVars
<1>1. handler[r].pc = "idle" /\ MayPost(r) /\ UNCHANGED <<accountVars, messages, journal>>
  BY ZenonT(30) DEF Send
<1>2. handler[r] = Idle /\ Idle \in Handler
  BY SMTT(30), <1>1, BoundAssumption DEF HandlersAgree, Idle, Handler
<1> DEFINE ref == [Idle EXCEPT !.pc = "done", !.reply = "refused"]
           wait == [Idle EXCEPT !.pc = "waiting"]
<1>3. /\ ref \in Handler /\ ref.pc = "done" /\ ref.sid = None /\ ref.client = 0 /\ ref.td = "none"
      /\ ref.answer = "none" /\ ref.reply = "refused" /\ ref.msg = None
  BY Zenon, <1>2 DEF Idle, Handler
<1>4. /\ wait \in Handler /\ wait.pc = "waiting" /\ wait.sid = None /\ wait.client = 0 /\ wait.td = "none"
      /\ wait.answer = "none" /\ wait.reply = "none"
  BY Zenon, <1>2 DEF Idle, Handler
<1>5. Refuse(r) => handler' = [handler EXCEPT ![r] = ref]
  BY Zenon, <1>2 DEF Refuse
<1>6. Goto(r, "waiting") => handler' = [handler EXCEPT ![r] = wait]
  BY Zenon, <1>2 DEF Goto
<1> HIDE DEF ref, wait
<1>7. CASE phase # "ready" \/ ~current
  <2>1. Refuse(r) /\ UNCHANGED <<sends, sending_ids, send_messages, old>>
    BY ZenonT(30), <1>7 DEF Send
  <2>2. handler[r].sid = None /\ handler[r].client = 0 /\ handler[r].td = "none" /\ handler[r].msg = None
    BY SMTT(30), <1>2 DEF Idle
  <2>3. ~Created(r)
    BY Zenon, <2>2 DEF Created
  <2> QED BY ZenonT(30), <1>1, <1>3, <1>5, <2>1, <2>2, <2>3, HandlerMoves DEF Settled
<1>8. CASE phase = "ready" /\ current
  <2>1. send_messages' = PrunedMessages /\ old' = {}
    BY ZenonT(30), <1>8 DEF Send
  <2>2. CASE /\ Refuse(r) \/ Goto(r, "waiting")
             /\ sends' = PrunedSends /\ sending_ids' = PrunedIds
    BY ZenonT(30), <1>1, <1>3, <1>4, <1>5, <1>6, <2>1, <2>2, SendPrunes
  <2>3. CASE \E s \in {t \in SendingIds : PrunedIds[t] = None} :
                /\ ~Remembers(ReqOp[r])
                /\ known
                /\ HasRoom
                /\ sends' = [PrunedSends EXCEPT ![ReqOp[r]] =
                               [Absent EXCEPT !.state = "preparing", !.sid = s, !.epoch = epoch,
                                              !.auth = auth, !.reply = ReqReply[r]]]
                /\ sending_ids' = [PrunedIds EXCEPT ![s] = ReqOp[r]]
                /\ handler' = [handler EXCEPT ![r].pc = IF ReqReply[r] THEN "lookup" ELSE "claim",
                                              ![r].client = client, ![r].sid = s]
    <3>1. PICK s \in {t \in SendingIds : PrunedIds[t] = None} :
                /\ ~Remembers(ReqOp[r])
                /\ known
                /\ HasRoom
                /\ sends' = [PrunedSends EXCEPT ![ReqOp[r]] =
                               [Absent EXCEPT !.state = "preparing", !.sid = s, !.epoch = epoch,
                                              !.auth = auth, !.reply = ReqReply[r]]]
                /\ sending_ids' = [PrunedIds EXCEPT ![s] = ReqOp[r]]
                /\ handler' = [handler EXCEPT ![r].pc = IF ReqReply[r] THEN "lookup" ELSE "claim",
                                              ![r].client = client, ![r].sid = s]
      BY ZenonT(30), <2>3
    <3> DEFINE e == [Absent EXCEPT !.state = "preparing", !.sid = s, !.epoch = epoch,
                                   !.auth = auth, !.reply = ReqReply[r]]
               step == IF ReqReply[r] THEN "lookup" ELSE "claim"
    <3>2. Absent \in Operation /\ Absent.temp = None
      BY BoundAssumption DEF Absent, Operation
    <3>3. epoch \in 0..MaxEpoch /\ auth \in 0..MaxAuth /\ ReqReply[r] \in BOOLEAN
      BY Zenon, RequestAssumption DEF TypeOK
    <3>4. /\ e \in Operation /\ e.state = "preparing" /\ e.sid = s /\ e.temp = None
          /\ e.epoch = epoch /\ e.auth = auth
      BY Zenon, <3>2, <3>3 DEF Operation
    <3>5. step \in {"lookup", "claim"}
      BY Zenon
    <3>6. handler' = [handler EXCEPT ![r].pc = step, ![r].client = client, ![r].sid = s]
      BY Zenon, <3>1
    <3>7. sends' = [PrunedSends EXCEPT ![ReqOp[r]] = e]
      BY Zenon, <3>1
    <3>8. /\ phase = "ready" /\ known /\ HasRoom /\ ~Remembers(ReqOp[r]) /\ MayPost(r)
          /\ s \in SendingIds /\ PrunedIds[s] = None /\ sending_ids' = [PrunedIds EXCEPT ![s] = ReqOp[r]]
      BY Zenon, <1>1, <1>8, <3>1
    <3>9. IInv
      BY Zenon
    <3> HIDE DEF e, step, IInv, accountVars, tableVars
    <3> QED BY ONLY ZenonT(30), <1>1, <2>1, <3>4, <3>5, <3>6, <3>7, <3>8, <3>9, r \in Requests, SendCreates
  <2> QED BY ZenonT(30), <1>8, <2>2, <2>3 DEF Send
<1> QED BY Zenon, <1>7, <1>8
=============================================================================
