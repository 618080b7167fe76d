--------------------------- MODULE TdSendContract ---------------------------
(***************************************************************************)
(* Proof that TdSend implements SendContract for every operation: what     *)
(* backend-api learns from replies, lookups and the journal.  Every step   *)
(* of the service is, for each operation, a step of the contract or        *)
(* nothing at all.  The last section shows that the table stays within its *)
(* limit, with the theorems about cardinalities.                           *)
(***************************************************************************)
EXTENDS Integers, TdSendProofs

\* A step of the contract of an operation, or none.
ContractStep(o) == [Contract(o)!ContractNext]_(Contract(o)!contractVars)

\* The fate of an operation, seen from the request that created it.
Carried(r) == handler[r].td \in {"accepted", "immediate"}
FateVia(r) ==
  IF Carried(r) /\ messages[handler[r].msg].fate = "delivered" THEN "delivered"
  ELSE IF \/ handler[r].td = "queued" \/ handler[r].pc \in {"lookup", "claim", "begin"}
          \/ Carried(r) /\ messages[handler[r].msg].fate = "open"
       THEN "live" ELSE "dead"

-----------------------------------------------------------------------------
(***************************************************************************)
(* The steps of the contract, in terms of the refinement mapping.          *)
(***************************************************************************)
\* Nothing that the contract sees changes.
LEMMA Stutters ==
  ASSUME NEW o \in Ops, Posted(o)' = Posted(o), Lookup(o)' = Lookup(o),
         FateOf(o)' = FateOf(o), JournalOf(o)' = JournalOf(o)
  PROVE  ContractStep(o)
<1>1. StageOf(o)' = StageOf(o)
  BY Zenon DEF StageOf
<1> QED BY Zenon, <1>1 DEF ContractStep, Contract!contractVars

\* The stage of a posted operation is what a lookup finds.
LEMMA StagePosted ==
  ASSUME NEW o \in Ops, Posted(o)
  PROVE  /\ Lookup(o) = "not_found" => StageOf(o) = "lost"
         /\ Lookup(o) = "pending" => StageOf(o) = "open"
         /\ Lookup(o) \in Settled => StageOf(o) = Lookup(o)
         /\ StageOf(o) # "unposted"
BY Zenon DEF StageOf, Lookup, PublicState, Settled

\* The same after the step.
LEMMA StagePostedNext ==
  ASSUME NEW o \in Ops, Posted(o)'
  PROVE  /\ Lookup(o)' = "not_found" => StageOf(o)' = "lost"
         /\ Lookup(o)' = "pending" => StageOf(o)' = "open"
         /\ Lookup(o)' \in Settled => StageOf(o)' = Lookup(o)'
BY Zenon DEF StageOf, Lookup, PublicState, Settled

\* The service takes the operation on.
LEMMA Accepts ==
  ASSUME NEW o \in Ops, ~Posted(o), Posted(o)', Lookup(o)' = "pending",
         FateOf(o)' = FateOf(o), JournalOf(o)' = JournalOf(o)
  PROVE  ContractStep(o)
<1>1. StageOf(o) = "unposted"
  BY Zenon DEF StageOf
<1>2. StageOf(o)' = "open"
  BY Zenon, StagePostedNext
<1>3. Contract(o)!Accept
  BY Zenon, <1>1, <1>2 DEF Contract!Accept
<1> QED BY Zenon, <1>3 DEF ContractStep, Contract!ContractNext

\* The service refuses it.
LEMMA Rejects ==
  ASSUME NEW o \in Ops, ~Posted(o), Posted(o)', Lookup(o)' = "not_found",
         FateOf(o)' = "dead", JournalOf(o)' = JournalOf(o)
  PROVE  ContractStep(o)
<1>1. StageOf(o) = "unposted"
  BY Zenon DEF StageOf
<1>2. StageOf(o)' = "lost"
  BY Zenon, StagePostedNext
<1>3. Contract(o)!Reject
  BY Zenon, <1>1, <1>2 DEF Contract!Reject
<1> QED BY Zenon, <1>3 DEF ContractStep, Contract!ContractNext

\* The fate of the message is decided.
LEMMA Decides ==
  ASSUME NEW o \in Ops, Posted(o), Posted(o)', Lookup(o)' = Lookup(o), JournalOf(o)' = JournalOf(o),
         FateOf(o) = "live", FateOf(o)' \in {"delivered", "dead"}
  PROVE  ContractStep(o)
<1>1. StageOf(o)' = StageOf(o)
  BY Zenon DEF StageOf
<1>2. StageOf(o) # "unposted"
  BY Zenon, StagePosted
<1>3. Contract(o)!Decide
  BY Zenon, <1>1, <1>2 DEF Contract!Decide
<1> QED BY Zenon, <1>3 DEF ContractStep, Contract!ContractNext

\* An event says that the message is on its way.
LEMMA Progresses ==
  ASSUME NEW o \in Ops, Posted(o), Posted(o)', Lookup(o)' = Lookup(o), Lookup(o) \in {"pending", "not_found"},
         FateOf(o)' = FateOf(o), JournalOf(o)' = JournalOf(o) \cup {"pending"}
  PROVE  ContractStep(o)
<1>1. StageOf(o)' = StageOf(o)
  BY Zenon DEF StageOf
<1>2. StageOf(o) \in {"open", "lost"}
  BY Zenon, StagePosted
<1>3. Contract(o)!Progress
  BY Zenon, <1>1, <1>2 DEF Contract!Progress
<1> QED BY Zenon, <1>3 DEF ContractStep, Contract!ContractNext

\* A verdict is reached and published.
LEMMA Settles ==
  ASSUME NEW o \in Ops, NEW verdict \in Settled, Posted(o), Posted(o)',
         \/ Lookup(o) = "pending" /\ Lookup(o)' = verdict
         \/ Lookup(o) = "not_found" /\ Lookup(o)' = "not_found",
         IF verdict = "sent" THEN FateOf(o) = "delivered" ELSE FateOf(o) # "delivered",
         FateOf(o)' = IF verdict = "sent" THEN "delivered" ELSE "dead",
         JournalOf(o)' = JournalOf(o) \cup {verdict}
  PROVE  ContractStep(o)
<1>1. StageOf(o) \in {"open", "lost"}
  BY Zenon, StagePosted
<1>2. StageOf(o)' = IF StageOf(o) = "open" THEN verdict ELSE StageOf(o)
  BY Zenon, StagePosted, StagePostedNext
<1>3. Contract(o)!Settle(verdict)
  BY Zenon, <1>1, <1>2 DEF Contract!Settle
<1>4. verdict \in Contract(o)!Verdicts
  BY Zenon DEF Contract!Verdicts, Settled
<1> QED BY Zenon, <1>3, <1>4 DEF ContractStep, Contract!ContractNext

\* The operation is forgotten.
LEMMA Forgets ==
  ASSUME NEW o \in Ops, Posted(o), Posted(o)', Lookup(o)' = "not_found",
         JournalOf(o)' \in {JournalOf(o), {}},
         \/ FateOf(o)' = FateOf(o)
         \/ FateOf(o) = "live" /\ FateOf(o)' = "dead"
  PROVE  ContractStep(o)
<1>1. StageOf(o) # "unposted"
  BY Zenon, StagePosted
<1>2. StageOf(o)' = "lost"
  BY Zenon, StagePostedNext
<1>3. Contract(o)!Forget
  BY Zenon, <1>1, <1>2 DEF Contract!Forget
<1> QED BY Zenon, <1>3 DEF ContractStep, Contract!ContractNext

-----------------------------------------------------------------------------
(***************************************************************************)
(* The fate of an operation is that of its creator.                        *)
(***************************************************************************)
\* An operation in the table was posted, and so was one that was created.
LEMMA CreatedIsPosted ==
  ASSUME IInv
  PROVE  /\ \A r \in Requests : Created(r) => Posted(ReqOp[r])
         /\ \A o \in Ops : Present(o) => Posted(o)
<1>1. ASSUME NEW r \in Requests, Created(r) PROVE handler[r].pc # "idle"
  BY <1>1 DEF IInv, HandlersAgree, Created, Idle
<1>2. ASSUME NEW r \in Requests, Created(r) PROVE Posted(ReqOp[r])
  BY Zenon, <1>1, <1>2 DEF Posted
<1>3. ASSUME NEW o \in Ops, Present(o) PROVE Posted(o)
  <2>1. PICK r \in Requests : ReqOp[r] = o /\ handler[r].sid = sends[o].sid /\ sends[o].sid # None
    BY Zenon, <1>3 DEF IInv, OperationsAgree
  <2> QED BY Zenon, <2>1, <1>2 DEF Created
<1> QED BY Zenon, <1>2, <1>3

\* The fate of an operation is what its creator has done with it; one that was
\* never posted is still open, and one that was only refused never will be sent.
LEMMA Fates ==
  IInv => /\ \A r \in Requests : Created(r) => Posted(ReqOp[r]) /\ FateOf(ReqOp[r]) = FateVia(r)
          /\ \A o \in Ops : ~Posted(o) => FateOf(o) = "live"
          /\ \A o \in Ops : Posted(o) /\ (\A r \in Requests : ReqOp[r] = o => ~Created(r)) => FateOf(o) = "dead"
<1> SUFFICES ASSUME IInv PROVE
          /\ \A r \in Requests : Created(r) => Posted(ReqOp[r]) /\ FateOf(ReqOp[r]) = FateVia(r)
          /\ \A o \in Ops : ~Posted(o) => FateOf(o) = "live"
          /\ \A o \in Ops : Posted(o) /\ (\A r \in Requests : ReqOp[r] = o => ~Created(r)) => FateOf(o) = "dead"
  BY Zenon
<1>1. ASSUME NEW m \in MessageIds, messages[m].op # None
      PROVE  \E r \in Requests : ReqOp[r] = messages[m].op /\ Created(r) /\ Carried(r) /\ handler[r].msg = m
  BY Zenon, <1>1, NewMessage DEF Carried
<1>2. ASSUME NEW q \in Requests, \/ handler[q].td = "queued"
                                 \/ handler[q].pc \in {"lookup", "claim", "begin"} \/ Carried(q)
      PROVE  Created(q)
  BY Zenon, <1>2 DEF IInv, HandlersAgree, Carried
<1>3. ASSUME NEW r \in Requests, NEW q \in Requests, ReqOp[r] = ReqOp[q], Created(r), Created(q) PROVE r = q
  BY Zenon, <1>3 DEF IInv, OneCreator
<1>4. ASSUME NEW r \in Requests, Carried(r)
      PROVE  handler[r].msg \in MessageIds /\ messages[handler[r].msg].op = ReqOp[r]
  BY Zenon, <1>4 DEF IInv, HandlersAgree, Carried
<1>5. \A r \in Requests : ReqOp[r] \in Ops /\ ReqOp[r] # None
  BY Zenon, RequestAssumption, NoneAssumption
<1>6. \A o \in Ops : o # None
  BY Zenon, NoneAssumption
<1>7. ASSUME NEW r \in Requests, Created(r)
      PROVE  Posted(ReqOp[r]) /\ FateOf(ReqOp[r]) = FateVia(r)
  <2> DEFINE o == ReqOp[r]
  <2>1. Posted(o)
    BY Zenon, <1>7, CreatedIsPosted
  <2>2. ASSUME NEW m \in MessageIds, messages[m].op = o PROVE Carried(r) /\ handler[r].msg = m
    BY <2>2, <1>1, <1>3, <1>5, <1>7
  <2>3. (\E m \in MessageIds : messages[m].op = o /\ messages[m].fate = "delivered")
         <=> Carried(r) /\ messages[handler[r].msg].fate = "delivered"
    BY Zenon, <2>2, <1>4
  <2>4. (\E m \in MessageIds : messages[m].op = o /\ messages[m].fate = "open")
         <=> Carried(r) /\ messages[handler[r].msg].fate = "open"
    BY Zenon, <2>2, <1>4
  <2>5. (\E q \in Requests : /\ ReqOp[q] = o
                             /\ \/ handler[q].td = "queued"
                                \/ handler[q].pc \in {"lookup", "claim", "begin"})
         <=> handler[r].td = "queued" \/ handler[r].pc \in {"lookup", "claim", "begin"}
    BY Zenon, <1>2, <1>3, <1>7
  <2> HIDE DEF o
  <2>6. FateOf(o) = FateVia(r)
    BY Zenon, <2>1, <2>3, <2>4, <2>5 DEF FateOf, FateVia, Live
  <2> QED BY Zenon, <2>1, <2>6 DEF o
<1>8. ASSUME NEW o \in Ops, \A r \in Requests : ReqOp[r] = o => ~Created(r)
      PROVE  /\ ~\E m \in MessageIds : messages[m].op = o /\ messages[m].fate = "delivered"
             /\ ~Live(o)
  BY Zenon, <1>1, <1>2, <1>6, <1>8 DEF Live
<1>9. ASSUME NEW o \in Ops, ~Posted(o) PROVE FateOf(o) = "live"
  <2>1. \A r \in Requests : ReqOp[r] = o => ~Created(r)
    BY Zenon, <1>9, CreatedIsPosted
  <2> QED BY Zenon, <2>1, <1>8, <1>9 DEF FateOf
<1>10. ASSUME NEW o \in Ops, Posted(o), \A r \in Requests : ReqOp[r] = o => ~Created(r)
       PROVE  FateOf(o) = "dead"
  BY Zenon, <1>8, <1>10 DEF FateOf
<1> QED BY Zenon, <1>7, <1>9, <1>10

\* The same after a step that keeps the invariant.
LEMMA FatesNext ==
  IInv' => /\ \A r \in Requests : Created(r)' => Posted(ReqOp[r])' /\ FateOf(ReqOp[r])' = FateVia(r)'
           /\ \A o \in Ops : ~Posted(o)' => FateOf(o)' = "live"
           /\ \A o \in Ops : Posted(o)' /\ (\A r \in Requests : ReqOp[r] = o => ~Created(r)') => FateOf(o)' = "dead"
<1>1. (IInv => /\ \A r \in Requests : Created(r) => Posted(ReqOp[r]) /\ FateOf(ReqOp[r]) = FateVia(r)
               /\ \A o \in Ops : ~Posted(o) => FateOf(o) = "live"
               /\ \A o \in Ops : Posted(o) /\ (\A r \in Requests : ReqOp[r] = o => ~Created(r)) => FateOf(o) = "dead")'
  BY Fates, PTL
<1> QED BY Zenon, <1>1

\* A step that creates no operation and posts none leaves the fate of an
\* operation to its creator.
LEMMA FateKept ==
  ASSUME IInv, IInv', NEW o \in Ops, Posted(o)' = Posted(o),
         \A r \in Requests : handler'[r].sid = handler[r].sid,
         \A r \in Requests : ReqOp[r] = o /\ Created(r) => FateVia(r)' = FateVia(r)
  PROVE  FateOf(o)' = FateOf(o)
<1>1. \A r \in Requests : Created(r)' = Created(r)
  BY Zenon DEF Created
<1>2. CASE \E r \in Requests : ReqOp[r] = o /\ Created(r)
  BY <1>1, <1>2, Fates, FatesNext
<1>3. CASE ~Posted(o)
  BY Zenon, <1>3, Fates, FatesNext
<1>4. CASE Posted(o) /\ \A r \in Requests : ReqOp[r] = o => ~Created(r)
  BY Zenon, <1>1, <1>4, Fates, FatesNext
<1> QED BY Zenon, <1>2, <1>3, <1>4

\* What one handler does concerns its own operation.
LEMMA OthersKept ==
  ASSUME TypeOK, NEW r \in Requests, NEW h, handler' = [handler EXCEPT ![r] = h],
         NEW o \in Ops, o # ReqOp[r]
  PROVE  /\ Posted(o)' = Posted(o)
         /\ \A q \in Requests : ReqOp[q] = o => handler'[q] = handler[q]
<1>1. \A q \in Requests : ReqOp[q] = o => handler'[q] = handler[q]
  BY Zenon DEF TypeOK
<1>2. Posted(o)' <=> Posted(o)
  BY Zenon, <1>1 DEF Posted
<1>3. Posted(o)' \in BOOLEAN /\ Posted(o) \in BOOLEAN
  BY Zenon DEF Posted
<1> QED BY Zenon, <1>1, <1>2, <1>3

\* One posted handler moves and the messages stay: no other operation is
\* concerned.
LEMMA HandlerFates ==
  ASSUME IInv, IInv', NEW r \in Requests, NEW h \in Handler,
         handler' = [handler EXCEPT ![r] = h], UNCHANGED messages,
         handler[r].pc # "idle", h.pc # "idle", h.sid = handler[r].sid
  PROVE  /\ \A o \in Ops : Posted(o)' = Posted(o)
         /\ \A o \in Ops : (ReqOp[r] = o /\ Created(r) => FateVia(r)' = FateVia(r)) => FateOf(o)' = FateOf(o)
<1>0. TypeOK /\ handler \in [Requests -> Handler]
  BY Zenon DEF IInv, TypeOK
<1>1. handler'[r] = h /\ \A q \in Requests : q # r => handler'[q] = handler[q]
  BY Zenon, <1>0
<1>2. \A q \in Requests : handler'[q].sid = handler[q].sid
  BY Zenon, <1>1
<1>3. ASSUME NEW o \in Ops PROVE Posted(o)' = Posted(o)
  <2>1. Posted(o)' <=> Posted(o)
    BY Zenon, <1>1 DEF Posted
  <2>2. Posted(o)' \in BOOLEAN /\ Posted(o) \in BOOLEAN
    BY Zenon DEF Posted
  <2> QED BY <2>1, <2>2
<1>4. ASSUME NEW q \in Requests, q # r PROVE FateVia(q)' = FateVia(q)
  <2>1. handler'[q] = handler[q] /\ messages' = messages
    BY Zenon, <1>1, <1>4
  <2> QED BY Zenon, <2>1 DEF FateVia, Carried
<1>5. ASSUME NEW o \in Ops, ReqOp[r] = o /\ Created(r) => FateVia(r)' = FateVia(r) PROVE FateOf(o)' = FateOf(o)
  BY Zenon, <1>2, <1>3, <1>4, <1>5, FateKept
<1> QED BY Zenon, <1>3, <1>5

\* A step of a handler that has been posted, with everything else unchanged: the
\* contract of its operation sees at most that the fate is decided.
LEMMA HandlerContract ==
  ASSUME IInv, IInv', NEW r \in Requests, NEW h \in Handler,
         handler' = [handler EXCEPT ![r] = h],
         UNCHANGED <<accountVars, tableVars, messages>>,
         handler[r].pc # "idle", h.pc # "idle", h.sid = handler[r].sid,
         Created(r) => \/ FateVia(r)' = FateVia(r)
                       \/ FateVia(r) = "live" /\ FateVia(r)' \in {"delivered", "dead"}
  PROVE  \A o \in Ops : ContractStep(o)
<1> SUFFICES ASSUME NEW o \in Ops PROVE ContractStep(o)
  BY Zenon
<1>1. Lookup(o)' = Lookup(o) /\ JournalOf(o)' = JournalOf(o)
  BY Zenon DEF Lookup, Present, JournalOf, accountVars, tableVars
<1>2. Posted(o)' = Posted(o)
  BY Zenon, HandlerFates
<1>3. CASE ReqOp[r] # o \/ ~Created(r) \/ FateVia(r)' = FateVia(r)
  <2>1. FateOf(o)' = FateOf(o)
    BY Zenon, <1>3, HandlerFates
  <2> QED BY Zenon, <1>1, <1>2, <2>1, Stutters
<1>4. CASE ReqOp[r] = o /\ Created(r) /\ FateVia(r) = "live" /\ FateVia(r)' \in {"delivered", "dead"}
  <2>1. Created(r)'
    BY Zenon, <1>4 DEF Created, IInv, TypeOK
  <2>2. /\ Posted(o) /\ Posted(o)'
        /\ FateOf(o) = "live" /\ FateOf(o)' \in {"delivered", "dead"}
    BY Zenon, <1>4, <2>1, Fates, FatesNext
  <2> QED BY Zenon, <1>1, <2>2, Decides
<1> QED BY Zenon, <1>3, <1>4

\* A creator whose request stays where it is with TDLib leaves its fate alone.
LEMMA SameFate ==
  ASSUME NEW r \in Requests, handler'[r].td = handler[r].td, handler'[r].msg = handler[r].msg,
         UNCHANGED messages,
         handler'[r].pc \in {"lookup", "claim", "begin"} <=> handler[r].pc \in {"lookup", "claim", "begin"}
  PROVE  FateVia(r)' = FateVia(r)
<1>1. Carried(r)' <=> Carried(r)
  BY Zenon DEF Carried
<1> QED BY Zenon, <1>1 DEF FateVia

\* What an operation that is settled looks like to backend-api: it sees the
\* verdict, which is true before and after the step.
LEMMA SettledContract ==
  ASSUME IInv, IInv', NEW o \in Ops, NEW verdict \in Settled, NEW e,
         Unsettled(o), sends' = [sends EXCEPT ![o] = e],
         e.state = verdict, e.epoch = sends[o].epoch, e.auth = sends[o].auth,
         journal' = journal \cup {<<o, verdict>>}, UNCHANGED accountVars,
         \A m \in MessageIds : messages'[m].op = messages[m].op /\ messages'[m].fate = messages[m].fate,
         \A p \in Ops : Posted(p)' = Posted(p),
         \A p \in Ops : p # o => FateOf(p)' = FateOf(p)
  PROVE  \A p \in Ops : ContractStep(p)
<1>0. sends \in [Ops -> Operation] /\ epoch' = epoch /\ auth' = auth
  BY Zenon DEF IInv, TypeOK, accountVars
<1>1. sends'[o] = e /\ \A p \in Ops : p # o => sends'[p] = sends[p]
  BY Zenon, <1>0
<1>2. ASSUME NEW p \in Ops, p # o PROVE ContractStep(p)
  <2>1. Lookup(p)' = Lookup(p)
    BY Zenon, <1>0, <1>1, <1>2 DEF Lookup, Present
  <2>2. JournalOf(p)' = JournalOf(p)
    BY Zenon, <1>2 DEF JournalOf
  <2> QED BY Zenon, <1>2, <2>1, <2>2, Stutters
<1>3. ContractStep(o)
  <2>1. Present(o) /\ sends[o].state \notin Settled
    BY Zenon DEF Unsettled
  <2>2. Posted(o) /\ Posted(o)'
    BY Zenon, <2>1, CreatedIsPosted
  <2>3. sends[o].epoch = epoch
    BY Zenon, <2>1 DEF IInv, OperationsAgree
  <2>4. \/ Lookup(o) = "pending" /\ Lookup(o)' = verdict
        \/ Lookup(o) = "not_found" /\ Lookup(o)' = "not_found"
    BY Zenon, <1>0, <1>1, <2>1, <2>3 DEF Lookup, Present, PublicState, Settled
  <2>5. JournalOf(o)' = JournalOf(o) \cup {verdict}
    BY Zenon DEF JournalOf, Settled
  <2>6. Truthful'
    BY Zenon DEF IInv, VerdictsTrue
  <2>7. Verdict(o, verdict)'
    BY Zenon, <1>1 DEF Verdict
  <2>8. CASE verdict = "sent"
    <3>1. \E m \in MessageIds : messages'[m].op = o /\ messages'[m].fate = "delivered"
      BY Zenon, <2>6, <2>7, <2>8 DEF Truthful
    <3>2. FateOf(o)' = "delivered" /\ FateOf(o) = "delivered"
      BY Zenon, <3>1 DEF FateOf
    <3> QED BY SMTT(30), <2>2, <2>4, <2>5, <2>8, <3>2, Settles
  <2>9. CASE verdict = "failed"
    <3>1. \A m \in MessageIds : messages'[m].op = o => messages'[m].fate = "refused"
      BY SMTT(30), <2>6, <2>7, <2>9 DEF Truthful
    <3>2. \A r \in Requests : ReqOp[r] = o => handler'[r].td # "queued"
      BY Zenon, <2>6, <2>7, <2>9 DEF Truthful
    <3>3. \A r \in Requests : ReqOp[r] = o => handler'[r].pc \notin {"lookup", "claim", "begin"}
      BY Zenon, <2>7, <2>9 DEF IInv, VerdictsTrue
    <3>4. ~Live(o)'
      BY Zenon, <3>1, <3>2, <3>3 DEF Live
    <3>5. FateOf(o)' = "dead" /\ FateOf(o) # "delivered"
      BY Zenon, <2>2, <3>1, <3>4 DEF FateOf
    <3> QED BY Zenon, <2>2, <2>4, <2>5, <2>9, <3>5, Settles
  <2> QED BY Zenon, <2>8, <2>9 DEF Settled
<1> QED BY Zenon, <1>2, <1>3

-----------------------------------------------------------------------------
(***************************************************************************)
(* The steps of a handler.                                                 *)
(***************************************************************************)
\* The steps that change nothing but a handler: only TDLib's refusal decides
\* the fate of the operation.
LEMMA HandlerOnlyContract ==
  ASSUME IInv, IInv', NEW r \in Requests,
         AwaitTimeout(r) \/ Complete(r) \/ AwaitOutcome(r) \/ TdRefuse(r)
  PROVE  \A o \in Ops : ContractStep(o)
<1>0. handler \in [Requests -> Handler] /\ handler' \in [Requests -> Handler]
  BY Zenon DEF IInv, TypeOK
<1> DEFINE h == handler'[r]
<1>1. /\ handler' = [handler EXCEPT ![r] = h]
      /\ UNCHANGED <<accountVars, tableVars, messages>>
      /\ h \in Handler
  BY Zenon, <1>0 DEF AwaitTimeout, Complete, AwaitOutcome, TdRefuse
<1>2. CASE AwaitTimeout(r) \/ Complete(r) \/ AwaitOutcome(r)
  <2>0. handler[r] \in Handler
    BY Zenon, <1>0
  <2>1. /\ handler[r].pc \in {"await", "waiting"} /\ h.pc \in {"answered", "done"}
        /\ h.sid = handler[r].sid /\ h.td = handler[r].td /\ h.msg = handler[r].msg
    BY <1>0, <1>2, <2>0 DEF AwaitTimeout, Complete, AwaitOutcome, Handler
  <2>2. FateVia(r)' = FateVia(r)
    BY Zenon, <1>1, <2>1, SameFate
  <2> HIDE DEF h
  <2> QED BY Zenon, <1>1, <2>1, <2>2, HandlerContract
<1>3. CASE TdRefuse(r)
  <2>0. handler[r] \in Handler
    BY Zenon, <1>0
  <2>1. /\ handler[r].td = "queued" /\ h.td = "refused" /\ h.pc = handler[r].pc /\ h.sid = handler[r].sid
    BY SMTT(40), <1>0, <1>3, <2>0 DEF TdRefuse, Handler
  <2>2. handler[r].pc \notin {"idle", "lookup", "claim", "begin"}
    BY <2>1 DEF IInv, HandlersAgree, Idle
  <2>3. FateVia(r) = "live" /\ FateVia(r)' = "dead"
    BY Zenon, <2>1, <2>2 DEF FateVia, Carried
  <2> HIDE DEF h
  <2> QED BY Zenon, <1>1, <2>1, <2>2, <2>3, HandlerContract
<1> QED BY Zenon, <1>2, <1>3

\* A handler that finishes its operation: the contract sees the verdict, or
\* that the message will never be sent.
LEMMA FinishContract ==
  ASSUME IInv, IInv', NEW r \in Requests, NEW retryable \in BOOLEAN,
         handler[r].pc \in {"lookup", "claim", "begin", "answered"}, Goto(r, "waiting"),
         Finish(ReqOp[r], retryable), UNCHANGED <<accountVars, send_messages, messages>>,
         Created(r) => FateVia(r)' = "dead" /\ FateVia(r) # "delivered"
  PROVE  \A o \in Ops : ContractStep(o)
<1> DEFINE o == ReqOp[r]
           h == handler'[r]
<1>0. /\ handler \in [Requests -> Handler] /\ handler' \in [Requests -> Handler]
      /\ sends \in [Ops -> Operation] /\ o \in Ops
  BY RequestAssumption DEF IInv, TypeOK
<1>1. /\ handler' = [handler EXCEPT ![r] = h] /\ h \in Handler
      /\ h.pc = "waiting" /\ h.sid = handler[r].sid /\ handler[r].pc # "idle"
  BY <1>0 DEF Goto, Handler
<1>2. FateVia(r) \in {"live", "delivered", "dead"}
  BY Zenon DEF FateVia
<1>3. CASE ~Present(o) \/ sends[o].state \in Settled
  <2>1. UNCHANGED tableVars
    BY <1>3 DEF Finish, tableVars
  <2> HIDE DEF h
  <2> QED BY Zenon, <1>1, <1>2, <2>1, HandlerContract
<1>4. CASE Unsettled(o)
  <2> DEFINE e == [sends[o] EXCEPT !.state = "failed", !.retryable = retryable]
  <2>1. sends' = [sends EXCEPT ![o] = e] /\ journal' = journal \cup {<<o, "failed">>}
    BY Zenon, <1>4 DEF Finish, Unsettled
  <2>2. sends[o] \in Operation
    BY Zenon, <1>0
  <2>3. e.state = "failed" /\ e.epoch = sends[o].epoch /\ e.auth = sends[o].auth
    BY Zenon, <2>2 DEF Operation
  <2>4. "failed" \in Settled
    BY Zenon DEF Settled
  <2> HIDE DEF h, e
  <2>5. \A p \in Ops : Posted(p)' = Posted(p)
    BY Zenon, <1>1, HandlerFates
  <2>6. \A p \in Ops : p # o => FateOf(p)' = FateOf(p)
    BY ZenonT(30), <1>1, HandlerFates
  <2> QED BY Zenon, <1>0, <1>4, <2>1, <2>3, <2>4, <2>5, <2>6, SettledContract
<1> QED BY Zenon, <1>3, <1>4 DEF Unsettled

\* LookupReply goes on, or fails the operation before anything is sent.
LEMMA LookupReplyContract ==
  ASSUME IInv, IInv', NEW r \in Requests, LookupReply(r)
  PROVE  \A o \in Ops : ContractStep(o)
<1>0. /\ handler \in [Requests -> Handler] /\ handler' \in [Requests -> Handler]
      /\ handler[r].pc = "lookup" /\ handler[r].td = "none" /\ UNCHANGED <<accountVars, messages>>
  BY Zenon DEF IInv, TypeOK, LookupReply, HandlersAgree
<1> DEFINE h == handler'[r]
<1>1. CASE Goto(r, "claim") /\ UNCHANGED tableVars
  <2>1. /\ handler' = [handler EXCEPT ![r] = h] /\ h \in Handler
        /\ h.pc = "claim" /\ h.sid = handler[r].sid /\ h.td = handler[r].td /\ h.msg = handler[r].msg
    BY <1>0, <1>1 DEF Goto, Handler
  <2>2. FateVia(r)' = FateVia(r)
    BY Zenon, <1>0, <2>1, SameFate
  <2> HIDE DEF h
  <2> QED BY Zenon, <1>0, <1>1, <2>1, <2>2, HandlerContract
<1>2. CASE \E retryable \in BOOLEAN : Finish(ReqOp[r], retryable) /\ Goto(r, "waiting") /\ UNCHANGED send_messages
  <2>1. h.pc = "waiting" /\ h.td = "none"
    BY SMTT(40), <1>0, <1>2 DEF Goto, Handler
  <2>2. FateVia(r)' = "dead" /\ FateVia(r) # "delivered"
    BY Zenon, <1>0, <2>1 DEF FateVia, Carried
  <2> QED BY Zenon, <1>0, <1>2, <2>2, FinishContract
<1> QED BY <1>1, <1>2 DEF LookupReply

\* Begin hands the message to TDLib, is answered that the broker is full, or
\* throws: then nothing was sent.
LEMMA BeginContract ==
  ASSUME IInv, IInv', NEW r \in Requests, Begin(r)
  PROVE  \A o \in Ops : ContractStep(o)
<1>0. /\ handler \in [Requests -> Handler] /\ handler' \in [Requests -> Handler]
      /\ handler[r].pc = "begin" /\ handler[r].td = "none" /\ UNCHANGED <<accountVars, messages>>
  BY Zenon DEF IInv, TypeOK, Begin, HandlersAgree
<1> DEFINE h == handler'[r]
<1>1. FateVia(r) = "live"
  BY <1>0 DEF FateVia, Carried
<1>2. CASE /\ handler' = [handler EXCEPT ![r].pc = "await", ![r].td = "queued"]
           /\ UNCHANGED tableVars
  <2>1. /\ handler' = [handler EXCEPT ![r] = h] /\ h \in Handler
        /\ h.pc = "await" /\ h.sid = handler[r].sid /\ h.td = "queued"
    BY <1>0, <1>2 DEF Handler
  <2>2. FateVia(r)' = "live"
    BY Zenon, <2>1 DEF FateVia, Carried
  <2> HIDE DEF h
  <2> QED BY Zenon, <1>0, <1>1, <1>2, <2>1, <2>2, HandlerContract
<1>3. CASE /\ handler' = [handler EXCEPT ![r].pc = "answered", ![r].answer = "busy"]
           /\ UNCHANGED tableVars
  <2>1. /\ handler' = [handler EXCEPT ![r] = h] /\ h \in Handler
        /\ h.pc = "answered" /\ h.sid = handler[r].sid /\ h.td = "none"
    <3>1. h = [handler[r] EXCEPT !.pc = "answered", !.answer = "busy"] /\ handler[r] \in Handler
      BY Zenon, <1>0, <1>3
    <3> QED BY ZenonT(30), <1>0, <1>3, <3>1 DEF Handler
  <2>2. FateVia(r)' = "dead"
    BY Zenon, <2>1 DEF FateVia, Carried
  <2> HIDE DEF h
  <2> QED BY Zenon, <1>0, <1>1, <1>3, <2>1, <2>2, HandlerContract
<1>4. CASE Finish(ReqOp[r], TRUE) /\ Goto(r, "waiting") /\ UNCHANGED send_messages
  <2>1. h.pc = "waiting" /\ h.td = "none"
    BY <1>0, <1>4 DEF Goto, Handler
  <2>2. FateVia(r)' = "dead" /\ FateVia(r) # "delivered"
    BY Zenon, <1>1, <2>1 DEF FateVia, Carried
  <2> QED BY Zenon, <1>0, <1>4, <2>2, FinishContract
<1> QED BY Zenon, <1>2, <1>3, <1>4 DEF Begin

\* Moving an operation on among its unsettled states, and binding its message,
\* changes no lookup; the journal may say that it is pending.
LEMMA MovedContract ==
  ASSUME IInv, NEW o \in Ops, \A p \in Ops : p # o => sends'[p] = sends[p], UNCHANGED accountVars,
         Present(o), Present(o)', PublicState(sends'[o].state) = PublicState(sends[o].state),
         sends'[o].epoch = sends[o].epoch, sends'[o].auth = sends[o].auth,
         \/ UNCHANGED journal
         \/ journal' = journal \cup {<<o, "pending">>} /\ Unsettled(o),
         \A p \in Ops : Posted(p)' = Posted(p),
         \A p \in Ops : FateOf(p)' = FateOf(p)
  PROVE  \A p \in Ops : ContractStep(p)
<1> SUFFICES ASSUME NEW p \in Ops PROVE ContractStep(p)
  BY Zenon
<1>1. epoch' = epoch /\ auth' = auth
  BY Zenon DEF accountVars
<1>2. Lookup(p)' = Lookup(p)
  BY Zenon, <1>1 DEF Lookup, Present
<1>3. CASE UNCHANGED journal \/ p # o
  <2>1. JournalOf(p)' = JournalOf(p)
    BY Zenon, <1>3 DEF JournalOf
  <2> QED BY Zenon, <1>2, <2>1, Stutters
<1>4. CASE p = o /\ journal' = journal \cup {<<o, "pending">>} /\ Unsettled(o)
  <2>1. JournalOf(p)' = JournalOf(p) \cup {"pending"}
    BY Zenon, <1>4 DEF JournalOf
  <2>2. Lookup(p) \in {"pending", "not_found"}
    BY Zenon, <1>4 DEF Lookup, PublicState, Unsettled
  <2>3. Posted(p) /\ Posted(p)'
    BY <1>4, CreatedIsPosted
  <2> QED BY Zenon, <1>2, <2>1, <2>2, <2>3, Progresses
<1> QED BY Zenon, <1>3, <1>4

\* Claim dispatches a preparing operation, or gives up one that is gone or
\* settled: then its message will never be sent.
LEMMA ClaimContract ==
  ASSUME IInv, IInv', NEW r \in Requests, Claim(r)
  PROVE  \A o \in Ops : ContractStep(o)
<1> DEFINE o == ReqOp[r]
           h == handler'[r]
<1>0. /\ handler \in [Requests -> Handler] /\ handler' \in [Requests -> Handler]
      /\ handler[r].pc = "claim" /\ handler[r].td = "none" /\ UNCHANGED <<accountVars, journal, messages>>
      /\ sends \in [Ops -> Operation] /\ o \in Ops
  BY SMTT(30), RequestAssumption DEF IInv, TypeOK, Claim, HandlersAgree
<1>1. CASE sends[o].state = "preparing"
  <2> DEFINE e == [sends[o] EXCEPT !.state = "dispatching"]
  <2>1. /\ handler' = [handler EXCEPT ![r] = h] /\ h \in Handler
        /\ h.pc = "begin" /\ h.sid = handler[r].sid /\ h.td = handler[r].td /\ h.msg = handler[r].msg
    BY <1>0, <1>1 DEF Claim, Goto, Handler
  <2>2. FateVia(r)' = FateVia(r)
    BY Zenon, <1>0, <2>1, SameFate
  <2>3. sends' = [sends EXCEPT ![o] = e]
    BY Zenon, <1>1 DEF Claim
  <2>4. sends[o] \in Operation
    BY Zenon, <1>0
  <2>5. e.state = "dispatching" /\ e.epoch = sends[o].epoch /\ e.auth = sends[o].auth
    BY Zenon, <2>4 DEF Operation
  <2>6. sends'[o] = e /\ \A p \in Ops : p # o => sends'[p] = sends[p]
    BY Zenon, <1>0, <2>3
  <2>8. PublicState(sends'[o].state) = PublicState(sends[o].state) /\ Present(o) /\ Present(o)'
    BY SMTT(30), <1>1, <2>5, <2>6 DEF PublicState, Settled, Present
  <2> HIDE DEF h, e
  <2>7. \A p \in Ops : Posted(p)' = Posted(p) /\ FateOf(p)' = FateOf(p)
    BY Zenon, <1>0, <2>1, <2>2, HandlerFates
  <2> QED BY Zenon, <1>0, <2>5, <2>6, <2>7, <2>8, MovedContract
<1>2. CASE sends[o].state # "preparing"
  <2>1. /\ handler' = [handler EXCEPT ![r] = h] /\ h \in Handler /\ UNCHANGED tableVars
        /\ h.pc = "waiting" /\ h.sid = handler[r].sid /\ h.td = "none"
    BY <1>0, <1>2 DEF Claim, Goto, Handler, tableVars
  <2>2. FateVia(r) = "live" /\ FateVia(r)' = "dead"
    BY Zenon, <1>0, <2>1 DEF FateVia, Carried
  <2> HIDE DEF h
  <2> QED BY ZenonT(30), <1>0, <2>1, <2>2, HandlerContract
<1> QED BY Zenon, <1>1, <1>2

\* ApplyAnswer: the answer of TDLib settles the operation, or its message is
\* bound to it.
LEMMA ApplyAnswerContract ==
  ASSUME IInv, IInv', NEW r \in Requests, ApplyAnswer(r)
  PROVE  \A o \in Ops : ContractStep(o)
<1> DEFINE o == ReqOp[r]
           h == handler'[r]
<1>0. /\ handler \in [Requests -> Handler] /\ handler' \in [Requests -> Handler] /\ TypeOK
      /\ handler[r].pc = "answered" /\ UNCHANGED <<accountVars, messages>> /\ Goto(r, "waiting")
      /\ sends \in [Ops -> Operation] /\ o \in Ops
  BY Zenon, RequestAssumption DEF IInv, TypeOK, ApplyAnswer
<1>1. /\ handler' = [handler EXCEPT ![r] = h] /\ h \in Handler
      /\ h.pc = "waiting" /\ h.sid = handler[r].sid /\ h.td = handler[r].td /\ h.msg = handler[r].msg
  BY <1>0 DEF Goto, Handler
<1>2. FateVia(r)' = FateVia(r)
  BY Zenon, <1>0, <1>1, SameFate
<1> HIDE DEF h
<1>3. \A p \in Ops : Posted(p)' = Posted(p) /\ FateOf(p)' = FateOf(p)
  BY Zenon, <1>0, <1>1, <1>2, HandlerFates
<1>4. CASE UNCHANGED tableVars
  BY ZenonT(30), <1>0, <1>1, <1>2, <1>4, HandlerContract
<1>5. CASE /\ Present(o)
           /\ handler[r].answer = "pending"
           /\ Bind(o, handler[r].msg, {"dispatching"})
  <2>1. handler[r].msg \in MessageIds
    BY ZenonT(30), <1>5 DEF IInv, HandlersAgree
  <2>2. /\ \A p \in Ops \ {o} : sends'[p] = sends[p]
        /\ sends'[o].state = IF sends[o].state \in {"dispatching"} THEN "pending" ELSE sends[o].state
        /\ sends'[o].epoch = sends[o].epoch /\ sends'[o].auth = sends[o].auth
        /\ journal' = IF sends[o].state \in {"dispatching"} THEN journal \cup {<<o, "pending">>} ELSE journal
    BY SMTT(30), <1>0, <1>5, <2>1, BindFacts
  <2>3. PublicState(sends'[o].state) = PublicState(sends[o].state) /\ Present(o)'
    BY Zenon, <1>5, <2>2 DEF PublicState, Settled, Present
  <2>4. \/ journal' = journal
        \/ journal' = journal \cup {<<o, "pending">>} /\ Unsettled(o)
    BY Zenon, <1>5, <2>2 DEF Unsettled, Settled
  <2> QED BY Zenon, <1>0, <1>3, <1>5, <2>2, <2>3, <2>4, MovedContract
<1>6. CASE /\ Present(o)
           /\ handler[r].answer = "final"
           /\ IF sends[o].state = "dispatching"
              THEN MarkSent(o)
              ELSE UNCHANGED <<sends, sending_ids, old, journal>>
           /\ UNCHANGED send_messages
  <2>1. CASE sends[o].state = "dispatching"
    <3>1. Unsettled(o) /\ MarkSent(o) /\ "sent" \in Settled
      BY Zenon, <1>6, <2>1 DEF Unsettled, Settled
    <3>2. PICK e \in Operation :
             /\ sends' = [sends EXCEPT ![o] = e]
             /\ e.state = "sent" /\ e.epoch = sends[o].epoch /\ e.auth = sends[o].auth
             /\ journal' = journal \cup {<<o, "sent">>}
      BY SMTT(30), <1>0, <3>1, MarkSentFacts
    <3> QED BY ZenonT(30), <1>0, <1>3, <3>1, <3>2, SettledContract
  <2>2. CASE sends[o].state # "dispatching"
    BY Zenon, <1>4, <1>6, <2>2 DEF tableVars
  <2> QED BY Zenon, <2>1, <2>2
<1>7. CASE /\ Present(o)
           /\ handler[r].answer \in {"error", "busy"}
           /\ \E retryable \in (IF handler[r].answer = "busy" THEN {TRUE} ELSE BOOLEAN) :
                Finish(o, retryable)
           /\ UNCHANGED send_messages
  <2>1. handler[r].td \in {"none", "refused"}
    BY ZenonT(30), <1>7 DEF IInv, HandlersAgree
  <2>2. FateVia(r) = "dead"
    BY Zenon, <1>0, <2>1 DEF FateVia, Carried
  <2>3. PICK retryable \in BOOLEAN : Finish(o, retryable)
    BY ZenonT(30), <1>7
  <2> QED BY SMTT(30), <1>0, <1>2, <1>7, <2>2, <2>3, FinishContract
<1> QED BY Zenon, <1>4, <1>5, <1>6, <1>7 DEF ApplyAnswer

-----------------------------------------------------------------------------
(***************************************************************************)
(* TDLib and the receive thread.                                           *)
(***************************************************************************)
\* Whether an operation was posted does not change unless a handler starts.
LEMMA PostedKept ==
  ASSUME \A q \in Requests : handler'[q].pc = "idle" <=> handler[q].pc = "idle", NEW o \in Ops
  PROVE  Posted(o)' = Posted(o)
<1>1. Posted(o)' <=> Posted(o)
  BY Zenon DEF Posted
<1>2. Posted(o)' \in BOOLEAN /\ Posted(o) \in BOOLEAN
  BY Zenon DEF Posted
<1> QED BY <1>1, <1>2

\* A step that touches neither the table nor the journal is for every operation
\* at most a decision about its fate.
LEMMA FatesContract ==
  ASSUME IInv, IInv', UNCHANGED <<sends, journal>>,
         \A o \in Ops : Lookup(o)' = Lookup(o),
         \A q \in Requests : handler'[q].sid = handler[q].sid,
         \A q \in Requests : handler'[q].pc = "idle" <=> handler[q].pc = "idle",
         \A q \in Requests : Created(q) =>
           \/ FateVia(q)' = FateVia(q)
           \/ FateVia(q) = "live" /\ FateVia(q)' \in {"delivered", "dead"}
  PROVE  \A o \in Ops : ContractStep(o)
<1> SUFFICES ASSUME NEW o \in Ops PROVE ContractStep(o)
  BY Zenon
<1>1. JournalOf(o)' = JournalOf(o)
  BY Zenon DEF JournalOf
<1>2. Posted(o)' = Posted(o)
  BY Zenon, PostedKept
<1>3. CASE \A q \in Requests : ReqOp[q] = o /\ Created(q) => FateVia(q)' = FateVia(q)
  <2>1. FateOf(o)' = FateOf(o)
    BY Zenon, <1>2, <1>3, FateKept
  <2> QED BY Zenon, <1>1, <1>2, <2>1, Stutters
<1>4. ASSUME NEW q \in Requests, ReqOp[q] = o, Created(q), FateVia(q)' # FateVia(q)
      PROVE  ContractStep(o)
  <2>1. Created(q)'
    BY Zenon, <1>4 DEF Created
  <2>2. FateVia(q) = "live" /\ FateVia(q)' \in {"delivered", "dead"}
    BY Zenon, <1>4
  <2>3. /\ Posted(o) /\ Posted(o)'
        /\ FateOf(o) = "live" /\ FateOf(o)' \in {"delivered", "dead"}
    BY Zenon, <1>4, <2>1, <2>2, Fates, FatesNext
  <2> QED BY Zenon, <1>1, <2>3, Decides
<1> QED BY Zenon, <1>3, <1>4

\* TdAccept: a message that is final at once decides the fate of its operation.
LEMMA TdAcceptContract ==
  ASSUME IInv, IInv', NEW r \in Requests, TdAccept(r)
  PROVE  \A o \in Ops : ContractStep(o)
<1>0. /\ handler[r].td = "queued" /\ UNCHANGED <<accountVars, tableVars>>
      /\ handler \in [Requests -> Handler] /\ messages \in [MessageIds -> Message]
  BY Zenon DEF TdAccept, IInv, TypeOK
<1>1. PICK m \in MessageIds, final \in BOOLEAN :
        /\ messages[m].fate = "none"
        /\ messages' = [messages EXCEPT ![m] =
                          [op |-> ReqOp[r], sid |-> handler[r].sid, client |-> client,
                           fate |-> IF final THEN "delivered" ELSE "open",
                           seen |-> IF final THEN "reported" ELSE "new"]]
        /\ handler' = [handler EXCEPT ![r].td = IF final THEN "immediate" ELSE "accepted", ![r].msg = m]
  BY Zenon DEF TdAccept
<1>2. /\ messages'[m].fate = IF final THEN "delivered" ELSE "open"
      /\ \A n \in MessageIds : n # m => messages'[n] = messages[n]
  BY Zenon, <1>0, <1>1
<1> DEFINE h == [handler[r] EXCEPT !.td = IF final THEN "immediate" ELSE "accepted", !.msg = m]
<1>3. handler' = [handler EXCEPT ![r] = h] /\ handler[r] \in Handler
  BY Zenon, <1>0, <1>1
<1>4. /\ h.td = (IF final THEN "immediate" ELSE "accepted") /\ h.msg = m
      /\ h.pc = handler[r].pc /\ h.sid = handler[r].sid
  BY Zenon, <1>3 DEF Handler
<1> HIDE DEF h
<1>5. handler'[r] = h /\ \A q \in Requests : q # r => handler'[q] = handler[q]
  BY Zenon, <1>0, <1>3
<1>6. FateVia(r) = "live" /\ FateVia(r)' \in {"live", "delivered"}
  BY Zenon, <1>0, <1>2, <1>4, <1>5 DEF FateVia, Carried
<1>7. ASSUME NEW q \in Requests, q # r PROVE FateVia(q)' = FateVia(q)
  <2>1. Carried(q) => handler[q].msg \in MessageIds /\ messages[handler[q].msg].op = ReqOp[q]
    BY Zenon DEF Carried, IInv, HandlersAgree
  <2>2. messages[m].op = None
    BY <1>1 DEF IInv, OneCreator
  <2>3. Carried(q) => messages'[handler[q].msg] = messages[handler[q].msg]
    BY Zenon, <1>2, <2>1, <2>2, RequestAssumption, NoneAssumption
  <2>4. handler'[q] = handler[q]
    BY Zenon, <1>5, <1>7
  <2> QED BY Zenon, <2>3, <2>4 DEF FateVia, Carried
<1>8. \A o \in Ops : Lookup(o)' = Lookup(o)
  BY Zenon, <1>0 DEF Lookup, Present, accountVars, tableVars
<1>9. UNCHANGED <<sends, journal>>
  BY Zenon, <1>0 DEF tableVars
<1>10. \A q \in Requests : handler'[q].sid = handler[q].sid /\ (handler'[q].pc = "idle" <=> handler[q].pc = "idle")
  BY Zenon, <1>4, <1>5
<1>11. \A q \in Requests : \/ FateVia(q)' = FateVia(q)
                           \/ FateVia(q) = "live" /\ FateVia(q)' \in {"delivered", "dead"}
  BY Zenon, <1>6, <1>7
<1> QED BY Zenon, <1>8, <1>9, <1>10, <1>11, FatesContract

\* TdDecide decides the fate of the operation the message was sent for.
LEMMA TdDecideContract ==
  ASSUME IInv, IInv', NEW m \in MessageIds, TdDecide(m)
  PROVE  \A o \in Ops : ContractStep(o)
<1>0. /\ messages[m].fate = "open" /\ UNCHANGED <<accountVars, tableVars, handler>>
      /\ messages \in [MessageIds -> Message]
  BY Zenon DEF TdDecide, IInv, TypeOK
<1>1. PICK fate \in {"delivered", "refused"} : messages' = [messages EXCEPT ![m].fate = fate]
  BY ZenonT(30) DEF TdDecide
<1>2. messages'[m].fate = fate /\ \A n \in MessageIds : n # m => messages'[n] = messages[n]
  BY Zenon, <1>0, <1>1 DEF Message
<1>3. ASSUME NEW q \in Requests
      PROVE  \/ FateVia(q)' = FateVia(q)
             \/ FateVia(q) = "live" /\ FateVia(q)' \in {"delivered", "dead"}
  <2>1. handler' = handler /\ (Carried(q)' <=> Carried(q))
    BY Zenon, <1>0 DEF Carried
  <2>2. CASE ~Carried(q)
    BY ZenonT(30), <2>1, <2>2 DEF FateVia
  <2>3. CASE Carried(q) /\ handler[q].msg # m
    <3>1. handler[q].msg \in MessageIds
      BY Zenon, <2>3 DEF Carried, IInv, HandlersAgree
    <3>2. messages'[handler[q].msg] = messages[handler[q].msg]
      BY Zenon, <1>2, <2>3, <3>1
    <3> QED BY Zenon, <2>1, <3>2 DEF FateVia
  <2>4. CASE Carried(q) /\ handler[q].msg = m
    <3>1. handler[q].td # "queued" /\ handler[q].pc \notin {"lookup", "claim", "begin"}
      BY ZenonT(30), <2>4 DEF Carried, IInv, HandlersAgree
    <3> QED BY SMTT(30), <1>0, <1>2, <2>1, <2>4, <3>1 DEF FateVia
  <2> QED BY Zenon, <2>2, <2>3, <2>4
<1>4. \A o \in Ops : Lookup(o)' = Lookup(o)
  BY Zenon, <1>0 DEF Lookup, Present, accountVars, tableVars
<1>5. UNCHANGED <<sends, journal, handler>>
  BY Zenon, <1>0 DEF tableVars
<1> QED BY Zenon, <1>3, <1>4, <1>5, FatesContract

\* A step that leaves the handlers alone, and of the messages at most what was
\* seen of them, decides nothing.
LEMMA SeenFates ==
  ASSUME IInv, IInv', UNCHANGED handler,
         \A n \in MessageIds : messages'[n].fate = messages[n].fate
  PROVE  /\ \A o \in Ops : Posted(o)' = Posted(o) /\ FateOf(o)' = FateOf(o)
         /\ \A q \in Requests : FateVia(q)' = FateVia(q)
<1>1. \A o \in Ops : Posted(o)' = Posted(o)
  BY Zenon, PostedKept
<1>2. ASSUME NEW q \in Requests PROVE FateVia(q)' = FateVia(q)
  <2>1. Carried(q)' <=> Carried(q)
    BY Zenon DEF Carried
  <2>2. Carried(q) => messages'[handler[q].msg].fate = messages[handler[q].msg].fate
    BY ZenonT(30) DEF Carried, IInv, HandlersAgree
  <2> QED BY Zenon, <2>1, <2>2 DEF FateVia
<1>3. \A o \in Ops : FateOf(o)' = FateOf(o)
  BY Zenon, <1>1, <1>2, FateKept
<1> QED BY ZenonT(30), <1>1, <1>2, <1>3

\* Announce: the message is bound to the operation that holds its sending id.
LEMMA AnnounceContract ==
  ASSUME IInv, IInv', NEW m \in MessageIds, Announce(m)
  PROVE  \A o \in Ops : ContractStep(o)
<1>o. PICK o : o = sending_ids[messages[m].sid]
  BY Zenon
<1>0. /\ TypeOK /\ messages[m].seen = "new" /\ UNCHANGED <<accountVars, handler>>
      /\ messages' = [messages EXCEPT ![m].seen = "announced"]
  BY Zenon DEF Announce, IInv
<1>1. \A n \in MessageIds : messages'[n].fate = messages[n].fate
  BY Zenon, <1>0, SeenFacts
<1>2. \A p \in Ops : Posted(p)' = Posted(p) /\ FateOf(p)' = FateOf(p)
  BY Zenon, <1>0, <1>1, SeenFates
<1>3. CASE ~known \/ o = None
  <2>1. UNCHANGED <<sends, journal>> /\ epoch' = epoch /\ auth' = auth
    BY Zenon, <1>o, <1>0, <1>3 DEF Announce, accountVars
  <2>2. \A p \in Ops : Lookup(p)' = Lookup(p) /\ JournalOf(p)' = JournalOf(p)
    BY Zenon, <2>1 DEF Lookup, Present, JournalOf
  <2> QED BY Zenon, <1>2, <2>2, Stutters
<1>4. CASE ~(~known \/ o = None)
  <2>1. messages[m].op # None
    BY Zenon, <1>0 DEF IInv, OneCreator
  <2>2. messages[m].sid \in SendingIds
    BY SMTT(30), <2>1, NewMessage
  <2>3. o \in Ops /\ Unsettled(o) /\ Present(o)
    BY SMTT(30), <1>o, <1>4, <2>2 DEF IInv, TypeOK, TablesAgree, Unsettled
  <2>4. Bind(o, m, {"dispatching", "preparing"})
    BY Zenon, <1>o, <1>4 DEF Announce
  <2>5. /\ \A p \in Ops \ {o} : sends'[p] = sends[p]
        /\ sends'[o].state = IF sends[o].state \in {"dispatching", "preparing"} THEN "pending" ELSE sends[o].state
        /\ sends'[o].epoch = sends[o].epoch /\ sends'[o].auth = sends[o].auth
        /\ journal' = IF sends[o].state \in {"dispatching", "preparing"}
                      THEN journal \cup {<<o, "pending">>} ELSE journal
    BY Zenon, <1>0, <2>3, <2>4, BindFacts
  <2>6. PublicState(sends'[o].state) = PublicState(sends[o].state) /\ Present(o)'
    BY Zenon, <2>3, <2>5 DEF PublicState, Settled, Present
  <2>7. \/ journal' = journal
        \/ journal' = journal \cup {<<o, "pending">>} /\ Unsettled(o)
    BY Zenon, <2>3, <2>5
  <2> QED BY Zenon, <1>0, <1>2, <2>3, <2>5, <2>6, <2>7, MovedContract
<1> QED BY Zenon, <1>3, <1>4

\* Report settles the operation the message is bound to, or says nothing.
LEMMA ReportContract ==
  ASSUME IInv, IInv', NEW m \in MessageIds, Report(m)
  PROVE  \A o \in Ops : ContractStep(o)
<1> DEFINE o == send_messages[m]
<1>0. /\ TypeOK /\ UNCHANGED <<accountVars, handler>> /\ epoch' = epoch /\ auth' = auth
      /\ \A n \in MessageIds : messages'[n].op = messages[n].op /\ messages'[n].fate = messages[n].fate
  BY SMTT(30), ReportFacts DEF IInv, accountVars
<1>1. \A p \in Ops : Posted(p)' = Posted(p) /\ FateOf(p)' = FateOf(p)
  BY SMTT(30), <1>0, SeenFates
<1>2. CASE UNCHANGED <<sends, journal>>
  <2>1. \A p \in Ops : Lookup(p)' = Lookup(p) /\ JournalOf(p)' = JournalOf(p)
    BY Zenon, <1>0, <1>2 DEF Lookup, Present, JournalOf
  <2> QED BY Zenon, <1>1, <2>1, Stutters
<1>3. CASE o # None /\ Unsettled(o) /\ MarkSent(o)
  <2>1. o \in Ops /\ "sent" \in Settled
    BY ZenonT(30), <1>0, <1>3 DEF TypeOK, Settled
  <2> HIDE DEF o
  <2>2. PICK e \in Operation :
           /\ sends' = [sends EXCEPT ![o] = e]
           /\ e.state = "sent" /\ e.epoch = sends[o].epoch /\ e.auth = sends[o].auth
           /\ journal' = journal \cup {<<o, "sent">>}
    BY Zenon, <1>0, <1>3, <2>1, MarkSentFacts
  <2> QED BY ZenonT(30), <1>0, <1>1, <1>3, <2>1, <2>2, SettledContract
<1>4. CASE o # None /\ \E retryable \in BOOLEAN : Finish(o, retryable)
  <2>1. o \in Ops /\ "failed" \in Settled
    BY ZenonT(30), <1>0, <1>4 DEF TypeOK, Settled
  <2> HIDE DEF o
  <2>2. CASE Unsettled(o)
    <3>1. PICK retryable \in BOOLEAN : Finish(o, retryable)
      BY Zenon, <1>4
    <3>2. PICK e \in Operation :
             /\ sends' = [sends EXCEPT ![o] = e]
             /\ e.state = "failed" /\ e.epoch = sends[o].epoch /\ e.auth = sends[o].auth
             /\ journal' = journal \cup {<<o, "failed">>}
      BY Zenon, <1>0, <2>1, <2>2, <3>1, FinishFacts
    <3> QED BY ZenonT(30), <1>0, <1>1, <2>1, <2>2, <3>2, SettledContract
  <2>3. CASE ~Unsettled(o)
    <3>1. UNCHANGED <<sends, journal>>
      BY Zenon, <1>4, <2>3 DEF Finish, Unsettled
    <3> QED BY Zenon, <1>2, <3>1
  <2> QED BY Zenon, <2>2, <2>3
<1> QED BY Zenon, <1>2, <1>3, <1>4 DEF Report, Unsettled

-----------------------------------------------------------------------------
(***************************************************************************)
(* The session.                                                            *)
(***************************************************************************)
\* The journal says nothing of an operation that was never posted.
LEMMA UnpostedUnseen ==
  ASSUME IInv, NEW o \in Ops, ~Posted(o)
  PROVE  JournalOf(o) = {} /\ Lookup(o) = "not_found"
<1>1. \A state : <<o, state>> \notin journal
  BY Zenon DEF IInv, VerdictsTrue
<1>2. ~Present(o)
  BY Zenon, CreatedIsPosted
<1> QED BY Zenon, <1>1, <1>2 DEF JournalOf, Lookup

\* A step after which no lookup finds anything: the posted operations are
\* forgotten.
LEMMA ForgetsAll ==
  ASSUME IInv, IInv', \A o \in Ops : Lookup(o)' = "not_found", journal' \in {journal, {}},
         \A q \in Requests : handler'[q].pc = "idle" <=> handler[q].pc = "idle",
         \A o \in Ops : Posted(o) => \/ FateOf(o)' = FateOf(o)
                                     \/ FateOf(o) = "live" /\ FateOf(o)' = "dead"
  PROVE  \A o \in Ops : ContractStep(o)
<1> SUFFICES ASSUME NEW o \in Ops PROVE ContractStep(o)
  BY Zenon
<1>1. Posted(o)' = Posted(o)
  BY Zenon, PostedKept
<1>2. JournalOf(o)' \in {JournalOf(o), {}}
  BY Zenon DEF JournalOf
<1>3. CASE Posted(o)
  BY ZenonT(30), <1>1, <1>2, <1>3, Forgets
<1>4. CASE ~Posted(o)
  <2>1. JournalOf(o) = {} /\ Lookup(o) = "not_found"
    BY Zenon, <1>4, UnpostedUnseen
  <2>2. FateOf(o) = "live" /\ FateOf(o)' = "live"
    BY SMTT(30), <1>1, <1>4, Fates, FatesNext
  <2> QED BY Zenon, <1>1, <1>2, <2>1, <2>2, Stutters
<1> QED BY Zenon, <1>3, <1>4

\* The end of a session, with TDLib or without it, forgets every operation.
LEMMA EndContract ==
  ASSUME IInv, IInv', Fence \/ LeaveReady
  PROVE  \A o \in Ops : ContractStep(o)
<1>1. ResetTables /\ UNCHANGED <<handler, messages>> /\ TypeOK
  BY Zenon DEF Fence, LeaveReady, IInv
<1>2. journal' = {} /\ \A o \in Ops : ~Present(o)'
  BY Zenon, <1>1, ResetFacts
<1>3. \A o \in Ops : Lookup(o)' = "not_found"
  BY Zenon, <1>2 DEF Lookup
<1>4. \A o \in Ops : FateOf(o)' = FateOf(o)
  BY Zenon, <1>1, SeenFates
<1> QED BY Zenon, <1>1, <1>2, <1>3, <1>4, ForgetsAll

\* A crash forgets every operation, and ends those still on their way to TDLib.
LEMMA CrashContract ==
  ASSUME IInv, IInv', Crash
  PROVE  \A o \in Ops : ContractStep(o)
<1>1. ResetTables /\ UNCHANGED messages /\ TypeOK /\ handler \in [Requests -> Handler]
  BY Zenon DEF Crash, IInv, TypeOK
<1>2. journal' = {} /\ \A o \in Ops : ~Present(o)'
  BY Zenon, <1>1, ResetFacts
<1>3. \A o \in Ops : Lookup(o)' = "not_found"
  BY Zenon, <1>2 DEF Lookup
<1>4. ASSUME NEW q \in Requests
      PROVE  /\ handler'[q].sid = handler[q].sid
             /\ handler'[q].pc = "idle" <=> handler[q].pc = "idle"
             /\ FateVia(q)' = FateVia(q) \/ (FateVia(q) = "live" /\ FateVia(q)' = "dead")
  <2>0. handler[q] \in Handler
    BY Zenon, <1>1
  <2>1. CASE handler[q].pc \in {"idle", "done"}
    <3>1. handler'[q] = handler[q]
      BY Zenon, <2>1 DEF Crash
    <3>2. FateVia(q)' = FateVia(q)
      BY Zenon, <1>1, <3>1, SameFate
    <3> QED BY Zenon, <3>1, <3>2
  <2>2. CASE handler[q].pc \notin {"idle", "done"}
    <3> DEFINE h == [handler[q] EXCEPT !.pc = "done", !.reply = "lost",
                       !.td = IF @ = "queued" THEN "refused" ELSE @]
    <3>1. handler'[q] = h
      BY Zenon, <2>2 DEF Crash
    <3>2. /\ h.pc = "done" /\ h.sid = handler[q].sid /\ h.msg = handler[q].msg
          /\ h.td = IF handler[q].td = "queued" THEN "refused" ELSE handler[q].td
      BY Zenon, <2>0 DEF Handler
    <3> HIDE DEF h
    <3>3. CASE handler[q].td = "queued"
      <4>1. FateVia(q) = "live" /\ FateVia(q)' = "dead"
        BY Zenon, <1>1, <3>1, <3>2, <3>3 DEF FateVia, Carried
      <4> QED BY Zenon, <2>2, <3>1, <3>2, <4>1
    <3>4. CASE handler[q].td # "queued" /\ handler[q].pc \in {"lookup", "claim", "begin"}
      <4>1. handler[q].td = "none"
        BY ZenonT(30), <3>4 DEF IInv, HandlersAgree
      <4>2. FateVia(q) = "live" /\ FateVia(q)' = "dead"
        BY Zenon, <1>1, <3>1, <3>2, <3>4, <4>1 DEF FateVia, Carried
      <4> QED BY Zenon, <2>2, <3>1, <3>2, <4>2
    <3>5. CASE handler[q].td # "queued" /\ handler[q].pc \notin {"lookup", "claim", "begin"}
      <4>1. FateVia(q)' = FateVia(q)
        BY Zenon, <1>1, <3>1, <3>2, <3>5, SameFate
      <4> QED BY Zenon, <2>2, <3>1, <3>2, <4>1
    <3> QED BY Zenon, <3>3, <3>4, <3>5
  <2> QED BY Zenon, <2>1, <2>2
<1>5. ASSUME NEW o \in Ops, Posted(o)
      PROVE  FateOf(o)' = FateOf(o) \/ (FateOf(o) = "live" /\ FateOf(o)' = "dead")
  <2>1. CASE \E q \in Requests : ReqOp[q] = o /\ Created(q)
    <3>1. PICK q \in Requests : ReqOp[q] = o /\ Created(q)
      BY Zenon, <2>1
    <3>2. Created(q)'
      BY Zenon, <1>4, <3>1 DEF Created
    <3> QED BY SMTT(40), <1>4, <3>1, <3>2, Fates, FatesNext
  <2>2. CASE \A q \in Requests : ReqOp[q] = o => ~Created(q)
    <3>1. \A q \in Requests : ReqOp[q] = o => ~Created(q)'
      BY Zenon, <1>4, <2>2 DEF Created
    <3>2. Posted(o)'
      BY Zenon, <1>4, <1>5, PostedKept
    <3> QED BY Zenon, <1>5, <2>2, <3>1, <3>2, Fates, FatesNext
  <2> QED BY Zenon, <2>1, <2>2
<1> QED BY Zenon, <1>2, <1>3, <1>4, <1>5, ForgetsAll

\* A new authorization generation hides every operation from the lookups.
LEMMA RaiseAuthContract ==
  ASSUME IInv, IInv', RaiseAuth
  PROVE  \A o \in Ops : ContractStep(o)
<1>1. auth' = auth + 1 /\ UNCHANGED <<epoch, tableVars, handler, messages>> /\ TypeOK
  BY Zenon DEF RaiseAuth, IInv
<1>2. \A o \in Ops : sends[o].auth \in Int
  BY SMTT(40), <1>1, BoundAssumption DEF TypeOK, Operation
<1>3. auth \in Int
  BY SMTT(30), <1>1, BoundAssumption DEF TypeOK
<1>4. \A o \in Ops : Present(o) => sends[o].auth # auth'
  BY SMTT(30), <1>1, <1>2, <1>3 DEF IInv, OperationsAgree
<1>5. sends' = sends /\ journal' = journal
  BY Zenon, <1>1 DEF tableVars
<1>6. \A o \in Ops : Lookup(o)' = "not_found"
  BY Zenon, <1>4, <1>5 DEF Lookup, Present
<1>7. \A o \in Ops : FateOf(o)' = FateOf(o)
  BY SMTT(40), <1>1, SeenFates
<1> QED BY Zenon, <1>1, <1>5, <1>6, <1>7, ForgetsAll

\* The other steps of the session, and the ageing of an operation, are not seen
\* at all: when an epoch starts, there is no operation to find.
LEMMA QuietContract ==
  ASSUME IInv, IInv', \/ Stall \/ ClientClosed \/ Activate \/ NewChat
                      \/ \E p \in Ops : Age(p)
                      \/ UNCHANGED vars
  PROVE  \A o \in Ops : ContractStep(o)
<1>1. UNCHANGED <<sends, journal, handler, messages>>
  BY DEF Stall, ClientClosed, Activate, NewChat, Age, tableVars, vars, accountVars
<1>2. \A o \in Ops : Lookup(o)' = Lookup(o)
  <2>1. CASE Activate
    <3>1. \A o \in Ops : ~Present(o)
      BY Zenon, <2>1 DEF Activate, IInv, SessionAgrees, Serving
    <3> QED BY SMTT(30), <1>1, <3>1 DEF Lookup, Present
  <2>2. CASE ~Activate
    <3>1. epoch' = epoch /\ auth' = auth
      BY Zenon, <2>2 DEF Stall, ClientClosed, NewChat, Age, vars, accountVars
    <3> QED BY SMTT(40), <1>1, <3>1 DEF Lookup, Present
  <2> QED BY Zenon, <2>1, <2>2
<1>3. \A o \in Ops : JournalOf(o)' = JournalOf(o)
  BY Zenon, <1>1 DEF JournalOf
<1>4. \A o \in Ops : Posted(o)' = Posted(o) /\ FateOf(o)' = FateOf(o)
  BY Zenon, <1>1, SeenFates
<1> QED BY Zenon, <1>2, <1>3, <1>4, Stutters

-----------------------------------------------------------------------------
(***************************************************************************)
(* A request begins.                                                       *)
(***************************************************************************)
\* What send does to the other operations: those whose retention has run out
\* are forgotten.
LEMMA SendOthers ==
  ASSUME IInv, NEW r \in Requests, NEW h, handler' = [handler EXCEPT ![r] = h],
         UNCHANGED <<accountVars, messages, journal>>,
         NEW p \in Ops, p # ReqOp[r],
         \/ sends'[p] = sends[p]
         \/ p \in old /\ sends'[p].state = "absent"
  PROVE  ContractStep(p)
<1>1. TypeOK /\ epoch' = epoch /\ auth' = auth
  BY Zenon DEF IInv, accountVars
<1>2. /\ Posted(p)' = Posted(p)
      /\ \A q \in Requests : ReqOp[q] = p => handler'[q] = handler[q]
  BY Zenon, <1>1, OthersKept
<1>3. Live(p)' <=> Live(p)
  BY Zenon, <1>2 DEF Live
<1>4. FateOf(p)' = FateOf(p)
  BY <1>2, <1>3 DEF FateOf
<1>5. JournalOf(p)' = JournalOf(p)
  BY Zenon DEF JournalOf
<1>6. CASE sends'[p] = sends[p]
  <2>1. Lookup(p)' = Lookup(p)
    BY Zenon, <1>1, <1>6 DEF Lookup, Present
  <2> QED BY SMTT(30), <1>2, <1>4, <1>5, <2>1, Stutters
<1>7. CASE p \in old /\ sends'[p].state = "absent"
  <2>1. Posted(p)
    BY <1>7, CreatedIsPosted DEF IInv, OldIsQuiet
  <2>2. Lookup(p)' = "not_found"
    BY Zenon, <1>7 DEF Lookup, Present
  <2> QED BY ZenonT(30), <1>2, <1>4, <1>5, <2>1, <2>2, Forgets
<1> QED BY SMTT(40), <1>6, <1>7

\* An operation whose retention has run out is not posted again.
LEMMA NotOld ==
  ASSUME IInv, NEW r \in Requests, MayPost(r)
  PROVE  ReqOp[r] \in Ops /\ ReqOp[r] \notin old
<1>1. ReqOp[r] \in Ops
  BY Zenon, RequestAssumption
<1>2. ASSUME ReqOp[r] \in old PROVE FALSE
  <2>1. Posted(ReqOp[r])
    BY Zenon, <1>1, <1>2, CreatedIsPosted DEF IInv, OldIsQuiet
  <2> QED BY SMTT(30), <1>2, <2>1 DEF Posted, MayPost
<1> QED BY <1>1, <1>2

\* A request that is refused, or waits for an operation that exists: the first
\* one of an operation has it rejected, a repetition changes nothing.
LEMMA SendOnContract ==
  ASSUME IInv, IInv', NEW r \in Requests, handler[r].pc = "idle",
         NEW h \in Handler, handler' = [handler EXCEPT ![r] = h], h.pc # "idle", h.sid = None,
         UNCHANGED <<accountVars, messages, journal>>, ReqOp[r] \in Ops,
         sends'[ReqOp[r]] = sends[ReqOp[r]]
  PROVE  ContractStep(ReqOp[r])
<1> DEFINE o == ReqOp[r]
<1>1. /\ epoch' = epoch /\ auth' = auth
      /\ handler'[r] = h /\ \A q \in Requests : q # r => handler'[q] = handler[q]
  BY Zenon DEF IInv, TypeOK, accountVars
<1>2. Lookup(o)' = Lookup(o) /\ JournalOf(o)' = JournalOf(o)
  BY SMTT(30), <1>1 DEF Lookup, Present, JournalOf
<1>3. ~Created(r) /\ ~Created(r)'
  BY SMTT(30), <1>1 DEF IInv, HandlersAgree, Created, Idle
<1>4. Posted(o)'
  BY Zenon, <1>1 DEF Posted
<1>5. CASE Posted(o)
  <2>1. Posted(o)' = Posted(o)
    BY ZenonT(30), <1>4, <1>5 DEF Posted
  <2>2. \A q \in Requests : handler'[q].sid = handler[q].sid
    BY Zenon, <1>1, <1>3 DEF Created
  <2>3. \A q \in Requests : Created(q) => FateVia(q)' = FateVia(q)
    <3>1. ASSUME NEW q \in Requests, Created(q) PROVE FateVia(q)' = FateVia(q)
      <4>1. handler'[q] = handler[q]
        BY SMTT(30), <1>1, <1>3, <3>1
      <4> QED BY Zenon, <4>1, SameFate
    <3> QED BY Zenon, <3>1
  <2>4. FateOf(o)' = FateOf(o)
    BY Zenon, <2>1, <2>2, <2>3, FateKept
  <2> QED BY ZenonT(30), <1>2, <2>1, <2>4, Stutters
<1>6. CASE ~Posted(o)
  <2>1. Lookup(o) = "not_found"
    BY Zenon, <1>6, UnpostedUnseen
  <2>2. \A q \in Requests : ReqOp[q] = o => ~Created(q)'
    <3>1. \A q \in Requests : ReqOp[q] = o => ~Created(q)
      BY Zenon, <1>6, CreatedIsPosted
    <3> QED BY Zenon, <1>1, <1>3, <3>1 DEF Created
  <2>3. FateOf(o)' = "dead"
    BY SMTT(30), <1>4, <2>2, FatesNext
  <2> QED BY SMTT(30), <1>2, <1>4, <1>6, <2>1, <2>3, Rejects
<1> QED BY SMTT(30), <1>5, <1>6

\* A request that creates its operation has it accepted.
LEMMA SendNewContract ==
  ASSUME IInv, IInv', NEW r \in Requests, handler[r].pc = "idle", MayPost(r), ~Remembers(ReqOp[r]),
         NEW h \in Handler, handler' = [handler EXCEPT ![r] = h],
         h.pc \in {"lookup", "claim"}, h.sid # None, h.td = "none",
         UNCHANGED <<accountVars, messages, journal>>,
         sends'[ReqOp[r]].state = "preparing", sends'[ReqOp[r]].epoch = epoch, sends'[ReqOp[r]].auth = auth
  PROVE  ContractStep(ReqOp[r])
<1> DEFINE o == ReqOp[r]
<1>1. /\ epoch' = epoch /\ auth' = auth /\ o \in Ops
      /\ handler'[r] = h /\ \A q \in Requests : q # r => handler'[q] = handler[q]
  BY Zenon, RequestAssumption DEF IInv, TypeOK, accountVars
<1>2. Lookup(o)' = "pending" /\ JournalOf(o)' = JournalOf(o)
  BY Zenon, <1>1 DEF Lookup, Present, PublicState, Settled, JournalOf
<1>3. ~Posted(o)
  BY Zenon, FirstRequest DEF Posted, Idle
<1>4. Posted(o)'
  BY Zenon, <1>1 DEF Posted
<1>5. FateOf(o) = "live"
  BY Zenon, <1>1, <1>3, Fates
<1>6. Created(r)' /\ FateVia(r)' = "live"
  BY Zenon, <1>1 DEF Created, FateVia, Carried
<1>7. FateOf(o)' = "live"
  BY ZenonT(30), <1>6, FatesNext
<1> QED BY ZenonT(30), <1>1, <1>2, <1>3, <1>4, <1>5, <1>7, Accepts

\* Send, whichever way it goes.
LEMMA SendsContract ==
  ASSUME IInv, IInv', NEW r \in Requests, NEW current \in BOOLEAN, Send(r, current)
  PROVE  \A o \in Ops : ContractStep(o)
<1>1. handler[r].pc = "idle" /\ MayPost(r) /\ UNCHANGED <<accountVars, messages, journal>>
  BY ZenonT(30) DEF Send
<1>2. /\ handler[r] = Idle /\ Idle \in Handler /\ handler \in [Requests -> Handler]
      /\ handler' \in [Requests -> Handler] /\ ReqOp[r] \in Ops /\ ReqOp[r] \notin old
  BY ZenonT(30), <1>1, NotOld, BoundAssumption DEF IInv, TypeOK, HandlersAgree, Idle, Handler
<1> DEFINE h == handler'[r]
<1>3. CASE /\ Refuse(r) \/ Goto(r, "waiting")
           /\ sends' = sends \/ sends' = PrunedSends
  <2>1. /\ handler' = [handler EXCEPT ![r] = h] /\ h \in Handler
        /\ h.pc # "idle" /\ h.sid = None
    BY SMTT(30), <1>2, <1>3 DEF Refuse, Goto, Idle, Handler
  <2>2. \A p \in Ops : \/ sends'[p] = sends[p]
                       \/ p \in old /\ sends'[p].state = "absent"
    BY Zenon, <1>3, PruneFacts
  <2> HIDE DEF h
  <2>3. \A p \in Ops : p # ReqOp[r] => ContractStep(p)
    BY ZenonT(30), <1>1, <2>1, <2>2, SendOthers
  <2>4. ContractStep(ReqOp[r])
    BY Zenon, <1>1, <1>2, <2>1, <2>2, SendOnContract
  <2> QED BY Zenon, <2>3, <2>4
<1>4. CASE \E s \in {t \in SendingIds : PrunedIds[t] = None} :
              /\ ~Remembers(ReqOp[r])
              /\ known
              /\ HasRoom
              /\ sends' = [PrunedSends EXCEPT ![ReqOp[r]] =
                             [Absent EXCEPT !.state = "preparing", !.sid = s, !.epoch = epoch,
                                            !.auth = auth, !.reply = ReqReply[r]]]
              /\ sending_ids' = [PrunedIds EXCEPT ![s] = ReqOp[r]]
              /\ handler' = [handler EXCEPT ![r].pc = IF ReqReply[r] THEN "lookup" ELSE "claim",
                                            ![r].client = client, ![r].sid = s]
  <2>1. PICK s \in SendingIds :
              /\ ~Remembers(ReqOp[r])
              /\ sends' = [PrunedSends EXCEPT ![ReqOp[r]] =
                             [Absent EXCEPT !.state = "preparing", !.sid = s, !.epoch = epoch,
                                            !.auth = auth, !.reply = ReqReply[r]]]
              /\ handler' = [handler EXCEPT ![r].pc = IF ReqReply[r] THEN "lookup" ELSE "claim",
                                            ![r].client = client, ![r].sid = s]
    BY Zenon, <1>4
  <2> DEFINE e == [Absent EXCEPT !.state = "preparing", !.sid = s, !.epoch = epoch,
                                 !.auth = auth, !.reply = ReqReply[r]]
             k == [handler[r] EXCEPT !.pc = IF ReqReply[r] THEN "lookup" ELSE "claim",
                                     !.client = client, !.sid = s]
  <2>2. handler' = [handler EXCEPT ![r] = k] /\ k \in Handler
    BY ZenonT(30), <1>2, <2>1
  <2>3. k.pc \in {"lookup", "claim"} /\ k.sid = s /\ k.td = "none" /\ s # None
    BY SMTT(40), <1>2, NoneAssumption DEF Idle, Handler
  <2>4. e.state = "preparing" /\ e.epoch = epoch /\ e.auth = auth
    BY Zenon DEF Absent
  <2>5. sends' = [PrunedSends EXCEPT ![ReqOp[r]] = e]
    BY <2>1
  <2> HIDE DEF k, e
  <2>6. sends'[ReqOp[r]] = e /\ \A p \in Ops : p # ReqOp[r] => sends'[p] = PrunedSends[p]
    BY Zenon, <1>2, <2>5, PruneFacts
  <2>7. \A p \in Ops : p # ReqOp[r] => \/ sends'[p] = sends[p]
                                       \/ p \in old /\ sends'[p].state = "absent"
    BY SMTT(30), <2>6, PruneFacts
  <2>8. \A p \in Ops : p # ReqOp[r] => ContractStep(p)
    BY ZenonT(30), <1>1, <2>2, <2>7, SendOthers
  <2>9. ContractStep(ReqOp[r])
    BY ZenonT(30), <1>1, <2>1, <2>2, <2>3, <2>4, <2>6, SendNewContract
  <2> QED BY Zenon, <2>8, <2>9
<1> QED BY ZenonT(30), <1>3, <1>4 DEF Send

-----------------------------------------------------------------------------
(***************************************************************************)
(* The implementation.                                                     *)
(***************************************************************************)
\* Every step of the service is a step of the contract of each operation, or
\* one that the contract does not see.
LEMMA StepContract ==
  ASSUME IInv, IInv', [Next]_vars
  PROVE  \A o \in Ops : ContractStep(o)
<1>1. CASE \E r \in Requests : HandlerStep(r) \/ TdAccept(r) \/ TdRefuse(r)
  <2>1. PICK r \in Requests : HandlerStep(r) \/ TdAccept(r) \/ TdRefuse(r)
    BY Zenon, <1>1
  <2>2. CASE \E current \in BOOLEAN : Send(r, current)
    BY Zenon, <2>2, SendsContract
  <2>3. CASE LookupReply(r)
    BY Zenon, <2>3, LookupReplyContract
  <2>4. CASE Claim(r)
    BY SMTT(30), <2>4, ClaimContract
  <2>5. CASE Begin(r)
    BY Zenon, <2>5, BeginContract
  <2>6. CASE ApplyAnswer(r)
    BY Zenon, <2>6, ApplyAnswerContract
  <2>7. CASE AwaitTimeout(r) \/ Complete(r) \/ AwaitOutcome(r) \/ TdRefuse(r)
    BY Zenon, <2>7, HandlerOnlyContract
  <2>8. CASE TdAccept(r)
    BY Zenon, <2>8, TdAcceptContract
  <2> QED BY SMTT(30), <2>1, <2>2, <2>3, <2>4, <2>5, <2>6, <2>7, <2>8 DEF HandlerStep
<1>2. CASE \E m \in MessageIds : TdDecide(m) \/ Announce(m) \/ Report(m)
  BY Zenon, <1>2, TdDecideContract, AnnounceContract, ReportContract
<1>3. CASE Fence \/ LeaveReady
  BY Zenon, <1>3, EndContract
<1>4. CASE Crash
  BY Zenon, <1>4, CrashContract
<1>5. CASE RaiseAuth
  BY Zenon, <1>5, RaiseAuthContract
<1>6. CASE Stall \/ ClientClosed \/ Activate \/ NewChat \/ (\E o \in Ops : Age(o)) \/ UNCHANGED vars
  BY Zenon, <1>6, QuietContract
<1> QED BY SMTT(40), <1>1, <1>2, <1>3, <1>4, <1>5, <1>6 DEF Next

\* At first no operation has been posted.
LEMMA ContractBegins ==
  ASSUME Init, NEW o \in Ops
  PROVE  Contract(o)!ContractInit
<1>1. ~Posted(o)
  BY Zenon DEF Init, Posted, Idle
<1>2. StageOf(o) = "unposted"
  BY Zenon, <1>1 DEF StageOf
<1>3. ~\E m \in MessageIds : messages[m].op = o /\ messages[m].fate = "delivered"
  BY Zenon, NoneAssumption DEF Init, Unused
<1>4. FateOf(o) = "live"
  BY Zenon, <1>1, <1>3 DEF FateOf
<1>5. JournalOf(o) = {}
  BY Zenon DEF Init, JournalOf
<1> QED BY Zenon, <1>2, <1>4, <1>5 DEF Contract!ContractInit

\* backend-tdlib implements SendContract for every operation: whatever races,
\* timeouts, crashes and lost sessions happen, backend-api sees an operation
\* taken on, refused, settled truthfully or forgotten, and nothing else
\* (message_send_service.cpp).
THEOREM ImplementsContract == Spec => KeepsContract
<1>1. Init => \A o \in Ops : Contract(o)!ContractInit
  BY Zenon, ContractBegins
<1>2. IInv /\ IInv' /\ [Next]_vars => \A o \in Ops : [Contract(o)!ContractNext]_(Contract(o)!contractVars)
  BY Zenon, StepContract DEF ContractStep
<1> QED BY <1>1, <1>2, Invariant, PTL DEF Spec, KeepsContract

-----------------------------------------------------------------------------
(***************************************************************************)
(* The limit of the table.                                                 *)
(***************************************************************************)
INSTANCE FiniteSetTheorems

\* The table is finite and within its limit.
Room == IsFiniteSet(InTable) /\ Cardinality(InTable) <= Limit

\* A table that does not grow keeps within its limit.
LEMMA ShrinkingKeepsRoom ==
  ASSUME Room, InTable' \subseteq InTable
  PROVE  Room'
<1>1. IsFiniteSet(InTable') /\ Cardinality(InTable') <= Cardinality(InTable)
  BY Zenon, FS_Subset DEF Room
<1>2. Cardinality(InTable) \in Nat /\ Cardinality(InTable') \in Nat
  BY Zenon, <1>1, FS_CardinalityType DEF Room
<1> QED BY SMTT(40), <1>1, <1>2, BoundAssumption DEF Room

\* send adds one operation, after prune and only below the limit.
LEMMA SendKeepsRoom ==
  ASSUME IInv, Room, NEW r \in Requests, NEW current \in BOOLEAN, Send(r, current)
  PROVE  Room'
<1> DEFINE S == {p \in Ops : PrunedSends[p].state # "absent"}
           o == ReqOp[r]
<1>1. S \subseteq InTable /\ o \in Ops
  BY Zenon, PruneFacts, RequestAssumption DEF InTable, Present
<1>2. CASE UNCHANGED sends
  <2>1. InTable' = InTable
    BY Zenon, <1>2 DEF InTable, Present
  <2> QED BY Zenon, <2>1 DEF Room
<1>3. CASE sends' = PrunedSends
  <2>1. InTable' = S
    BY Zenon, <1>3 DEF InTable, Present
  <2> HIDE DEF S
  <2> QED BY Zenon, <1>1, <2>1, ShrinkingKeepsRoom
<1>4. CASE ~Remembers(o) /\ HasRoom /\ \E e : sends' = [PrunedSends EXCEPT ![o] = e] /\ e.state = "preparing"
  <2>1. PICK e : sends' = [PrunedSends EXCEPT ![o] = e] /\ e.state = "preparing"
    BY Zenon, <1>4
  <2>2. \A p \in Ops : IF p = o THEN sends'[p].state = "preparing" ELSE sends'[p] = PrunedSends[p]
    BY Zenon, <2>1, PruneFacts
  <2>3. InTable' = S \cup {o}
    <3>1. ASSUME NEW p \in Ops PROVE p \in InTable' <=> p \in S \cup {o}
      BY Zenon, <1>1, <2>2 DEF InTable, Present
    <3> QED BY Zenon, <1>1, <3>1 DEF InTable
  <2>4. o \notin S /\ Cardinality(S) < Limit
    BY Zenon, <1>4 DEF Remembers, HasRoom
  <2> HIDE DEF S, o
  <2>5. IsFiniteSet(S) /\ Cardinality(S) \in Nat
    BY Zenon, <1>1, FS_Subset, FS_CardinalityType DEF Room
  <2>6. IsFiniteSet(S \cup {o}) /\ Cardinality(S \cup {o}) = Cardinality(S) + 1
    BY SMTT(40), <2>4, <2>5, FS_AddElement
  <2> QED BY SMTT(40), <2>3, <2>4, <2>5, <2>6, BoundAssumption DEF Room
<1>5. \A s : [Absent EXCEPT !.state = "preparing", !.sid = s, !.epoch = epoch,
                             !.auth = auth, !.reply = ReqReply[r]].state = "preparing"
  BY Zenon DEF Absent
<1> QED BY Zenon, <1>2, <1>3, <1>4, <1>5 DEF Send

\* The table starts empty.
LEMMA RoomAtFirst == Init => Room
<1> SUFFICES ASSUME Init PROVE Room
  BY Zenon
<1>1. Absent.state = "absent"
  BY Zenon DEF Absent
<1>2. InTable = {}
  BY Zenon, <1>1 DEF Init, InTable, Present
<1> QED BY SMTT(40), <1>2, FS_EmptySet, BoundAssumption DEF Room

\* The tables of an account stay typed, within operations_per_account, in
\* agreement, and good enough to settle every pending operation: what prune,
\* finish, bind_pending, succeeded and failed rely on when they look one up.
THEOREM TablesStaySound == Spec => []TablesSound
<1>1. IInv /\ Room /\ [Next]_vars => Room'
  BY Zenon, OnlySendAdds, ShrinkingKeepsRoom, SendKeepsRoom
<1>2. IInv /\ Room => TablesSound
  BY Zenon DEF IInv, Room, InTable, TablesSound, TableBounded, OperationsAgree
<1> QED BY <1>1, <1>2, Invariant, RoomAtFirst, PTL DEF Spec
=============================================================================
