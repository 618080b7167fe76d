--------------------------- MODULE ApiSendProofs ---------------------------
(***************************************************************************)
(* Proofs about ApiSend, for any number of workers and any request bodies, *)
(* and for any timeouts with PostTimeout < Grace.                          *)
(***************************************************************************)
EXTENDS ApiSend, TLAPS

(***************************************************************************)
(* The inductive invariant.                                                *)
(***************************************************************************)
\* What the runtime shows of the operation is true.
ContractTrue ==
  /\ stage = "unposted" => fate = "live" /\ journal = {}
  /\ stage = "sent" \/ "sent" \in journal => fate = "delivered"
  /\ stage = "failed" \/ "failed" \in journal => fate = "dead"

\* So is what the row says and what the workers have heard and answered.
Says(state) == \/ row.state = state
               \/ \E w \in Workers : worker[w].got = state \/ worker[w].reply = state
SaysTrue == /\ Says("sent") => fate = "delivered"
            /\ Says("failed") => fate = "dead"
            /\ \A w \in Workers : /\ worker[w].snap.state \notin Verdicts
                                  /\ worker[w].post = "refused" => fate = "dead"

\* Only the worker that created the row posts, and only it can hear "unknown".
OnePost == /\ PostedOnce
           /\ \A w \in Workers :
                /\ worker[w].post # "none" => row.state # "none"
                /\ worker[w].post \in {"taken", "refused"} => stage # "unposted"
                /\ worker[w].pc = "posting" \/ worker[w].got = "unknown" => worker[w].post # "none"
                /\ worker[w].pc = "recording" => /\ worker[w].got \in {"pending", "unknown"} \cup Verdicts
                                                 /\ row.state # "none"
                /\ worker[w].pc \in {"asking", "answered"} => row.state # "none"
                /\ worker[w].pc = "answered" => worker[w].got \in {"pending", "not_found"} \cup Verdicts

\* While the POST is under way, neither the row nor any copy of it is older
\* than the call.
YoungWhilePosting ==
  \A w \in Workers : worker[w].pc = "posting" =>
    /\ worker[w].call <= PostTimeout
    /\ row.state # "unknown"
    /\ row.age <= worker[w].call
    /\ worker[w].got # "unknown"
    /\ \A v \in Workers : /\ worker[v].pc \in {"asking", "answered"} =>
                               /\ worker[v].snap.age <= worker[w].call
                               /\ worker[v].snap.state # "unknown"

IInv == ApiTypeOK /\ ContractTrue /\ SaysTrue /\ OnePost /\ YoungWhilePosting


\* The timeouts and the grace period as numbers.
LEMMA TimeFacts == /\ PostTimeout \in Nat /\ StatusTimeout \in Nat /\ Grace \in Nat
                   /\ PostTimeout < Grace
                   /\ 0 \in 0..Grace /\ 0 \in 0..(PostTimeout + StatusTimeout)
BY TimeAssumption

\* What a step that answers the client does to the workers.
LEMMA AnswerFacts ==
  ASSUME ApiTypeOK, NEW w \in Workers, NEW s \in RowStates \cup {"none", "error"}, Answer(w, s)
  PROVE  /\ worker' \in [Workers -> Worker]
         /\ worker'[w].pc = "done" /\ worker'[w].snap = NoRow /\ worker'[w].got = "none"
         /\ worker'[w].post = worker[w].post /\ worker'[w].reply = s
         /\ \A v \in Workers \ {w} : worker'[v] = worker[v]
<1> DEFINE new == [pc |-> "done", snap |-> NoRow, call |-> 0, got |-> "none",
                   post |-> worker[w].post, reply |-> s]
<1>1. new \in Worker
  <2>1. NoRow \in Row
    BY Zenon, TimeFacts DEF NoRow, Row
  <2>2. worker[w].post \in {"none", "queued", "taken", "refused"}
    BY Zenon DEF ApiTypeOK, Worker
  <2> QED BY Zenon, <2>1, <2>2, TimeFacts DEF Worker
<1>2. worker' = [worker EXCEPT ![w] = new]
  BY Zenon DEF Answer
<1> QED BY Zenon, <1>1, <1>2 DEF ApiTypeOK

\* What the start of refresh does to the workers.
LEMMA RefreshFacts ==
  ASSUME ApiTypeOK, NEW w \in Workers, row.state # "none", Refresh(w)
  PROVE  /\ worker' \in [Workers -> Worker]
         /\ \A v \in Workers \ {w} : worker'[v] = worker[v]
         /\ worker'[w].post = worker[w].post
         /\ \/ /\ row.state \in Verdicts /\ worker'[w].pc = "done" /\ worker'[w].snap = NoRow
               /\ worker'[w].got = "none" /\ worker'[w].reply = row.state
            \/ /\ row.state \notin Verdicts /\ worker'[w].pc = "asking" /\ worker'[w].snap = row
               /\ worker'[w].got = worker[w].got /\ worker'[w].reply = worker[w].reply
<1>1. CASE row.state \in Verdicts
  <2>1. row.state \in RowStates \cup {"none", "error"}
    BY Zenon, <1>1 DEF RowStates
  <2> QED BY Zenon, <1>1, <2>1, AnswerFacts DEF Refresh
<1>2. CASE row.state \notin Verdicts
  <2> DEFINE new == [worker[w] EXCEPT !.pc = "asking", !.snap = row, !.call = 0]
  <2>1. worker' = [worker EXCEPT ![w] = new]
    BY Zenon, <1>2 DEF Refresh
  <2>2. worker[w] \in Worker /\ row \in Row
    BY Zenon DEF ApiTypeOK
  <2>3. new \in Worker
    BY Zenon, <2>2, TimeFacts DEF Worker
  <2>4. /\ new.pc = "asking" /\ new.snap = row /\ new.got = worker[w].got
        /\ new.post = worker[w].post /\ new.reply = worker[w].reply
    BY Zenon, <2>2 DEF Worker
  <2> HIDE DEF new
  <2>5. worker' \in [Workers -> Worker] /\ worker'[w] = new
    BY Zenon, <2>1, <2>3 DEF ApiTypeOK
  <2>6. \A v \in Workers \ {w} : worker'[v] = worker[v]
    BY Zenon, <2>1 DEF ApiTypeOK
  <2> QED BY Zenon, <1>2, <2>4, <2>5, <2>6
<1> QED BY Zenon, <1>1, <1>2

\* What a recorded state leaves in the row.
LEMMA RecordedFacts ==
  ASSUME ApiTypeOK, row.state # "none", NEW s \in RowStates, row' = Recorded(s)
  PROVE  /\ row' \in Row
         /\ row'.state \in {row.state, s} /\ row'.state # "none"
         /\ row.state \in Verdicts => row' = row
         /\ row.state = "unknown" => row'.state \in {"unknown"} \cup Verdicts
         /\ row' = row \/ row'.age = 0
         /\ row'.text = row.text
<1>1. CASE row' = row
  BY Zenon, <1>1 DEF ApiTypeOK, Recorded, Row, RowStates, Verdicts
<1>2. CASE row' # row
  <2>1. row' = [row EXCEPT !.state = s, !.age = 0]
    BY Zenon, <1>2 DEF Recorded
  <2> QED BY Zenon, <1>2, <2>1, TimeFacts DEF ApiTypeOK, Recorded, Row, RowStates, Verdicts
<1> QED BY Zenon, <1>1, <1>2

\* A step that answers a client truthfully and changes nothing else.
LEMMA AnswerKeeps ==
  ASSUME IInv, NEW w \in Workers, NEW s \in RowStates \cup {"none", "error"}, Answer(w, s),
         UNCHANGED <<contractVars, row>>,
         s = "sent" => fate = "delivered", s = "failed" => fate = "dead"
  PROVE  IInv'
<1> USE AnswerFacts DEF IInv, contractVars, NoRow, Verdicts, Workers
<1>1. ApiTypeOK'
  BY Zenon DEF ApiTypeOK, ContractTypeOK
<1>2. ContractTrue'
  BY Zenon DEF ContractTrue
<1>3. SaysTrue'
  BY DEF SaysTrue, Says
<1>4. OnePost'
  BY DEF OnePost, PostedOnce
<1>5. YoungWhilePosting'
  BY DEF YoungWhilePosting
<1> QED BY Zenon, <1>1, <1>2, <1>3, <1>4, <1>5

\* refresh begins: a settled row is answered, any other is copied.
LEMMA RefreshKeeps ==
  ASSUME IInv, NEW w \in Workers, worker[w].pc = "idle", row.state # "none", Refresh(w),
         UNCHANGED <<contractVars, row>>
  PROVE  IInv'
<1> USE RefreshFacts DEF IInv, contractVars, NoRow, Verdicts, Workers
<1>1. ApiTypeOK'
  BY Zenon DEF ApiTypeOK, ContractTypeOK
<1>2. ContractTrue'
  BY Zenon DEF ContractTrue
<1>3. SaysTrue'
  BY DEF SaysTrue, Says
<1>4. OnePost'
  BY DEF OnePost, PostedOnce
<1>5. YoungWhilePosting'
  BY DEF YoungWhilePosting
<1> QED BY Zenon, <1>1, <1>2, <1>3, <1>4, <1>5

\* A true state is recorded and answered; nobody records "unknown" while the
\* POST is under way.
LEMMA RecordedKeeps ==
  ASSUME IInv, NEW w \in Workers, row.state # "none", worker[w].pc # "posting",
         NEW s \in RowStates \ {"dispatching"}, row' = Recorded(s), Answer(w, row'.state),
         UNCHANGED contractVars,
         s = "sent" => fate = "delivered", s = "failed" => fate = "dead",
         s = "unknown" => \A v \in Workers : worker[v].pc # "posting"
  PROVE  IInv'
<1>1. /\ row' \in Row
      /\ row'.state \in {row.state, s} /\ row'.state # "none"
      /\ row' = row \/ row'.age = 0
  BY Zenon, RecordedFacts DEF IInv
<1>2. row'.state \in RowStates \cup {"none", "error"}
  BY Zenon, <1>1 DEF Row
<1>3. /\ worker' \in [Workers -> Worker]
      /\ worker'[w].pc = "done" /\ worker'[w].snap = NoRow /\ worker'[w].got = "none"
      /\ worker'[w].post = worker[w].post /\ worker'[w].reply = row'.state
      /\ \A v \in Workers \ {w} : worker'[v] = worker[v]
  BY Zenon, <1>2, AnswerFacts DEF IInv
<1> USE <1>1, <1>3 DEF IInv, contractVars, NoRow, Verdicts
<1>4. ApiTypeOK'
  BY Zenon DEF ApiTypeOK, ContractTypeOK
<1>5. ContractTrue'
  BY Zenon DEF ContractTrue
<1>6. SaysTrue'
  BY DEF SaysTrue, Says
<1>7. OnePost'
  BY DEF OnePost, PostedOnce
<1>8. YoungWhilePosting'
  <2>1. ASSUME NEW v \in Workers, worker'[v].pc = "posting"
        PROVE  v # w /\ worker[v].pc = "posting" /\ s # "unknown" /\ worker'[v] = worker[v]
    BY Zenon, <2>1
  <2>2. ASSUME NEW v \in Workers, worker'[v].pc = "posting"
        PROVE  row'.age <= worker[v].call
    BY <2>1, <2>2, TimeFacts DEF YoungWhilePosting, ApiTypeOK, Worker
  <2> QED BY <2>1, <2>2 DEF YoungWhilePosting
<1> QED BY Zenon, <1>4, <1>5, <1>6, <1>7, <1>8

\* send: an error, a claim that posts, or a refresh of the row the claim found.
LEMMA SendRequestKeeps ==
  ASSUME IInv, NEW w \in Posters, NEW text \in Texts, SendRequest(w, text)
  PROVE  IInv'
<1>0. w \in Workers /\ "error" \in RowStates \cup {"none", "error"}
  BY Zenon DEF Workers
<1>1. CASE Answer(w, "error") /\ UNCHANGED row
  BY Zenon, <1>0, <1>1, AnswerKeeps DEF SendRequest, contractVars
<1>2. CASE Refresh(w) /\ row.state # "none" /\ UNCHANGED row
  BY Zenon, <1>0, <1>2, RefreshKeeps DEF SendRequest, contractVars
<1>3. CASE /\ row.state = "none"
           /\ row' = [state |-> "dispatching", text |-> text, age |-> 0]
           /\ worker' = [worker EXCEPT ![w].pc = "posting", ![w].post = "queued", ![w].call = 0]
  <2>0. UNCHANGED <<stage, fate, journal>>
    BY Zenon DEF SendRequest, contractVars
  <2>1. row' \in Row
    BY Zenon, <1>3, TimeFacts DEF Row, RowStates
  <2>2. /\ worker' \in [Workers -> Worker]
        /\ worker'[w].pc = "posting" /\ worker'[w].snap = worker[w].snap
        /\ worker'[w].post = "queued" /\ worker'[w].call = 0
        /\ worker'[w].got = worker[w].got /\ worker'[w].reply = worker[w].reply
        /\ \A v \in Workers \ {w} : worker'[v] = worker[v]
    <3>1. worker' = [worker EXCEPT ![w] = [@ EXCEPT !.pc = "posting", !.post = "queued", !.call = 0]]
      BY Zenon, <1>3
    <3>2. worker \in [Workers -> Worker] /\ w \in Workers
      BY Zenon, <1>0 DEF IInv, ApiTypeOK
    <3>3. [worker[w] EXCEPT !.pc = "posting", !.post = "queued", !.call = 0] \in Worker
      BY ZenonT(40), <3>2, TimeFacts DEF Worker
    <3> QED BY <3>1, <3>2, <3>3 DEF Worker
  <2>3. \A v \in Workers : /\ worker[v].post = "none" /\ worker[v].pc # "posting"
                            /\ worker[v].got # "unknown"
                            /\ worker[v].pc \notin {"asking", "answered", "recording"}
    BY Zenon, <1>3 DEF IInv, OnePost
  <2>4. ApiTypeOK'
    BY Zenon, <2>0, <2>1, <2>2 DEF IInv, ApiTypeOK, ContractTypeOK
  <2>5. ContractTrue'
    BY Zenon, <2>0 DEF IInv, ContractTrue
  <2>6. SaysTrue'
    BY <1>0, <1>3, <2>0, <2>2 DEF IInv, SaysTrue, Says, Verdicts
  <2>7. OnePost'
    BY <1>0, <1>3, <2>2, <2>3 DEF OnePost, PostedOnce
  <2>8. YoungWhilePosting'
    BY <1>0, <1>3, <2>2, <2>3, TimeFacts DEF YoungWhilePosting
  <2> QED BY Zenon, <2>4, <2>5, <2>6, <2>7, <2>8 DEF IInv
<1> QED BY Zenon, <1>1, <1>2, <1>3 DEF SendRequest, NeedsDispatch

\* sendStatus fails: the answer is the row as it was read, never a verdict.
LEMMA StatusFailsKeeps ==
  ASSUME IInv, NEW w \in Workers, StatusFails(w)
  PROVE  IInv'
<1>1. /\ worker[w].snap.state \in RowStates \cup {"none", "error"}
      /\ worker[w].snap.state \notin Verdicts
  BY Zenon DEF IInv, ApiTypeOK, Worker, Row, SaysTrue
<1> QED BY Zenon, <1>1, AnswerKeeps DEF StatusFails, Verdicts, contractVars

\* A worker that dies answers nobody.
LEMMA WorkerDiesKeeps ==
  ASSUME IInv, NEW w \in Workers, WorkerDies(w)
  PROVE  IInv'
BY Zenon, AnswerKeeps DEF WorkerDies, contractVars

\* A status request refreshes the row it found.
LEMMA StatusRequestKeeps ==
  ASSUME IInv, NEW w \in Pollers, StatusRequest(w)
  PROVE  IInv'
BY Zenon, RefreshKeeps DEF StatusRequest, Workers, contractVars

\* The state a POST or an event brought is recorded.
LEMMA RecordKeeps ==
  ASSUME IInv, NEW w \in Workers, Record(w)
  PROVE  IInv'
<1> DEFINE s == Outcome(worker[w].got)
<1>1. s = worker[w].got /\ s \in RowStates \ {"dispatching"} /\ row.state # "none"
  BY DEF IInv, OnePost, Record, Outcome, RowStates, Verdicts
<1>2. (s = "sent" => fate = "delivered") /\ (s = "failed" => fate = "dead")
  BY Zenon, <1>1 DEF IInv, SaysTrue, Says
<1>3. s = "unknown" => \A v \in Workers : worker[v].pc # "posting"
  BY Zenon, <1>1 DEF IInv, OnePost, PostedOnce, Record
<1> QED BY <1>1, <1>2, <1>3, RecordedKeeps DEF Record

\* The rest of refresh: an operation that was not found turns the row unknown
\* only when the copy is older than any POST under way can be.
LEMMA StatusAppliedKeeps ==
  ASSUME IInv, NEW w \in Workers, StatusApplied(w)
  PROVE  IInv'
<1> DEFINE s == Outcome(worker[w].got)
<1>1. /\ worker[w].pc = "answered" /\ row.state # "none"
      /\ worker[w].got \in {"pending", "not_found"} \cup Verdicts
  BY Zenon DEF IInv, OnePost, StatusApplied
<1>2. CASE Answer(w, worker[w].snap.state) /\ UNCHANGED row
  <2>1. /\ worker[w].snap.state \in RowStates \cup {"none", "error"}
        /\ worker[w].snap.state \notin Verdicts
    BY Zenon DEF IInv, ApiTypeOK, Worker, Row, SaysTrue
  <2> QED BY Zenon, <1>2, <2>1, AnswerKeeps DEF StatusApplied, Verdicts, contractVars
<1>3. CASE /\ row' = Recorded(s) /\ Answer(w, row'.state)
           /\ worker[w].got # "not_found" \/ ~InGrace(w)
  <2>1. s \in RowStates \ {"dispatching"} /\ (s \in Verdicts => s = worker[w].got)
    BY Zenon, <1>1 DEF Outcome, RowStates, Verdicts
  <2>2. (s = "sent" => fate = "delivered") /\ (s = "failed" => fate = "dead")
    BY Zenon, <2>1 DEF IInv, SaysTrue, Says, Verdicts
  <2>3. ASSUME s = "unknown", NEW v \in Workers
        PROVE  worker[v].pc # "posting"
    <3>1. worker[w].got = "not_found"
      BY Zenon, <1>1, <2>3 DEF Outcome, Verdicts
    <3>2. worker[w].snap.age >= Grace
      BY <1>3, <3>1, TimeFacts DEF InGrace, IInv, ApiTypeOK, Worker, Row
    <3> QED BY <1>1, <3>2, TimeFacts DEF IInv, YoungWhilePosting, ApiTypeOK, Worker, Row
  <2> QED BY Zenon, <1>1, <1>3, <2>1, <2>2, <2>3, RecordedKeeps DEF StatusApplied
<1> QED BY Zenon, <1>2, <1>3 DEF StatusApplied

\* The runtime takes the POST on, or refuses it for good.
LEMMA RuntimeTakesKeeps ==
  ASSUME IInv, NEW w \in Workers, RuntimeTakes(w)
  PROVE  IInv'
<1>1. PICK p \in {"taken", "refused"} :
         /\ worker' = [worker EXCEPT ![w].post = p]
         /\ stage = "unposted" /\ stage' # "unposted" /\ UNCHANGED <<journal, row>>
         /\ stage' \in {"open", "lost"}
         /\ fate' = IF p = "taken" THEN fate ELSE "dead"
  BY Zenon DEF RuntimeTakes, Accept, Reject
<1>2. /\ worker' \in [Workers -> Worker]
      /\ worker'[w] = [worker[w] EXCEPT !.post = p]
      /\ \A v \in Workers \ {w} : worker'[v] = worker[v]
  BY <1>1 DEF IInv, ApiTypeOK, Worker
<1>3. /\ worker'[w].pc = worker[w].pc /\ worker'[w].snap = worker[w].snap
      /\ worker'[w].call = worker[w].call /\ worker'[w].got = worker[w].got
      /\ worker'[w].post = p /\ worker'[w].reply = worker[w].reply
  BY <1>2 DEF IInv, ApiTypeOK, Worker
<1>4. worker[w].post = "queued"
  BY Zenon DEF RuntimeTakes
<1> USE <1>1, <1>2, <1>3, <1>4 DEF IInv
<1>5. ApiTypeOK'
  BY Zenon DEF ApiTypeOK, ContractTypeOK
<1>6. ContractTrue'
  BY Zenon DEF ContractTrue
<1>7. SaysTrue'
  BY DEF SaysTrue, Says, ContractTrue
<1>8. OnePost'
  BY DEF OnePost, PostedOnce
<1>9. YoungWhilePosting'
  BY DEF YoungWhilePosting
<1> QED BY Zenon, <1>5, <1>6, <1>7, <1>8, <1>9

\* A worker hears something true and goes on to apply it.
LEMMA HearsKeeps ==
  ASSUME IInv, NEW w \in Workers, UNCHANGED <<contractVars, row>>,
         NEW pc \in {"answered", "recording"}, NEW call \in 0..(PostTimeout + StatusTimeout),
         NEW got \in {"pending", "unknown", "not_found"} \cup Verdicts,
         worker' = [worker EXCEPT ![w] = [@ EXCEPT !.pc = pc, !.call = call, !.got = got]],
         row.state # "none",
         got = "sent" => fate = "delivered", got = "failed" => fate = "dead",
         got = "not_found" => pc = "answered",
         got = "unknown" => pc = "recording" /\ worker[w].post # "none",
         pc = "answered" => worker[w].pc \in {"asking", "answered"}
  PROVE  IInv'
<1>0. worker[w] \in Worker
  BY Zenon DEF IInv, ApiTypeOK
<1>1. [worker[w] EXCEPT !.pc = pc, !.call = call, !.got = got] \in Worker
  <2>1. got \in RowStates \cup {"none", "not_found"}
    BY Zenon DEF RowStates
  <2> QED BY Zenon, <1>0, <2>1 DEF Worker
<1>2. /\ worker' \in [Workers -> Worker]
      /\ worker'[w].pc = pc /\ worker'[w].snap = worker[w].snap
      /\ worker'[w].call = call /\ worker'[w].got = got
      /\ worker'[w].post = worker[w].post /\ worker'[w].reply = worker[w].reply
      /\ \A v \in Workers \ {w} : worker'[v] = worker[v]
  BY <1>1 DEF IInv, ApiTypeOK, Worker
<1> USE <1>2 DEF IInv, contractVars, Verdicts
<1>3. ApiTypeOK'
  BY Zenon DEF ApiTypeOK, ContractTypeOK
<1>4. ContractTrue'
  BY DEF ContractTrue
<1>5. SaysTrue'
  BY DEF SaysTrue, Says
<1>6. OnePost'
  BY DEF OnePost, PostedOnce
<1>7. YoungWhilePosting'
  BY DEF YoungWhilePosting
<1> QED BY Zenon, <1>3, <1>4, <1>5, <1>6, <1>7

\* The POST brings what the runtime holds at that moment.
LEMMA PostAnsweredKeeps ==
  ASSUME IInv, NEW w \in Workers, PostAnswered(w)
  PROVE  IInv'
<1> DEFINE got == CASE worker[w].post = "refused" -> "failed"
                    [] worker[w].post = "taken" /\ stage = "lost" -> "unknown"
                    [] worker[w].post = "taken" /\ stage = "open" -> "pending"
                    [] OTHER -> stage
<1>1. worker' = [worker EXCEPT ![w] = [@ EXCEPT !.pc = "recording", !.call = 0, !.got = got]]
  BY Zenon DEF PostAnswered
<1>2. /\ worker[w].post \in {"taken", "refused"} /\ stage # "unposted" /\ row.state # "none"
  BY Zenon DEF PostAnswered, IInv, OnePost
<1>3. \/ worker[w].post = "refused" /\ got = "failed"
      \/ stage = "lost" /\ got = "unknown"
      \/ stage = "open" /\ got = "pending"
      \/ stage \in Verdicts /\ got = stage
  BY Zenon, <1>2 DEF IInv, ApiTypeOK, ContractTypeOK
<1> HIDE DEF got
<1>4. /\ got \in {"pending", "unknown"} \cup Verdicts
      /\ got = "sent" => fate = "delivered"
      /\ got = "failed" => fate = "dead"
  BY Zenon, <1>3 DEF Verdicts, IInv, SaysTrue, ContractTrue
<1>5. UNCHANGED <<contractVars, row>>
  BY Zenon DEF PostAnswered
<1>6. 0 \in 0..(PostTimeout + StatusTimeout)
  BY Zenon, TimeFacts
<1>7. /\ got \in {"pending", "unknown", "not_found"} \cup Verdicts
      /\ got # "not_found"
      /\ worker[w].post # "none"
  BY Zenon, <1>2, <1>4 DEF Verdicts
<1> QED BY Zenon, <1>1, <1>2, <1>4, <1>5, <1>6, <1>7, HearsKeeps

\* A connection that was never made is a failure, any other is unknown.
LEMMA PostFailsKeeps ==
  ASSUME IInv, NEW w \in Workers, PostFails(w)
  PROVE  IInv'
<1>0. worker[w] \in Worker /\ worker \in [Workers -> Worker] /\ row' = row
  BY Zenon DEF IInv, ApiTypeOK, PostFails
<1>1. worker[w].pc = "posting" /\ worker[w].post # "none" /\ row.state # "none"
  BY DEF PostFails, IInv, OnePost
<1>2. CASE /\ worker' = [worker EXCEPT ![w].pc = "recording", ![w].call = 0, ![w].got = "unknown"]
           /\ UNCHANGED contractVars
  <2>1. worker' = [worker EXCEPT ![w] = [@ EXCEPT !.pc = "recording", !.call = 0, !.got = "unknown"]]
    BY Zenon, <1>2
  <2>2. 0 \in 0..(PostTimeout + StatusTimeout)
    BY Zenon, TimeFacts
  <2>3. UNCHANGED <<contractVars, row>>
    BY Zenon, <1>0, <1>2
  <2>4. "unknown" \in {"pending", "unknown", "not_found"} \cup Verdicts
    BY Zenon
  <2> HIDE <1>2
  <2> QED BY Zenon, <1>1, <2>1, <2>2, <2>3, <2>4, HearsKeeps
<1>3. CASE /\ worker[w].post = "queued"
           /\ Reject
           /\ worker' = [worker EXCEPT ![w].pc = "recording", ![w].post = "refused", ![w].got = "failed"]
  <2> DEFINE new == [worker[w] EXCEPT !.pc = "recording", !.post = "refused", !.got = "failed"]
  <2>1. worker' = [worker EXCEPT ![w] = new]
    BY Zenon, <1>3
  <2>2. "failed" \in RowStates
    BY Zenon DEF RowStates, Verdicts
  <2>3. new \in Worker
    BY Zenon, <1>0, <2>2 DEF Worker
  <2>4. /\ new.pc = "recording" /\ new.snap = worker[w].snap /\ new.got = "failed"
        /\ new.post = "refused" /\ new.reply = worker[w].reply
    BY Zenon, <1>0 DEF Worker
  <2> HIDE DEF new
  <2>5. /\ worker' \in [Workers -> Worker] /\ worker'[w] = new
        /\ \A v \in Workers \ {w} : worker'[v] = worker[v]
    BY Zenon, <1>0, <2>1, <2>3
  <2>6. stage = "unposted" /\ stage' = "lost" /\ fate' = "dead" /\ journal' = journal
    BY <1>3 DEF Reject
  <2> USE <1>0, <1>1, <1>3, <2>4, <2>5, <2>6 DEF IInv, Verdicts
  <2>7. ApiTypeOK'
    BY Zenon DEF ApiTypeOK, ContractTypeOK
  <2>8. ContractTrue'
    BY Zenon DEF ContractTrue
  <2>9. SaysTrue'
    BY SMTT(40) DEF SaysTrue, Says, ContractTrue
  <2>10. OnePost'
    BY SMTT(40) DEF OnePost, PostedOnce
  <2>11. YoungWhilePosting'
    BY DEF YoungWhilePosting
  <2> QED BY Zenon, <2>7, <2>8, <2>9, <2>10, <2>11
<1> QED BY Zenon, <1>2, <1>3 DEF PostFails

\* sendStatus brings what the runtime holds at that moment.
LEMMA StatusAnsweredKeeps ==
  ASSUME IInv, NEW w \in Workers, StatusAnswered(w)
  PROVE  IInv'
<1> DEFINE got == CASE stage \in {"unposted", "lost"} -> "not_found"
                    [] stage = "open" -> "pending"
                    [] OTHER -> stage
<1>1. /\ worker[w].call \in 0..(PostTimeout + StatusTimeout)
      /\ worker' = [worker EXCEPT ![w] = [@ EXCEPT !.pc = "answered", !.call = worker[w].call, !.got = got]]
  BY ZenonT(40) DEF StatusAnswered, IInv, ApiTypeOK, Worker
<1>2. \/ got = "not_found"
      \/ got = "pending"
      \/ stage \in Verdicts /\ got = stage
  BY Zenon DEF IInv, ApiTypeOK, ContractTypeOK
<1> HIDE DEF got
<1>3. /\ got \in {"pending", "not_found"} \cup Verdicts
      /\ got = "sent" => fate = "delivered"
      /\ got = "failed" => fate = "dead"
  BY Zenon, <1>2 DEF Verdicts, IInv, ContractTrue
<1>4. row.state # "none"
  BY Zenon DEF StatusAnswered, IInv, OnePost
<1>5. UNCHANGED <<contractVars, row>> /\ worker[w].pc \in {"asking", "answered"}
  BY Zenon DEF StatusAnswered
<1>6. /\ got \in {"pending", "unknown", "not_found"} \cup Verdicts
      /\ got # "unknown"
  BY Zenon, <1>3 DEF Verdicts
<1> QED BY Zenon, <1>1, <1>3, <1>4, <1>5, <1>6, HearsKeeps

\* An event of the journal is true.
LEMMA UpdatesReadKeeps ==
  ASSUME IInv, NEW w \in Pollers, UpdatesRead(w)
  PROVE  IInv'
<1>1. PICK event \in journal :
        worker' = [worker EXCEPT ![w] = [@ EXCEPT !.pc = "recording", !.call = 0, !.got = event]]
  BY ZenonT(40) DEF UpdatesRead
<1>2. /\ event \in {"pending"} \cup Verdicts
      /\ event = "sent" => fate = "delivered"
      /\ event = "failed" => fate = "dead"
  BY Zenon DEF IInv, ApiTypeOK, ContractTypeOK, ContractTrue
<1> QED BY Zenon, <1>1, <1>2, TimeFacts, HearsKeeps DEF UpdatesRead, Workers, Verdicts

\* A poller starts over.
LEMMA NextRequestKeeps ==
  ASSUME IInv, NEW w \in Workers, NextRequest(w)
  PROVE  IInv'
<1> USE TimeFacts DEF IInv, ApiTypeOK, Worker, Verdicts, NextRequest, contractVars
<1>1. ApiTypeOK'
  BY DEF ContractTypeOK, RowStates, NoRow, Row, Ready
<1>2. ContractTrue'
  BY Zenon DEF ContractTrue
<1>3. SaysTrue'
  BY SMTT(40) DEF SaysTrue, Says, ContractTrue, NoRow, Ready
<1>4. OnePost'
  BY SMTT(40) DEF OnePost, PostedOnce, ContractTypeOK, Ready
<1>5. YoungWhilePosting'
  BY DEF YoungWhilePosting, OnePost, PostedOnce, Ready
<1> QED BY Zenon, <1>1, <1>2, <1>3, <1>4, <1>5

\* The runtime moves on: a verdict it has shown stays true.
LEMMA EnvironmentKeeps ==
  ASSUME IInv, Environment
  PROVE  IInv'
<1> USE TimeFacts DEF IInv, ApiTypeOK, Worker, Verdicts, Environment, Decide, Progress, Forget, Settle, apiVars
<1>1. ApiTypeOK'
  <2>1. row' = row /\ worker' = worker
    BY Zenon
  <2>2. ContractTypeOK'
    BY Zenon DEF ContractTypeOK
  <2> QED BY <2>1, <2>2
<1>2. ContractTrue'
  BY Zenon DEF ContractTrue
<1>3. SaysTrue'
  BY DEF SaysTrue, Says, ContractTrue, NoRow, Ready
<1>4. OnePost'
  BY DEF OnePost, PostedOnce, ContractTypeOK, Ready
<1>5. YoungWhilePosting'
  BY DEF YoungWhilePosting, OnePost, PostedOnce, Ready
<1> QED BY Zenon, <1>1, <1>2, <1>3, <1>4, <1>5

\* A tick ages the row, its copies and the calls alike.
LEMMA TickKeeps ==
  ASSUME IInv, Tick
  PROVE  IInv'
<1> DEFINE calling == {w \in Workers : worker[w].pc \in {"posting", "asking", "answered"}}
           older(r) == [r EXCEPT !.age = IF @ < Grace THEN @ + 1 ELSE @]
<1>0. UNCHANGED <<stage, fate, journal>>
  BY Zenon DEF Tick, contractVars
<1>1. ASSUME NEW r \in Row
      PROVE  /\ older(r) \in Row /\ older(r).state = r.state
             /\ older(r).age <= r.age + 1
  BY TimeFacts DEF Row
<1>2. worker' = [w \in Workers |->
                   IF w \in calling
                   THEN [worker[w] EXCEPT !.call = @ + 1,
                                          !.snap = IF @ = NoRow THEN @ ELSE older(@)]
                   ELSE worker[w]]
  BY Zenon DEF Tick
<1>3. row \in Row /\ worker \in [Workers -> Worker] /\ row.age \in Nat
  BY TimeFacts DEF IInv, ApiTypeOK, Row
<1>4. row' \in Row /\ row'.state = row.state /\ row'.age <= row.age + 1 /\ row'.age \in Nat
  <2>1. row' = older(row)
    BY Zenon DEF Tick
  <2>2. row' \in Row /\ row'.state = row.state /\ row'.age <= row.age + 1
    BY Zenon, <1>1, <1>3, <2>1
  <2> QED BY <2>2, TimeFacts DEF Row
<1>5. ASSUME NEW w \in Workers, w \notin calling
      PROVE  worker'[w] = worker[w]
  BY Zenon, <1>2, <1>5
<1>6. ASSUME NEW w \in calling
      PROVE  /\ worker'[w] \in Worker
             /\ worker'[w].pc = worker[w].pc /\ worker'[w].got = worker[w].got
             /\ worker'[w].post = worker[w].post /\ worker'[w].reply = worker[w].reply
             /\ worker[w].pc = "posting" => worker[w].call < PostTimeout
             /\ worker'[w].call = worker[w].call + 1
             /\ worker'[w].snap.state = worker[w].snap.state
             /\ worker'[w].snap.age <= worker[w].snap.age + 1
             /\ worker'[w].snap.age \in Nat
  <2>1. /\ w \in Workers /\ worker[w] \in Worker /\ worker[w].snap \in Row
        /\ worker[w].call \in Nat /\ worker[w].snap.age \in Nat
    BY <1>3, <1>6, TimeFacts DEF Worker, Row
  <2>2. PICK snap \in {worker[w].snap, older(worker[w].snap)} :
          worker'[w] = [worker[w] EXCEPT !.call = @ + 1, !.snap = snap]
    BY Zenon, <1>2, <1>6, <2>1
  <2>3. /\ snap \in Row /\ snap.state = worker[w].snap.state
        /\ snap.age <= worker[w].snap.age + 1 /\ snap.age \in Nat
    BY <1>1, <2>1, <2>2, TimeFacts DEF Row
  <2>4. worker[w].call < IF worker[w].pc = "posting" THEN PostTimeout ELSE StatusTimeout
    BY Zenon, <1>6 DEF Tick
  <2>5. worker[w].call + 1 \in 0..(PostTimeout + StatusTimeout)
    BY SMTT(40), <2>1, <2>4, TimeFacts
  <2>6. PICK call : call = worker[w].call + 1
    BY Zenon
  <2>7. worker'[w] = [worker[w] EXCEPT !.call = call, !.snap = snap]
    BY Zenon, <2>2, <2>6
  <2>8. /\ worker'[w] \in Worker
        /\ worker'[w].pc = worker[w].pc /\ worker'[w].got = worker[w].got
        /\ worker'[w].post = worker[w].post /\ worker'[w].reply = worker[w].reply
        /\ worker'[w].call = call /\ worker'[w].snap = snap
    BY Zenon, <2>1, <2>3, <2>5, <2>6, <2>7 DEF Worker
  <2> QED BY Zenon, <2>3, <2>4, <2>6, <2>8
<1> HIDE DEF older
<1>7. ApiTypeOK'
  <2>1. worker' \in [Workers -> Worker]
    <3>1. \A w \in Workers : worker'[w] \in Worker
      BY <1>3, <1>5, <1>6
    <3> QED BY Zenon, <1>2, <3>1
  <2> QED BY Zenon, <1>0, <1>4, <2>1 DEF IInv, ApiTypeOK, ContractTypeOK
<1>8. ContractTrue'
  BY Zenon, <1>0 DEF IInv, ContractTrue
<1>9. \A w \in Workers :
        /\ worker'[w].pc = worker[w].pc /\ worker'[w].got = worker[w].got
        /\ worker'[w].post = worker[w].post /\ worker'[w].reply = worker[w].reply
        /\ worker'[w].snap.state = worker[w].snap.state
  BY <1>5, <1>6
<1>10. SaysTrue'
  BY SMTT(40), <1>0, <1>4, <1>9 DEF IInv, SaysTrue, Says
<1>11. OnePost'
  BY <1>0, <1>4, <1>9 DEF IInv, OnePost, PostedOnce
<1>12. YoungWhilePosting'
  <2>1. ASSUME NEW w \in Workers, worker'[w].pc = "posting"
        PROVE  /\ w \in calling /\ worker[w].pc = "posting" /\ worker[w].call \in Nat
               /\ worker'[w].call = worker[w].call + 1 /\ worker[w].call < PostTimeout
    BY SMTT(40), <1>3, <1>6, <1>9, <2>1, TimeFacts DEF Worker
  <2>2. ASSUME NEW w \in Workers, worker'[w].pc = "posting"
        PROVE  /\ worker'[w].call <= PostTimeout /\ row'.state # "unknown"
               /\ row'.age <= worker'[w].call /\ worker'[w].got # "unknown"
    BY SMTT(40), <1>3, <1>4, <1>9, <2>1, <2>2, TimeFacts DEF IInv, YoungWhilePosting
  <2>3. ASSUME NEW w \in Workers, worker'[w].pc = "posting",
               NEW v \in Workers, worker'[v].pc \in {"asking", "answered"}
        PROVE  /\ worker'[v].snap.age <= worker'[w].call
               /\ worker'[v].snap.state # "unknown"
    <3>1. v \in calling /\ worker[v].snap.age \in Nat
      BY SMTT(40), <1>3, <1>9, <2>3, TimeFacts DEF Worker, Row
    <3>2. worker[v].snap.age <= worker[w].call /\ worker[v].snap.state # "unknown"
      BY SMTT(40), <1>9, <2>1, <2>3 DEF IInv, YoungWhilePosting
    <3>3. /\ worker'[v].snap.age <= worker[v].snap.age + 1 /\ worker'[v].snap.age \in Nat
          /\ worker'[v].snap.state = worker[v].snap.state
      BY <1>6, <3>1
    <3> QED BY SMTT(40), <2>1, <2>3, <3>1, <3>2, <3>3
  <2> QED BY Zenon, <2>2, <2>3 DEF YoungWhilePosting
<1> QED BY Zenon, <1>7, <1>8, <1>10, <1>11, <1>12 DEF IInv

-----------------------------------------------------------------------------
\* The initial states: no row, no operation, idle workers.
LEMMA InitIInv == Init => IInv
<1> SUFFICES ASSUME Init PROVE IInv
  BY Zenon
<1> USE TimeFacts DEF Init, ContractInit, NoRow, Ready, Verdicts
<1>1. ApiTypeOK
  BY DEF ApiTypeOK, ContractTypeOK, Row, Worker
<1>2. ContractTrue
  BY Zenon DEF ContractTrue
<1>3. SaysTrue
  BY Zenon DEF SaysTrue, Says
<1>4. OnePost
  BY Zenon DEF OnePost, PostedOnce
<1>5. YoungWhilePosting
  BY DEF YoungWhilePosting
<1> QED BY Zenon, <1>1, <1>2, <1>3, <1>4, <1>5 DEF IInv

\* Every step of the specification keeps the invariant.
LEMMA NextIInv == IInv /\ [Next]_vars => IInv'
<1> SUFFICES ASSUME IInv, [Next]_vars PROVE IInv'
  BY Zenon
<1>1. ASSUME NEW w \in Posters, NEW text \in Texts, SendRequest(w, text) PROVE IInv'
  BY Zenon, <1>1, SendRequestKeeps
<1>2. ASSUME NEW w \in Pollers, StatusRequest(w) \/ UpdatesRead(w) PROVE IInv'
  BY <1>2, StatusRequestKeeps, UpdatesReadKeeps
<1>3. ASSUME NEW w \in Workers, Steps(w) PROVE IInv'
  BY Zenon, <1>3, RuntimeTakesKeeps, PostAnsweredKeeps, PostFailsKeeps, StatusAnsweredKeeps,
     StatusFailsKeeps, StatusAppliedKeeps, RecordKeeps, WorkerDiesKeeps, NextRequestKeeps
     DEF Steps
<1>4. CASE Environment
  BY <1>4, EnvironmentKeeps
<1>5. CASE Tick
  BY SMTT(40), <1>5, TickKeeps
<1>6. CASE UNCHANGED vars
  BY <1>6 DEF vars, contractVars, apiVars, IInv, ApiTypeOK, ContractTypeOK, ContractTrue, SaysTrue,
     Says, OnePost, PostedOnce, YoungWhilePosting
<1> QED BY Zenon, <1>1, <1>2, <1>3, <1>4, <1>5, <1>6 DEF Next

\* The invariant holds throughout.
THEOREM Invariant == Spec => []IInv
BY InitIInv, NextIInv, PTL DEF Spec

\* The row, the workers and the operation have their types.
THEOREM TypeCorrect == Spec => []ApiTypeOK
<1>1. IInv => ApiTypeOK
  BY Zenon DEF IInv
<1> QED BY <1>1, Invariant, PTL

\* Neither the row nor an answer calls a message failed that was or may yet be
\* delivered, nor sent one that was not, whatever the workers, the runtime and
\* the connections do.
THEOREM Truth == Spec => []RowTruthful
<1>1. IInv => RowTruthful
  BY Zenon DEF IInv, SaysTrue, Says, RowTruthful
<1> QED BY <1>1, Invariant, PTL

\* At most one worker ever posts the operation.
THEOREM Once == Spec => []PostedOnce
<1>1. IInv => PostedOnce
  BY Zenon DEF IInv, OnePost
<1> QED BY <1>1, Invariant, PTL

\* No status request declares the outcome unknown while the POST is under way.
THEOREM GraceOutlastsPost == Spec => []UnknownAfterPost
<1>1. IInv => UnknownAfterPost
  BY Zenon DEF IInv, YoungWhilePosting, UnknownAfterPost, Workers
<1> QED BY <1>1, Invariant, PTL

\* The steps that change a row only move it forward.
LEMMA RecordedForward ==
  ASSUME IInv, row.state # "none", NEW s \in RowStates \ {"dispatching"}, row' = Recorded(s)
  PROVE  RowStep
<1>1. CASE row' = row
  BY Zenon, <1>1 DEF RowStep, Verdicts
<1>2. CASE row' # row
  <2>1. /\ row' = [row EXCEPT !.state = s, !.age = 0] /\ row.state \notin Verdicts
        /\ row.state = "unknown" => s \in Verdicts
    BY Zenon, <1>2 DEF Recorded
  <2> QED BY Zenon, <2>1 DEF RowStep, IInv, ApiTypeOK, Row
<1> QED BY Zenon, <1>1, <1>2

\* The row moves forward only, under any interleaving of workers that read it
\* earlier and record what they heard later.
THEOREM Forward == Spec => RowForward
<1>1. ASSUME IInv, [Next]_vars
      PROVE  [RowStep]_vars
  <2>1. CASE UNCHANGED row
    BY Zenon, <2>1 DEF RowStep, Verdicts
  <2>2. ASSUME NEW w \in Posters, NEW text \in Texts, SendRequest(w, text), row' # row
        PROVE  RowStep
    BY Zenon, <2>2 DEF SendRequest, NeedsDispatch, RowStep, Verdicts
  <2>3. ASSUME NEW w \in Workers, StatusApplied(w), row' # row
        PROVE  RowStep
    <3>1. row.state # "none" /\ row' = Recorded(Outcome(worker[w].got))
      BY Zenon, <1>1, <2>3 DEF StatusApplied, IInv, OnePost
    <3>2. Outcome(worker[w].got) \in RowStates \ {"dispatching"}
      BY DEF Outcome, RowStates, Verdicts
    <3> QED BY <1>1, <3>1, <3>2, RecordedForward
  <2>4. ASSUME NEW w \in Workers, Record(w)
        PROVE  RowStep
    <3>1. row.state # "none" /\ row' = Recorded(Outcome(worker[w].got))
      BY Zenon, <1>1, <2>4 DEF Record, IInv, OnePost
    <3>2. Outcome(worker[w].got) \in RowStates \ {"dispatching"}
      BY Zenon DEF Outcome, RowStates, Verdicts
    <3> QED BY Zenon, <1>1, <3>1, <3>2, RecordedForward
  <2>5. ASSUME Tick
        PROVE  RowStep
    BY Zenon, <1>1, <2>5 DEF Tick, RowStep, IInv, ApiTypeOK, Row, Verdicts
  <2> QED BY Zenon, <1>1, <2>1, <2>2, <2>3, <2>4, <2>5
          DEF Next, Steps, vars, apiVars, Environment, StatusRequest, UpdatesRead, RuntimeTakes,
              PostAnswered, PostFails, StatusAnswered, StatusFails, WorkerDies, NextRequest
<1> QED BY <1>1, Invariant, PTL DEF Spec, RowForward

=============================================================================
