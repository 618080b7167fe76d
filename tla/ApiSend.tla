------------------------------ MODULE ApiSend ------------------------------
(***************************************************************************)
(* backend-api: the message_sends row of one idempotency key, and the PHP  *)
(* workers that create, refresh and observe it (MessageSendService.php,    *)
(* MessageSendRepository.php, TdlibGateway.php, TelegramReadService.php).  *)
(* The runtime behind the gateway is SendContract, which TdSend implements.*)
(*                                                                         *)
(* A worker serves one HTTP request at a time.  Database transactions are  *)
(* atomic; between them, and during a call of the runtime, the other       *)
(* workers run, the runtime moves on, and the worker may die.  Time passes *)
(* in ticks of five seconds, because refresh compares the age of the       *)
(* row with a grace period that must outlast the POST of the runtime.      *)
(***************************************************************************)
EXTENDS SendContract

CONSTANTS Posters,        \* workers that serve POST .../messages, once each
          Pollers,        \* workers that serve status and update requests, repeatedly
          Texts,          \* request bodies (chat, reply and text) under the key
          PostTimeout,    \* ticks the gateway waits for sendMessage
          StatusTimeout,  \* ticks it waits for sendStatus
          Grace           \* NOT_FOUND_GRACE_SECONDS, in ticks

ASSUME WorkerAssumption == Posters \cap Pollers = {}
ASSUME TimeAssumption == /\ {PostTimeout, StatusTimeout, Grace} \subseteq Nat \ {0}
                         /\ PostTimeout < Grace

VARIABLES
  row,      \* the message_sends row of the key
  worker    \* what each worker is doing

apiVars == <<row, worker>>
vars == <<contractVars, apiVars>>

Workers == Posters \cup Pollers
RowStates == {"dispatching", "pending", "unknown"} \cup Verdicts

\* A row; "age" counts the ticks since updated_at, up to the grace period.
Row == [state : RowStates \cup {"none"}, text : Texts \cup {"none"}, age : 0..Grace]
NoRow == [state |-> "none", text |-> "none", age |-> 0]

\* A worker: its step, the row as it read it, the age of its call, what the
\* call or the event brought, whether its POST is queued at the runtime or
\* was taken on, and the answer to its client.
Worker == [pc : {"idle", "posting", "asking", "answered", "recording", "done"},
           snap : Row, call : 0..(PostTimeout + StatusTimeout),
           got : RowStates \cup {"none", "not_found"},
           post : {"none", "queued", "taken", "refused"},
           reply : RowStates \cup {"none", "error"}]
Ready == [pc |-> "idle", snap |-> NoRow, call |-> 0, got |-> "none", post |-> "none",
          reply |-> "none"]

ApiTypeOK == /\ ContractTypeOK
             /\ row \in Row
             /\ worker \in [Workers -> Worker]

Init == /\ ContractInit
        /\ row = NoRow
        /\ worker = [w \in Workers |-> Ready]

-----------------------------------------------------------------------------
Answer(w, state) == worker' = [worker EXCEPT ![w] =
  [pc |-> "done", snap |-> NoRow, call |-> 0, got |-> "none", post |-> worker[w].post,
   reply |-> state]]

\* Mutants of Recorded: the last writer wins; unknown is taken for settled.
RecordedLast(state) == IF row.state = state THEN row ELSE [row EXCEPT !.state = state, !.age = 0]
RecordedOnce(state) == IF row.state \in {"unknown"} \cup Verdicts \/ row.state = state THEN row
                       ELSE [row EXCEPT !.state = state, !.age = 0]

\* record: a settled row stays, an unknown one only becomes settled; saving a
\* row that does not change leaves updated_at alone.
Recorded(state) ==
  IF \/ row.state \in Verdicts
     \/ row.state = "unknown" /\ state \notin Verdicts
     \/ row.state = state
  THEN row
  ELSE [row EXCEPT !.state = state, !.age = 0]

\* The start of refresh: a settled row answers, any other asks the runtime.
Refresh(w) == IF row.state \in Verdicts
              THEN Answer(w, row.state)
              ELSE worker' = [worker EXCEPT ![w].pc = "asking", ![w].snap = row, ![w].call = 0]

\* Mutant of NeedsDispatch: an unknown outcome is dispatched again.
NeedsDispatchAgain(w) == row.state \in {"none", "unknown"}
NeedsDispatch(w) == row.state = "none"

\* send: the account is not sendable, or the claim creates the row, finds it
\* with another request body, or finds it and refreshes it.
SendRequest(w, text) ==
  /\ worker[w].pc = "idle"
  /\ \/ Answer(w, "error") /\ UNCHANGED row
     \/ /\ NeedsDispatch(w)
        /\ row' = [state |-> "dispatching", text |-> text, age |-> 0]
        /\ worker' = [worker EXCEPT ![w].pc = "posting", ![w].post = "queued", ![w].call = 0]
     \/ /\ ~NeedsDispatch(w)
        /\ IF row.text # text THEN Answer(w, "error") ELSE Refresh(w)
        /\ UNCHANGED row
  /\ UNCHANGED contractVars

\* The runtime takes the POST on or refuses it, perhaps after the worker has
\* given up waiting.
RuntimeTakes(w) ==
  /\ worker[w].post = "queued"
  /\ \/ Accept /\ worker' = [worker EXCEPT ![w].post = "taken"]
     \/ Reject /\ worker' = [worker EXCEPT ![w].post = "refused"]
  /\ UNCHANGED row

\* The POST is answered: outcome() and failure() turn it into a row state.
PostAnswered(w) ==
  /\ worker[w].pc = "posting"
  /\ worker[w].post \in {"taken", "refused"}
  /\ worker' = [worker EXCEPT ![w].pc = "recording", ![w].call = 0,
                  ![w].got = CASE worker[w].post = "refused" -> "failed"
                               [] worker[w].post = "taken" /\ stage = "lost" -> "unknown"
                               [] worker[w].post = "taken" /\ stage = "open" -> "pending"
                               [] OTHER -> stage]
  /\ UNCHANGED <<contractVars, row>>

\* Mutant: every failed connection counts as never made.
PostUnreached(w) ==
  /\ worker[w].pc = "posting"
  /\ worker' = [worker EXCEPT ![w].pc = "recording", ![w].call = 0, ![w].got = "failed"]
  /\ UNCHANGED <<contractVars, row>>

\* The connection fails.  When it was never made the POST did not happen and
\* the send has failed; otherwise nobody knows.
PostFails(w) ==
  /\ worker[w].pc = "posting"
  /\ \/ /\ worker[w].post = "queued"
        /\ Reject
        /\ worker' = [worker EXCEPT ![w].pc = "recording", ![w].post = "refused",
                                          ![w].got = "failed"]
     \/ /\ worker' = [worker EXCEPT ![w].pc = "recording", ![w].call = 0, ![w].got = "unknown"]
        /\ UNCHANGED contractVars
  /\ UNCHANGED row

\* status: the row of the operation is refreshed.
StatusRequest(w) ==
  /\ worker[w].pc = "idle"
  /\ row.state # "none"
  /\ Refresh(w)
  /\ UNCHANGED <<contractVars, row>>

\* The runtime answers sendStatus with what it finds at this moment.
StatusAnswered(w) ==
  /\ worker[w].pc = "asking"
  /\ worker' = [worker EXCEPT ![w].pc = "answered",
                  ![w].got = CASE stage \in {"unposted", "lost"} -> "not_found"
                               [] stage = "open" -> "pending"
                               [] OTHER -> stage]
  /\ UNCHANGED <<contractVars, row>>

\* sendStatus fails: the row is answered as it was read.
StatusFails(w) ==
  /\ worker[w].pc \in {"asking", "answered"}
  /\ Answer(w, worker[w].snap.state)
  /\ UNCHANGED <<contractVars, row>>

\* Mutants: no grace period; one that does not end.
GraceNever(w) == FALSE
GraceForever(w) == TRUE
\* The age of the row as it was read, not as it is now.
InGrace(w) == worker[w].snap.age < Grace

\* outcome: a state that is none of the known ones counts as unknown.
Outcome(state) == IF state \in {"pending", "unknown"} \cup Verdicts THEN state ELSE "unknown"

\* The rest of refresh: a forgotten operation becomes unknown after the grace
\* period, anything else is recorded.
StatusApplied(w) ==
  /\ worker[w].pc = "answered"
  /\ IF worker[w].got = "not_found" /\ (worker[w].snap.state = "unknown" \/ InGrace(w))
     THEN Answer(w, worker[w].snap.state) /\ UNCHANGED row
     ELSE row' = Recorded(Outcome(worker[w].got)) /\ Answer(w, row'.state)
  /\ UNCHANGED contractVars

\* updates: an event of the journal, read now and recorded later.
UpdatesRead(w) ==
  /\ worker[w].pc = "idle"
  /\ row.state # "none"
  /\ \E event \in journal :
       worker' = [worker EXCEPT ![w].pc = "recording", ![w].call = 0, ![w].got = event]
  /\ UNCHANGED <<contractVars, row>>

\* record, at the end of a POST and for an observed event.
Record(w) ==
  /\ worker[w].pc = "recording"
  /\ row' = Recorded(Outcome(worker[w].got))
  /\ Answer(w, row'.state)
  /\ UNCHANGED contractVars

\* The worker dies, or the client's connection is lost.
WorkerDies(w) ==
  /\ worker[w].pc \notin {"idle", "done"}
  /\ Answer(w, "none")
  /\ UNCHANGED <<contractVars, row>>

\* A poller takes its next request.
NextRequest(w) ==
  /\ w \in Pollers
  /\ worker[w].pc = "done"
  /\ worker' = [worker EXCEPT ![w] = Ready]
  /\ UNCHANGED <<contractVars, row>>

\* A tick, unless a call has reached its timeout.
Tick ==
  LET calling == {w \in Workers : worker[w].pc \in {"posting", "asking", "answered"}}
      older(r) == [r EXCEPT !.age = IF @ < Grace THEN @ + 1 ELSE @]
  IN /\ \A w \in calling :
          worker[w].call < IF worker[w].pc = "posting" THEN PostTimeout ELSE StatusTimeout
     /\ row.state # "none"
     /\ row' = older(row)
     /\ worker' = [w \in Workers |->
                     IF w \in calling
                     THEN [worker[w] EXCEPT !.call = @ + 1,
                                            !.snap = IF @ = NoRow THEN @ ELSE older(@)]
                     ELSE worker[w]]
     /\ UNCHANGED contractVars

Environment == /\ \/ Decide \/ Progress \/ Forget
                  \/ \E verdict \in Verdicts : Settle(verdict)
               /\ UNCHANGED apiVars

Steps(w) == \/ RuntimeTakes(w) \/ PostAnswered(w) \/ PostFails(w)
            \/ StatusAnswered(w) \/ StatusFails(w) \/ StatusApplied(w)
            \/ Record(w) \/ WorkerDies(w) \/ NextRequest(w)

Next == \/ \E w \in Posters, text \in Texts : SendRequest(w, text)
        \/ \E w \in Pollers : StatusRequest(w) \/ UpdatesRead(w)
        \/ \E w \in Workers : Steps(w)
        \/ Environment
        \/ Tick

Spec == Init /\ [][Next]_vars

(***************************************************************************)
(* Fairness: workers finish, the client keeps asking for the status and    *)
(* gets an answer infinitely often, the runtime takes what was posted, and *)
(* an operation it holds is settled or forgotten at last.                  *)
(***************************************************************************)
Fairness ==
  /\ \A w \in Workers : /\ WF_vars(RuntimeTakes(w))
                        /\ WF_vars(PostAnswered(w) \/ PostFails(w) \/ StatusFails(w) \/ Record(w))
                        /\ WF_vars(NextRequest(w))
  /\ \A w \in Pollers : /\ SF_vars(StatusRequest(w))
                        /\ SF_vars(StatusAnswered(w))
                        /\ SF_vars(StatusApplied(w))
  /\ SF_vars(Tick)
  /\ WF_vars(Environment /\ stage = "open" /\ stage' # "open")

FairSpec == Spec /\ Fairness

-----------------------------------------------------------------------------
\* The row never says "failed" of a message that was or may yet be delivered,
\* nor "sent" of one that was not; neither does any answer to a client.
RowTruthful ==
  LET says(state) == row.state = state \/ \E w \in Workers : worker[w].reply = state
  IN /\ says("failed") => fate = "dead"
     /\ says("sent") => fate = "delivered"

\* Whatever races for the key, the runtime is asked to send once.
PostedOnce ==
  \A v, w \in Workers : worker[v].post # "none" /\ worker[w].post # "none" => v = w

\* The row moves forward only: a verdict stays, "unknown" gives way to a verdict
\* only, and nothing goes back to "dispatching".
RowStep == /\ row.state \in Verdicts => row'.state = row.state
           /\ row.state = "unknown" => row'.state \in {"unknown"} \cup Verdicts
           /\ row.state \notin {"none", "dispatching"} => row'.state # "dispatching"
           /\ row.state # "none" => row'.text = row.text
RowForward == [][RowStep]_vars

\* Concurrent status requests do not declare the outcome unknown while the
\* POST that will bring it is under way: the grace period outlasts the call.
UnknownAfterPost ==
  row.state = "unknown" => \A w \in Posters : worker[w].pc # "posting"

\* A pending row whose operation the runtime does not find turns unknown only
\* after a grace period without news of it.
PendingKeepsGrace ==
  [][\A w \in Workers : /\ worker[w].pc = "answered" /\ worker'[w].pc = "done"
                         /\ row.state = "pending" /\ row'.state = "unknown"
                         => row.age = Grace]_vars

\* A client that keeps asking is told: the row does not stay in flight, and a
\* verdict the runtime keeps is recorded.
RowSettles == row.state = "dispatching" ~> row.state \in {"unknown"} \cup Verdicts
VerdictIsLearned == <>[](stage \in Verdicts) => <>(row.state \in Verdicts)
=============================================================================
