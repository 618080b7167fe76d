--------------------------- MODULE InterestLeases ---------------------------
(***************************************************************************)
(* The chats that backend-tdlib keeps open in TDLib because somebody reads *)
(* them: InterestLeaseManager (interest_lease_manager.cpp).                *)
(*                                                                         *)
(* HTTP handlers (callers) take, renew and drop leases under the runtime   *)
(* mutex and may then wait for the effect.  One worker thread compares the *)
(* leases with the phase of each chat, sends one openChat or closeChat at  *)
(* a time without the mutex, and applies what comes back.  The session of  *)
(* an account may be cleared or end in between.  TDLib is external: it     *)
(* executes the requests of a chat in the order they were sent, also those *)
(* whose sender has stopped waiting.                                       *)
(***************************************************************************)
EXTENDS Naturals, Sequences, FiniteSets

CONSTANTS N,               \* accounts 1..N, in the order of their uuid
          Chats,           \* chat ids, numbers in the order of the map
          AccountOf,       \* the account a chat belongs to
          Keys,            \* lease keys
          ChatOf,          \* the chat in a lease key
          PrincipalOf,     \* the principal in a lease key
          Callers,         \* HTTP handlers that set an interest
          LeaseLimit,      \* leases per account (20)
          PrincipalLimit,  \* leases per account and principal (4)
          CloseLimit,      \* refused closeChat requests before giving up (3)
          MaxTransitions,  \* bound: transitions of a chat explored while callers compare them
          BrokerFull,      \* bound: {TRUE, FALSE}, or {FALSE} for a broker with room
          Unstable,        \* bound: accounts whose session is disturbed
          MaxSessions,     \* bound: sessions of an account explored
          MaxQueue         \* bound: requests of a chat TDLib has not executed

Accounts == 1..N

ASSUME LeaseAssumption == /\ N \in Nat
                          /\ Chats \subseteq Nat
                          /\ AccountOf \in [Chats -> Accounts]
                          /\ ChatOf \in [Keys -> Chats]
                          /\ IsFiniteSet(Keys)
                          /\ Unstable \subseteq Accounts
                          /\ BrokerFull \subseteq BOOLEAN
                          /\ {LeaseLimit, PrincipalLimit, MaxTransitions, MaxSessions, MaxQueue} \subseteq Nat
                          /\ CloseLimit \in Nat \ {0}

VARIABLES
  lease,     \* account.interests: held, or due once 90 seconds have passed
  counts,    \* account.interest_counts, 0 for a chat without entry
  states,    \* account.interest_states
  rotation,  \* rotation_cursor_, 0 before the first transition
  account,   \* what the lifecycle allows
  session,   \* runtime_epoch and client_id, as a number
  worker,    \* the transition under way
  caller,    \* the HTTP handlers
  open,      \* TDLib: the chat is open
  queue,     \* TDLib: requests for the chat it has not executed
  dropped    \* chats that may be open and that nobody tracks any more (history)

tables == <<lease, counts, states>>
tdVars == <<open, queue>>
vars == <<tables, rotation, account, session, worker, caller, tdVars, dropped>>

Principals == {PrincipalOf[k] : k \in Keys}
KeysOf(c) == {k \in Keys : ChatOf[k] = c}
AccountKeys(a) == {k \in Keys : AccountOf[ChatOf[k]] = a}

\* InterestChatState; "cooling" until retry_at.
State == [phase : {"untracked", "closed", "opening", "open", "closing"},
          transition : Nat, failed : Nat, unknown : Nat, closeFailures : Nat,
          cooling : BOOLEAN]
Untracked == [phase |-> "untracked", transition |-> 0, failed |-> 0, unknown |-> 0,
              closeFailures |-> 0, cooling |-> FALSE]
Fresh == [phase |-> "closed", transition |-> 0, failed |-> 0, unknown |-> 0,
          closeFailures |-> 0, cooling |-> FALSE]

Resting == [busy |-> FALSE, chat |-> 0, number |-> 0, opening |-> FALSE, session |-> 0,
            answer |-> "none"]
Worker == [busy : {TRUE}, chat : Chats, number : Nat \ {0}, opening : BOOLEAN, session : Nat,
           answer : {"none", "ok", "error"}]

\* A handler: what it asked for, the counters it compares with, and its answer;
\* "restarted" once the state it waits on was forgotten (history).
Caller == [waiting : BOOLEAN, key : Keys, active : BOOLEAN, failed : Nat, unknown : Nat,
           session : Nat, restarted : BOOLEAN,
           reply : {"none", "not_found", "limit", "active", "inactive",
                    "invalid_state", "failed", "unknown", "busy"}]

TypeOK == /\ lease \in [Keys -> {"none", "held", "due"}]
          /\ counts \in [Chats -> Nat]
          /\ states \in [Chats -> State]
          /\ rotation \in 0..N
          /\ account \in [Accounts -> {"active", "suspended", "ended"}]
          /\ session \in [Accounts -> Nat]
          /\ worker \in Worker \cup {Resting}
          /\ caller \in [Callers -> Caller]
          /\ open \in [Chats -> BOOLEAN]
          /\ queue \in [Chats -> Seq({"open", "close"})]
          /\ dropped \subseteq Chats

Init == /\ lease = [k \in Keys |-> "none"]
        /\ counts = [c \in Chats |-> 0]
        /\ states = [c \in Chats |-> Untracked]
        /\ rotation = 0
        /\ account = [a \in Accounts |-> "active"]
        /\ session = [a \in Accounts |-> 0]
        /\ worker = Resting
        /\ LET k == CHOOSE key \in Keys : TRUE IN
             caller = [r \in Callers |-> [waiting |-> FALSE, key |-> k, active |-> FALSE, failed |-> 0,
                                          unknown |-> 0, session |-> 0, restarted |-> FALSE,
                                          reply |-> "none"]]
        /\ open = [c \in Chats |-> FALSE]
        /\ queue = [c \in Chats |-> <<>>]
        /\ dropped = {}

-----------------------------------------------------------------------------
(***************************************************************************)
(* Leases and counts.                                                      *)
(***************************************************************************)
\* TDLib has the chat open, or an openChat is on its way.
MaybeOpen(c) == open[c] \/ \E i \in DOMAIN queue[c] : queue[c][i] = "open"

\* release_count, for every lease of ks.
Released(ks) == [c \in Chats |-> LET n == Cardinality(ks \cap KeysOf(c))
                                 IN IF counts[c] > n THEN counts[c] - n ELSE 0]
Without(ks) == [k \in Keys |-> IF k \in ks THEN "none" ELSE lease[k]]

\* expire_leases, for a set of accounts.
Expired(as) == {k \in Keys : lease[k] = "due" /\ AccountOf[ChatOf[k]] \in as}

\* The limits on a new lease.
Admitted(k, held) ==
  LET mine == {j \in Keys : held[j] # "none" /\ AccountOf[ChatOf[j]] = AccountOf[ChatOf[k]]}
  IN /\ Cardinality(mine) < LeaseLimit
     /\ Cardinality({j \in mine : PrincipalOf[j] = PrincipalOf[k]}) < PrincipalLimit

Reply(r, k, active, answer) ==
  caller' = [caller EXCEPT ![r] = [waiting |-> FALSE, key |-> k, active |-> active, failed |-> 0,
                                   unknown |-> 0, session |-> 0, restarted |-> FALSE,
                                   reply |-> answer]]
Await(r, k, active) ==
  LET c == ChatOf[k] IN
  caller' = [caller EXCEPT ![r] = [waiting |-> TRUE, key |-> k, active |-> active,
                                   failed |-> states'[c].failed, unknown |-> states'[c].unknown,
                                   session |-> session[AccountOf[c]], restarted |-> FALSE,
                                   reply |-> "none"]]

\* The first half of set_interest(active): due leases go; a lease within the
\* limits is taken or renewed, and its chat tracked.
Refused(k) == LET kept == Without(Expired({AccountOf[ChatOf[k]]}))
              IN kept[k] = "none" /\ ~Admitted(k, kept)
Grant(k) ==
  LET c == ChatOf[k]
      gone == Expired({AccountOf[c]})
      kept == Without(gone)
  IN IF Refused(k)
     THEN lease' = kept /\ counts' = Released(gone) /\ UNCHANGED states
     ELSE /\ lease' = [kept EXCEPT ![k] = "held"]
          /\ counts' = [Released(gone) EXCEPT ![c] = IF kept[k] = "none" THEN @ + 1 ELSE @]
          /\ states' = [states EXCEPT ![c] = IF @ = Untracked THEN Fresh ELSE @]

\* A read of the chat takes a lease and waits for nothing.
ReadInterest(k) ==
  /\ account[AccountOf[ChatOf[k]]] = "active"
  /\ Grant(k)
  /\ UNCHANGED <<rotation, account, session, worker, caller, tdVars, dropped>>

\* A PUT waits for the chat to open.
TakeInterest(r, k) ==
  /\ ~caller[r].waiting
  /\ IF account[AccountOf[ChatOf[k]]] # "active"
     THEN Reply(r, k, TRUE, "not_found") /\ UNCHANGED tables
     ELSE /\ Grant(k)
          /\ IF Refused(k) THEN Reply(r, k, TRUE, "limit")
             ELSE IF states'[ChatOf[k]].phase = "open" THEN Reply(r, k, TRUE, "active")
             ELSE Await(r, k, TRUE)
  /\ UNCHANGED <<rotation, account, session, worker, tdVars, dropped>>

\* History: the state that a caller waits on is gone.
Forgotten ==
  caller' = [r \in Callers |->
    IF caller[r].waiting /\ states'[ChatOf[caller[r].key]] = Untracked
    THEN [caller[r] EXCEPT !.restarted = TRUE] ELSE caller[r]]

\* set_interest(inactive): the lease is dropped; the caller waits for the chat
\* to close unless somebody else wants it open.
DropInterest(r, k) ==
  LET c == ChatOf[k]
      gone == Expired({AccountOf[c]}) \cup {k}
      counted == {j \in gone : lease[j] # "none"}
  IN
  /\ ~caller[r].waiting
  /\ IF account[AccountOf[c]] # "active"
     THEN Reply(r, k, FALSE, "not_found") /\ UNCHANGED tables
     ELSE /\ lease' = Without(gone)
          /\ counts' = Released(counted)
          /\ UNCHANGED states
          /\ IF states[c].phase \in {"untracked", "closed"} \/ counts'[c] > 0
             THEN Reply(r, k, FALSE, "inactive")
             ELSE Await(r, k, FALSE)
  /\ UNCHANGED <<rotation, account, session, worker, tdVars, dropped>>

\* release_interests: the token of a principal was revoked.
ReleaseInterests(p) ==
  LET gone == {k \in Keys : PrincipalOf[k] = p /\ lease[k] # "none"} IN
  /\ lease' = Without(gone)
  /\ counts' = Released(gone)
  /\ UNCHANGED <<states, rotation, account, session, worker, caller, tdVars, dropped>>

-----------------------------------------------------------------------------
(***************************************************************************)
(* The worker.                                                             *)
(***************************************************************************)
\* Mutant: a due lease keeps its count.
SweptCountsKept(as) == counts
\* What the first half of run_once makes of the accounts it visits: a wanted
\* chat without state counts as open, due leases go, settled chats are
\* forgotten.
SweptCounts(as) == Released(Expired(as))
SweptState(c, as) ==
  LET filled == IF counts[c] > 0 /\ states[c] = Untracked THEN [Fresh EXCEPT !.phase = "open"]
                ELSE states[c]
  IN IF AccountOf[c] \notin as THEN states[c]
     ELSE IF filled.phase = "closed" /\ SweptCounts(as)[c] = 0 THEN Untracked
     ELSE filled

\* A chat whose phase is not the wanted one, and that is not cooling down.
Due(c) ==
  LET state == SweptState(c, Accounts)
      wanted == SweptCounts(Accounts)[c] > 0
  IN /\ account[AccountOf[c]] = "active"
     /\ \/ wanted /\ state.phase = "closed"
        \/ ~wanted /\ state.phase = "open"
     /\ ~state.cooling

\* The place of an account in the order that starts after the cursor.
Turn(a) == IF a > rotation THEN a - rotation ELSE N + a - rotation
Before(c, d) == \/ Turn(AccountOf[c]) < Turn(AccountOf[d])
                \/ AccountOf[c] = AccountOf[d] /\ c < d

\* Mutant: the cursor is never moved.
CursorStuck(c) == rotation
Cursor(c) == AccountOf[c]

\* The accounts visited up to the one of c.
Visited(c) == {a \in Accounts : Turn(a) <= Turn(AccountOf[c])}

Sweep(as) == /\ lease' = Without(Expired(as))
             /\ counts' = SweptCounts(as)

\* ++state.transition, bounded in the model and not in the code's 64 bits; without
\* callers nobody compares numbers and they may saturate.
Numbered(n) == IF n < MaxTransitions THEN n + 1 ELSE n
MayNumber(c) == Callers = {} \/ states[c].transition < MaxTransitions

\* run_once, first half: the next chat in need of a transition is chosen and
\* its request sent, or refused at once by a full broker.
Select(c) ==
  LET state == SweptState(c, Accounts)
      opening == state.phase = "closed"
      number == Numbered(state.transition)
  IN
  /\ ~worker.busy
  /\ Due(c)
  /\ \A d \in Chats : Due(d) => ~Before(d, c)
  /\ MayNumber(c)
  /\ Len(queue[c]) < MaxQueue
  /\ Sweep(Visited(c))
  /\ states' = [d \in Chats |->
       IF d = c THEN [state EXCEPT !.phase = IF opening THEN "opening" ELSE "closing",
                                   !.transition = number]
       ELSE SweptState(d, Visited(c))]
  /\ rotation' = Cursor(c)
  /\ \E busy \in BrokerFull :
       /\ worker' = [busy |-> TRUE, chat |-> c, number |-> number, opening |-> opening,
                     session |-> session[AccountOf[c]],
                     answer |-> IF busy THEN "error" ELSE "none"]
       /\ queue' = IF busy THEN queue
                   ELSE [queue EXCEPT ![c] = Append(@, IF opening THEN "open" ELSE "close")]
  /\ Forgotten
  /\ UNCHANGED <<account, session, open, dropped>>

\* run_once, when no chat needs a transition.
Idle ==
  /\ ~worker.busy
  /\ \A c \in Chats : ~Due(c)
  /\ Sweep(Accounts)
  /\ states' = [c \in Chats |-> SweptState(c, Accounts)]
  /\ Forgotten
  /\ UNCHANGED <<rotation, account, session, worker, tdVars, dropped>>

\* The result still belongs to the state it was sent for.
Current(c) == /\ account[AccountOf[c]] = "active"
              /\ session[AccountOf[c]] = worker.session
              /\ states[c] # Untracked
              /\ states[c].transition = worker.number

\* The state after the outcome of the transition under way.
Succeeded(s) == [s EXCEPT !.phase = IF worker.opening THEN "open" ELSE "closed",
                          !.closeFailures = 0]
\* Mutant: a request without answer counts as not done.
UndecidedClosed(s) == [s EXCEPT !.phase = "closed", !.unknown = worker.number, !.cooling = TRUE]
Undecided(s) == [s EXCEPT !.phase = "open", !.unknown = worker.number, !.cooling = TRUE]
OpenRefused(s) == [s EXCEPT !.phase = "closed", !.failed = worker.number, !.cooling = TRUE]
CloseRefused(s) == [s EXCEPT !.phase = IF s.closeFailures + 1 >= CloseLimit THEN "closed" ELSE "open",
                             !.failed = worker.number, !.cooling = TRUE,
                             !.closeFailures = IF @ < CloseLimit THEN @ + 1 ELSE @]

\* run_once, second half: the answer, or none within three seconds, is applied.
Apply(outcome) ==
  LET c == worker.chat
      refused == outcome = "error"
      drops == refused /\ worker.opening
      gone == {k \in KeysOf(c) : lease[k] # "none"}
      next == CASE outcome = "ok" -> Succeeded(states[c])
                [] outcome = "none" -> Undecided(states[c])
                [] OTHER -> IF worker.opening THEN OpenRefused(states[c]) ELSE CloseRefused(states[c])
  IN
  /\ worker.busy
  /\ outcome = worker.answer
  /\ worker' = Resting
  /\ IF Current(c)
     THEN /\ states' = [states EXCEPT ![c] = next]
          /\ lease' = IF drops THEN Without(gone) ELSE lease
          /\ counts' = IF drops THEN [counts EXCEPT ![c] = 0] ELSE counts
          /\ dropped' = IF refused /\ ~worker.opening /\ next.phase = "closed" /\ MaybeOpen(c)
                        THEN dropped \cup {c} ELSE dropped
     ELSE UNCHANGED <<tables, dropped>>
  /\ UNCHANGED <<rotation, account, session, caller, tdVars>>

-----------------------------------------------------------------------------
(***************************************************************************)
(* Waiting callers, time, TDLib and the life of an account.                *)
(***************************************************************************)
\* Mutant: the phase is looked at before the undecided transition.
VerdictByPhase(h) ==
  LET c == ChatOf[h.key] IN
  IF lease[h.key] = "none" /\ h.active THEN "failed"
  ELSE IF states[c].phase = "open" /\ h.active THEN "active"
  ELSE IF states[c].unknown > h.unknown THEN "unknown"
  ELSE "none"
\* What the loop of set_interest finds when it wakes; "none" to wait on.
Verdict(h) ==
  LET c == ChatOf[h.key]
      state == states[c]
  IN IF account[AccountOf[c]] # "active" \/ session[AccountOf[c]] # h.session THEN "invalid_state"
     ELSE IF h.active /\ lease[h.key] = "none" THEN "failed"
     ELSE IF state = Untracked THEN IF h.active THEN "invalid_state" ELSE "inactive"
     ELSE IF state.failed > h.failed THEN "failed"
     ELSE IF state.unknown > h.unknown THEN "unknown"
     ELSE IF h.active /\ state.phase = "open" THEN "active"
     ELSE IF ~h.active /\ (counts[c] > 0 \/ state.phase = "closed") THEN "inactive"
     ELSE "none"

Wake(r) ==
  /\ caller[r].waiting
  /\ Verdict(caller[r]) # "none"
  /\ Reply(r, caller[r].key, caller[r].active, Verdict(caller[r]))
  /\ UNCHANGED <<tables, rotation, account, session, worker, tdVars, dropped>>

\* Eight seconds have passed.
GiveUp(r) ==
  /\ caller[r].waiting
  /\ Reply(r, caller[r].key, caller[r].active, "busy")
  /\ UNCHANGED <<tables, rotation, account, session, worker, tdVars, dropped>>

\* 90 seconds have passed since the lease was taken or renewed: longer than
\* the 8 seconds its taker may still be waiting.
LeaseDue(k) ==
  /\ lease[k] = "held"
  /\ \A r \in Callers : caller[r].waiting => caller[r].key # k \/ ~caller[r].active
  /\ lease' = [lease EXCEPT ![k] = "due"]
  /\ UNCHANGED <<counts, states, rotation, account, session, worker, caller, tdVars, dropped>>

\* retry_at passes.
Cool(c) ==
  /\ states[c].cooling
  /\ states' = [states EXCEPT ![c].cooling = FALSE]
  /\ UNCHANGED <<lease, counts, rotation, account, session, worker, caller, tdVars, dropped>>

\* TDLib executes the oldest request of a chat: an openChat may be refused, a
\* closeChat is refused unless the chat is open.  The worker hears of it if it
\* still waits for this request, which is then the last one.
Execute(c) ==
  /\ queue[c] # <<>>
  /\ \E ok \in BOOLEAN :
       /\ Head(queue[c]) = "close" => ok = open[c]
       /\ open' = [open EXCEPT ![c] = IF Head(queue[c]) = "open" THEN ok \/ @ ELSE FALSE]
       /\ worker' = IF /\ worker.busy /\ worker.chat = c /\ worker.answer = "none"
                       /\ worker.session = session[AccountOf[c]]
                       /\ Len(queue[c]) = 1
                    THEN [worker EXCEPT !.answer = IF ok THEN "ok" ELSE "error"]
                    ELSE worker
  /\ queue' = [queue EXCEPT ![c] = Tail(@)]
  /\ UNCHANGED <<tables, rotation, account, session, caller, dropped>>

ChatsOf(a) == {c \in Chats : AccountOf[c] = a}
ClearTables(a) ==
  /\ lease' = Without(AccountKeys(a))
  /\ counts' = [c \in Chats |-> IF c \in ChatsOf(a) THEN 0 ELSE counts[c]]
  /\ states' = [c \in Chats |-> IF c \in ChatsOf(a) THEN Untracked ELSE states[c]]

\* The tables are cleared while the session lives on: close_account for a
\* reconcile, before its close may fail, or a logout or remove that has begun.
Clear(a) ==
  /\ account[a] # "ended"
  /\ ClearTables(a)
  /\ account' \in {account, [account EXCEPT ![a] = "suspended"]}
  /\ dropped' = dropped \cup {c \in ChatsOf(a) : MaybeOpen(c)}
  /\ Forgotten
  /\ UNCHANGED <<rotation, session, worker, tdVars>>

\* The logout or remove did not happen; the session goes on.
Resume(a) ==
  /\ account[a] = "suspended"
  /\ account' = [account EXCEPT ![a] = "active"]
  /\ UNCHANGED <<tables, rotation, session, worker, caller, tdVars, dropped>>

\* The session ends: TDLib forgets its chats, and the next session has
\* another runtime_epoch and client.
EndSession(a) ==
  /\ account[a] # "ended"
  /\ session[a] < MaxSessions
  /\ account' = [account EXCEPT ![a] = "ended"]
  /\ session' = [session EXCEPT ![a] = @ + 1]
  /\ ClearTables(a)
  /\ open' = [c \in Chats |-> c \notin ChatsOf(a) /\ open[c]]
  /\ queue' = [c \in Chats |-> IF c \in ChatsOf(a) THEN <<>> ELSE queue[c]]
  /\ dropped' = dropped \ ChatsOf(a)
  /\ UNCHANGED <<rotation, worker, caller>>

NewSession(a) ==
  /\ account[a] = "ended"
  /\ account' = [account EXCEPT ![a] = "active"]
  /\ UNCHANGED <<tables, rotation, session, worker, caller, tdVars, dropped>>

Next == \/ \E k \in Keys : ReadInterest(k)
        \/ \E r \in Callers, k \in Keys : TakeInterest(r, k) \/ DropInterest(r, k)
        \/ \E r \in Callers : Wake(r) \/ GiveUp(r)
        \/ \E p \in Principals : ReleaseInterests(p)
        \/ \E k \in Keys : LeaseDue(k)
        \/ \E c \in Chats : Select(c) \/ Cool(c) \/ Execute(c)
        \/ Idle
        \/ \E outcome \in {"ok", "error", "none"} : Apply(outcome)
        \/ \E a \in Unstable : Clear(a) \/ Resume(a) \/ EndSession(a) \/ NewSession(a)

Spec == Init /\ [][Next]_vars

\* The worker thread goes on, the clock too, TDLib executes what it was sent,
\* and it does not always take longer than three seconds.
WorkerAct == Idle \/ (\E c \in Chats : Select(c)) \/ (\E outcome \in {"ok", "error", "none"} : Apply(outcome))
AnsweredInTime(c) == Execute(c) /\ worker.busy /\ worker.chat = c
Fairness == /\ WF_vars(WorkerAct)
            /\ \A c \in Chats : /\ WF_vars(Cool(c))
                                /\ WF_vars(Execute(c))
                                /\ SF_vars(AnsweredInTime(c))
FairSpec == Spec /\ Fairness

-----------------------------------------------------------------------------
(***************************************************************************)
(* Properties.                                                             *)
(***************************************************************************)
\* interest_counts, kept by hand at every place a lease comes or goes, is the
\* number of leases of the chat.
CountsAgree == \A c \in Chats : counts[c] = Cardinality({k \in KeysOf(c) : lease[k] # "none"})

\* A chat that TDLib has open, or is still going to open, is tracked as such:
\* its phase is not closed, so that dropping the interest sends a closeChat.
\* Excepted are the chats whose tracking was cleared with the session alive or
\* given up.
OpenIsTracked == \A c \in Chats \ dropped :
  MaybeOpen(c) => states[c].phase \in {"opening", "open", "closing"}

\* The phases of a transition belong to the worker: a chat is opening or
\* closing only while the worker holds the transition with its number, so no
\* chat is stuck in between.
TransitionIsOwned == \A c \in Chats : states[c].phase \in {"opening", "closing"} =>
  /\ worker.busy
  /\ worker.chat = c
  /\ worker.number = states[c].transition
  /\ worker.opening = (states[c].phase = "opening")

\* A wanted chat is tracked, so that the worker sees it.
WantedIsTracked == \A c \in Chats : counts[c] > 0 => states[c] # Untracked

\* Neither limit on the leases of an account is exceeded.
WithinLimits == \A a \in Accounts :
  LET mine == {k \in AccountKeys(a) : lease[k] # "none"}
  IN /\ Cardinality(mine) <= LeaseLimit
     /\ \A p \in Principals : Cardinality({k \in mine : PrincipalOf[k] = p}) <= PrincipalLimit

\* The tables of leases are sound: typed, within both limits, counted right, and
\* every wanted chat is seen by the worker.
LeasesSound == TypeOK /\ WithinLimits /\ CountsAgree /\ WantedIsTracked

\* What the runtime believes of a chat covers what TDLib has of it: an open chat
\* is tracked, and every transition has its worker.
ChatsFollowed == OpenIsTracked /\ TransitionIsOwned

\* A caller that waited is told "active" only while it holds its lease and
\* TDLib really has the chat open: an undecided openChat, which also leads to
\* phase Open, is not success.  Excepted are chats whose tracking was lost and
\* callers that slept while their chat was forgotten and tracked anew, with
\* numbers that start over.
ActiveStep == \A r \in Callers :
  LET c == ChatOf[caller[r].key] IN
  /\ caller[r].waiting /\ caller'[r].reply = "active"
  /\ ~caller[r].restarted
  => lease[caller[r].key] # "none" /\ (open[c] \/ c \in dropped)
ActiveIsOpen == [][ActiveStep]_vars

\* A chat with an undecided transition is not given up as closed while TDLib
\* has it open or is going to open it.
UndecidedStep == \A c \in Chats :
  states[c].phase = "closing" /\ states[c].unknown > 0 /\ states'[c].phase = "closed"
  => ~MaybeOpen(c)
UndecidedIsClosed == [][UndecidedStep]_vars

\* A chat that stays wanted is opened, whatever the other accounts ask of the
\* one worker: the rotation starves nobody.
WantedIsOpened == \A c \in Chats :
  <>[](counts[c] > 0 /\ account[AccountOf[c]] = "active") => <>[](states[c].phase = "open")

\* A chat that nobody wants any more is closed in TDLib, however many answers
\* were late, unless its tracking was lost.
UnwantedIsClosed == \A c \in Chats :
  <>[](counts[c] = 0 /\ account[AccountOf[c]] = "active") => <>[](~open[c] \/ c \in dropped)

\* Both: the chats open in TDLib come to be those somebody wants.
InterestPrevails == WantedIsOpened /\ UnwantedIsClosed
=============================================================================
