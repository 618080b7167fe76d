----------------------------- MODULE PhoneSend -----------------------------
(***************************************************************************)
(* The phone: compose.js, which turns the watch's send, check and discard  *)
(* requests for one draft into idempotent calls of backend-api, keeps open *)
(* sends in local storage and answers the watch.                           *)
(*                                                                         *)
(* JavaScript runs one callback at a time, so a callback is one action.  A *)
(* call in flight is a slot that holds the closure's variables; its entry  *)
(* is recognised by the idempotency key, because every entry object has a  *)
(* key of its own.  backend-api is external here: it promises what ApiSend *)
(* shows of it, and loses any request or response.                         *)
(***************************************************************************)
EXTENDS Naturals, FiniteSets

CONSTANTS Attempts,     \* ATTEMPT numbers the watch uses
          Requests,     \* watch requests (REQUEST_SEQ)
          Calls,        \* bound: HTTP calls in flight
          MaxKeys,      \* bound: idempotency keys drawn
          PostAttempts  \* POST_ATTEMPTS

PhoneAssumption == Attempts # {} /\ MaxKeys \in Nat /\ PostAttempts \in Nat \ {0}

VARIABLES
  draft,    \* the draft is in drafts
  entries,  \* the entry of each attempt
  stored,   \* local storage: telebezel-sends
  calls,    \* HTTP calls in flight
  watch,    \* what became of each watch request
  server,   \* backend-api's row and the message's fate, by key
  keys      \* keys drawn so far

vars == <<draft, entries, stored, calls, watch, server, keys>>

Open == {"pending", "unknown"}
Settled == {"sent", "failed"}
Entry == [state : {"none", "dispatching"} \cup Open \cup Settled, key : 0..MaxKeys,
          op : BOOLEAN, checking : BOOLEAN, waiters : SUBSET Requests]
NoEntry == [state |-> "none", key |-> 0, op |-> FALSE, checking |-> FALSE, waiters |-> {}]

Results == {"none", "lost", "limited", "fatal", "refused", "missing", "pending", "unknown"} \cup Settled
Call == [at : {"free", "priming", "out", "back", "timer"}, kind : {"post", "status"},
         origin : {"send", "check", "resync"}, attempt : Attempts, key : 0..MaxKeys,
         tries : 0..PostAttempts, result : Results, asker : SUBSET Requests]
Free == [at |-> "free", kind |-> "post", origin |-> "send", attempt |-> CHOOSE a \in Attempts : TRUE,
         key |-> 0, tries |-> 0, result |-> "none", asker |-> {}]

Row == [state : {"none"} \cup Open \cup Settled, fate : {"live", "delivered", "dead"}]

TypeOK == /\ draft \in BOOLEAN
          /\ entries \in [Attempts -> Entry]
          /\ stored \in [Attempts -> Entry]
          /\ calls \in [Calls -> Call]
          /\ watch \in [Requests -> {"unsent", "asked", "answered", "answered_twice", "abandoned"}]
          /\ server \in [1..MaxKeys -> Row]
          /\ keys \in 0..MaxKeys

Init == /\ draft = TRUE
        /\ entries = [a \in Attempts |-> NoEntry]
        /\ stored = [a \in Attempts |-> NoEntry]
        /\ calls = [c \in Calls |-> Free]
        /\ watch = [q \in Requests |-> "unsent"]
        /\ server = [k \in 1..MaxKeys |-> [state |-> "none", fate |-> "live"]]
        /\ keys = 0

-----------------------------------------------------------------------------
\* The responses to a set of watch requests.
Told(qs) == [q \in Requests |-> IF q \notin qs THEN watch[q]
                               ELSE CASE watch[q] \in {"unsent", "asked"} -> "answered"
                                      [] watch[q] = "answered" -> "answered_twice"
                                      [] OTHER -> watch[q]]

\* Mutant: nothing is written.
NothingKept(es) == stored
\* persist: what local storage holds of the entries.
Kept(es) == [a \in Attempts |-> IF es[a].state \in {"none", "sent"} THEN NoEntry
                                ELSE [state |-> es[a].state, key |-> es[a].key, op |-> es[a].op,
                                      checking |-> FALSE, waiters |-> {}]]
Persist(es) == entries' = es /\ stored' = Kept(es)

\* apply: a sent entry stays, a failed one only changes for a failure.
Applied(e, state) ==
  [e EXCEPT !.op = TRUE,
            !.state = IF @ = "sent" \/ (@ = "failed" /\ state # "failed") THEN @ ELSE state]

\* The entry a closure refers to is still the one of its attempt.
Current(c) == entries[calls[c].attempt].key = calls[c].key
Changed(c, e) == [entries EXCEPT ![calls[c].attempt] = IF Current(c) THEN e ELSE @]
Mine(c) == entries[calls[c].attempt]
Start(c, call) == calls' = [calls EXCEPT ![c] = call]

-----------------------------------------------------------------------------
(***************************************************************************)
(* Requests of the watch.                                                  *)
(***************************************************************************)
\* Mutant: an existing attempt is overlooked.
ExistsDispatching(a) == entries[a].state = "dispatching"

Exists(a) == entries[a].state # "none"
Busy == \E a \in Attempts : entries[a].state = "dispatching"

\* send: a known attempt is answered or waited for, another one must not be
\* dispatching; a new one is stored before it is posted, after a first poll of
\* the updates unless a cursor exists.
WatchSend(q, a) ==
  /\ watch[q] = "unsent"
  /\ \/ /\ ~draft \/ (~Exists(a) /\ Busy)
        /\ watch' = Told({q})
        /\ UNCHANGED <<entries, stored, calls, keys>>
     \/ /\ draft /\ Exists(a)
        /\ IF entries[a].state = "dispatching"
           THEN /\ entries' = [entries EXCEPT ![a].waiters = @ \cup {q}]
                /\ watch' = [watch EXCEPT ![q] = "asked"]
           ELSE watch' = Told({q}) /\ UNCHANGED entries
        /\ UNCHANGED <<stored, calls, keys>>
     \/ /\ draft /\ ~Exists(a) /\ ~Busy
        /\ keys < MaxKeys
        /\ keys' = keys + 1
        /\ Persist([entries EXCEPT ![a] = [NoEntry EXCEPT !.state = "dispatching", !.key = keys + 1,
                                                          !.waiters = {q}]])
        /\ watch' = [watch EXCEPT ![q] = "asked"]
        /\ \E c \in Calls, at \in {"priming", "out"} :
             /\ calls[c] = Free
             /\ Start(c, [Free EXCEPT !.at = at, !.attempt = a, !.key = keys + 1, !.tries = 1])
  /\ UNCHANGED <<draft, server>>

\* latest: the attempt created last.
Latest == CHOOSE a \in Attempts : \A b \in Attempts : entries[b].key <= entries[a].key

\* sendCheck and check: a dispatching entry is waited for, a settled one is
\* answered; without an operation id the POST is repeated under its key, else
\* the status is asked for.
WatchCheck(q) ==
  LET e == entries[Latest] IN
  /\ watch[q] = "unsent"
  /\ \/ /\ ~draft \/ e.state \in {"none"} \cup Settled
        /\ watch' = Told({q})
        /\ UNCHANGED <<entries, calls>>
     \/ /\ draft /\ e.state = "dispatching"
        /\ entries' = [entries EXCEPT ![Latest].waiters = @ \cup {q}]
        /\ watch' = [watch EXCEPT ![q] = "asked"]
        /\ UNCHANGED calls
     \/ /\ draft /\ e.state \in Open
        /\ watch' = [watch EXCEPT ![q] = "asked"]
        /\ \E c \in Calls :
             /\ calls[c] = Free
             /\ Start(c, [Free EXCEPT !.at = "out", !.kind = IF e.op THEN "status" ELSE "post",
                            !.origin = "check", !.attempt = Latest, !.key = e.key, !.tries = 1,
                            !.asker = {q}])
        /\ UNCHANGED entries
  /\ UNCHANGED <<draft, stored, server, keys>>

\* discard: settled entries are forgotten, and the draft with the last one.
WatchDiscard(q) ==
  LET es == [a \in Attempts |-> IF entries[a].state \in Settled THEN NoEntry ELSE entries[a]] IN
  /\ watch[q] = "unsent"
  /\ watch' = Told({q})
  /\ IF draft THEN Persist(es) ELSE UNCHANGED <<entries, stored>>
  /\ draft' = (draft /\ \E a \in Attempts : es[a].state # "none")
  /\ UNCHANGED <<calls, server, keys>>

-----------------------------------------------------------------------------
(***************************************************************************)
(* backend-api, external.                                                  *)
(***************************************************************************)
\* A POST or a status request is served: the row is created once per key and
\* its state answered.
ApiServes(c) ==
  LET k == calls[c].key IN
  /\ calls[c].at = "out"
  /\ IF calls[c].kind = "post" /\ server[k].state = "none"
     THEN \E state \in Open \cup Settled :
            /\ server' = [server EXCEPT ![k] = [state |-> state,
                             fate |-> CASE state = "sent" -> "delivered" [] state = "failed" -> "dead"
                                        [] OTHER -> "live"]]
            /\ Start(c, [calls[c] EXCEPT !.at = "back", !.result = state])
     ELSE /\ Start(c, [calls[c] EXCEPT !.at = "back", !.result = server[k].state])
          /\ UNCHANGED server
  /\ UNCHANGED <<draft, entries, stored, watch, keys>>

\* It refuses the request before looking at the row: a rate limit, a fatal
\* error such as a revoked token, another error, or an operation not found.
ApiRefuses(c) ==
  /\ calls[c].at = "out"
  /\ \E result \in IF calls[c].kind = "post" THEN {"limited", "fatal", "refused"} ELSE {"refused", "missing"} :
       Start(c, [calls[c] EXCEPT !.at = "back", !.result = result])
  /\ UNCHANGED <<draft, entries, stored, watch, server, keys>>

\* The request or its response is lost.
ApiLoses(c) ==
  /\ calls[c].at \in {"out", "back"}
  /\ calls[c].result # "lost"
  /\ Start(c, [calls[c] EXCEPT !.at = "back", !.result = "lost"])
  /\ UNCHANGED <<draft, entries, stored, watch, server, keys>>

\* The row is settled truthfully, or the message delivered unnoticed.
ApiSettles(k) ==
  /\ server[k].state \in Open
  /\ \/ /\ server[k].fate = "live"
        /\ \E fate \in {"delivered", "dead"} : server' = [server EXCEPT ![k].fate = fate]
     \/ /\ server[k].fate # "live"
        /\ server' = [server EXCEPT ![k].state =
                        IF server[k].fate = "delivered" THEN "sent" ELSE "failed"]
  /\ UNCHANGED <<draft, entries, stored, calls, watch, keys>>

-----------------------------------------------------------------------------
(***************************************************************************)
(* Callbacks.                                                              *)
(***************************************************************************)
\* The first poll of the updates is over and the message is posted.
Primed(c) == /\ calls[c].at = "priming"
             /\ Start(c, [calls[c] EXCEPT !.at = "out"])
             /\ UNCHANGED <<draft, entries, stored, watch, server, keys>>

\* The retry timer of dispatch.
Retry(c) == /\ calls[c].at = "timer"
            /\ Start(c, [calls[c] EXCEPT !.at = "out", !.result = "none", !.tries = @ + 1])
            /\ UNCHANGED <<draft, entries, stored, watch, server, keys>>

\* Mutant: the waiters are dropped unanswered.
FinishedSilently(c, e) ==
  /\ Persist(Changed(c, [e EXCEPT !.waiters = {}]))
  /\ watch' = Told(calls[c].asker)
  /\ Start(c, Free)

\* The end of a dispatch or of a check: the entry is saved; the waiters of a
\* send, or the asker of a check, are answered.
Finished(c, e) ==
  LET send == calls[c].origin = "send" IN
  /\ Persist(Changed(c, [e EXCEPT !.waiters = IF send THEN {} ELSE @,
                                  !.checking = IF calls[c].origin = "resync" THEN FALSE ELSE @]))
  /\ watch' = Told(calls[c].asker \cup IF send /\ Current(c) THEN e.waiters ELSE {})
  /\ Start(c, Free)

MayRetry(c) == calls[c].tries < PostAttempts

\* What dispatch makes of an entry when every POST was lost.
Unknown(e) == [e EXCEPT !.state = "unknown"]

\* dispatch: the answer to a POST.
PostReturns(c) ==
  LET result == calls[c].result
      e == Mine(c)
  IN
  /\ calls[c].at = "back" /\ calls[c].kind = "post"
  /\ \/ /\ result \in Open \cup Settled
        /\ Finished(c, Applied(e, result))
        /\ UNCHANGED draft
     \/ /\ result = "lost"
        /\ MayRetry(c)
        /\ Start(c, [calls[c] EXCEPT !.at = "timer"])
        /\ UNCHANGED <<draft, entries, stored, watch>>
     \/ /\ result = "lost"       \* the last try, or the window of 20 seconds is over
        /\ Finished(c, Unknown(e))
        /\ UNCHANGED draft
     \/ /\ result \in {"limited", "refused"}
        /\ Finished(c, [e EXCEPT !.state = "failed"])
        /\ UNCHANGED draft
     \/ /\ result = "fatal"
        /\ IF calls[c].origin = "send" /\ Current(c)
           THEN /\ Persist([entries EXCEPT ![calls[c].attempt] = NoEntry])
                /\ watch' = Told(e.waiters)
                /\ Start(c, Free)
           ELSE Finished(c, [e EXCEPT !.state = "failed"])
        /\ UNCHANGED draft
  /\ UNCHANGED <<server, keys>>

\* check: the answer to a status request.  A 404 makes a settled failure
\* unknown as well; only "sent" is protected.
StatusReturns(c) ==
  LET result == calls[c].result
      e == Mine(c)
  IN
  /\ calls[c].at = "back" /\ calls[c].kind = "status"
  /\ Finished(c, CASE result \in Open \cup Settled -> Applied(e, result)
                   [] result = "missing" /\ e.state # "sent" -> Unknown(e)
                   [] OTHER -> e)
  /\ UNCHANGED <<draft, server, keys>>

\* Mutant: events are matched by draft instead of by operation.
EventOfDraft(a) ==
  /\ entries[a].op
  /\ \E k \in 1..keys : /\ server[k].state \in Settled
                        /\ Persist([entries EXCEPT ![a] = Applied(@, server[k].state)])
  /\ UNCHANGED <<draft, calls, watch, server, keys>>

\* consume: a send_changed event, possibly an old one, of an entry whose
\* operation id is known.
EventArrives(a) ==
  /\ entries[a].op
  /\ \E state \in {"pending", server[entries[a].key].state} \ {"none", "unknown"} :
       Persist([entries EXCEPT ![a] = Applied(@, state)])
  /\ UNCHANGED <<draft, calls, watch, server, keys>>

\* consume: the journal was restarted, open operations are checked.
Resynced(a) ==
  /\ entries[a].op /\ entries[a].state \in Open /\ ~entries[a].checking
  /\ \E c \in Calls :
       /\ calls[c] = Free
       /\ Start(c, [Free EXCEPT !.at = "out", !.kind = "status", !.origin = "resync",
                                !.attempt = a, !.key = entries[a].key])
  /\ Persist([entries EXCEPT ![a].checking = TRUE])
  /\ UNCHANGED <<draft, watch, server, keys>>

\* The JavaScript side is killed and started again: load restores the stored
\* entries, and their draft with them.
Restart ==
  LET es == [a \in Attempts |-> IF stored[a].state = "dispatching"
                                THEN [stored[a] EXCEPT !.state = "unknown"] ELSE stored[a]]
  IN /\ Persist(es)
     /\ draft' = (\E a \in Attempts : es[a].state # "none")
     /\ calls' = [c \in Calls |-> Free]
     /\ watch' = [q \in Requests |-> IF watch[q] = "asked" THEN "abandoned" ELSE watch[q]]
     /\ UNCHANGED <<server, keys>>

\* reset: another server or token.  Calls go on, and a send still answers the
\* waiters of the entry it holds; but a poll of the updates is aborted and its
\* callback never runs.
Reset ==
  /\ entries' = [a \in Attempts |-> NoEntry]
  /\ stored' = [a \in Attempts |-> NoEntry]
  /\ draft' = FALSE
  /\ calls' = [c \in Calls |->
                 CASE calls[c].at = "priming" -> Free
                   [] calls[c].at \in {"out", "back", "timer"} /\ calls[c].origin = "send" /\ Current(c) ->
                        [calls[c] EXCEPT !.asker = Mine(c).waiters]
                   [] OTHER -> calls[c]]
  /\ watch' = [q \in Requests |->
                 IF \E c \in Calls : calls[c].at = "priming" /\ q \in Mine(c).waiters
                 THEN "abandoned" ELSE watch[q]]
  /\ UNCHANGED <<server, keys>>

Callback(c) == Primed(c) \/ Retry(c) \/ PostReturns(c) \/ StatusReturns(c)

Next == \/ \E q \in Requests, a \in Attempts : WatchSend(q, a)
        \/ \E q \in Requests : WatchCheck(q) \/ WatchDiscard(q)
        \/ \E c \in Calls : ApiServes(c) \/ ApiRefuses(c) \/ ApiLoses(c) \/ Callback(c)
        \/ \E k \in 1..keys : ApiSettles(k)
        \/ \E a \in Attempts : EventArrives(a) \/ Resynced(a)
        \/ Restart \/ Reset

Spec == Init /\ [][Next]_vars

(***************************************************************************)
(* Fairness: callbacks run, and every HTTP call ends, at the latest by its *)
(* timeout.                                                                *)
(***************************************************************************)
Fairness == \A c \in Calls : /\ WF_vars(ApiServes(c) \/ ApiRefuses(c) \/ ApiLoses(c))
                            /\ WF_vars(Primed(c) \/ Retry(c))
                            /\ WF_vars(PostReturns(c) \/ StatusReturns(c))

-----------------------------------------------------------------------------
Posted(k) == server[k].state # "none"

\* A watch request is answered once: not a second time by another callback, and
\* nobody who still waits has been answered.
AnsweredOnce ==
  \A q \in Requests :
    /\ watch[q] # "answered_twice"
    /\ watch[q] # "asked" => /\ \A a \in Attempts : q \notin entries[a].waiters
                             /\ \A c \in Calls : q \notin calls[c].asker

\* At most one entry is dispatching, and the call that will end its dispatch is
\* under way: sending can never be busy for good.
DispatchUnderWay ==
  \A a \in Attempts : entries[a].state = "dispatching" =>
    /\ \A b \in Attempts : entries[b].state = "dispatching" => b = a
    /\ \E c \in Calls : /\ calls[c].at # "free" /\ calls[c].origin = "send"
                        /\ calls[c].key = entries[a].key

\* A message that was posted, and whose outcome is open as far as the phone
\* knows, is in local storage under its key: killing the phone app never loses
\* track of it, nor can the attempt be posted under another key afterwards.
OpenSendsAreStored ==
  \A a \in Attempts :
    /\ entries[a].state \in {"dispatching"} \cup Open => stored[a].key = entries[a].key
    /\ stored[a].state # "none" => stored[a].key = entries[a].key

\* The journal of sends is sound: typed, each request answered once, one
\* dispatch at a time with its call under way, and every open send stored.
JournalSound == TypeOK /\ AnsweredOnce /\ DispatchUnderWay /\ OpenSendsAreStored

\* "Sent" is only shown for a delivered message.
SentIsDelivered ==
  \A a \in Attempts : entries[a].state = "sent" => server[entries[a].key].fate = "delivered"

\* While an attempt is remembered its key stays, so that every retry, check and
\* repeated request of the watch is the same send to backend-api.
KeysKept == \A a \in Attempts : entries[a].key # 0 => entries'[a].key \in {0, entries[a].key}
KeyStays == [][KeysKept]_vars

\* A failure that is shown for an attempt is final: the message was not
\* delivered and never will be, so that "Send again" makes no duplicate.
NotSentIsTrue ==
  \A a \in Attempts : entries[a].state = "failed" =>
    LET k == entries[a].key IN Posted(k) => server[k].fate = "dead"

\* Every watch request is answered, unless the phone app is killed or the
\* settings change.
EveryRequestAnswered == \A q \in Requests : watch[q] = "asked" ~> watch[q] \in {"answered", "abandoned"}
=============================================================================
