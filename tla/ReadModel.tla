------------------------------ MODULE ReadModel ------------------------------
(***************************************************************************)
(* The read side of one account of the TDLib runtime: the projections of   *)
(* one chat's messages, the journal of events clients follow, the reads    *)
(* that fill the cache and the worker that refreshes it in the background. *)
(* Sources: read_model_service.cpp, history_reads.cpp, update_journal.cpp, *)
(* the message handlers of runtime_engine.cpp, and the cache of            *)
(* account_store.hpp (one chat: the per-chat bound is the one that bites). *)
(*                                                                         *)
(* A message is its identifier and a version, the number of times its      *)
(* content changed.  TDLib delivers answers and updates in one stream, so  *)
(* a change of TDLib's state and the handling of its update are one step,  *)
(* and an answer shows the state of the step it is taken in.  The thread   *)
(* that asked goes on later: everything may happen between the fence, the  *)
(* answers and the step that publishes them.                               *)
(***************************************************************************)
EXTENDS Integers, Sequences, FiniteSets, SequencesExt

CONSTANTS Ids,          \* message identifiers of the chat, newest highest
          Stored,       \* the ones Telegram has from the start
          Local,        \* and of those, the ones in TDLib's database
          Clients,      \* clients of the API, one read at a time each
          PageLimit,    \* limit of a history page
          BatchLimit,   \* limit of an updates answer
          Retained,     \* events the journal keeps (5000)
          PerChat,      \* cache_messages_per_chat
          QueueLimit,   \* refresh_queue_per_account
          MaxVersion,   \* bound: versions of a message
          MaxSequence,  \* bound: journal sequence numbers
          MaxEpoch      \* bound: sessions

ConstantsAssumption ==
  /\ Ids \subseteq Nat \ {0} /\ IsFiniteSet(Ids) /\ Local \subseteq Stored /\ Stored \subseteq Ids
  /\ {PageLimit, BatchLimit, Retained, PerChat, QueueLimit} \subseteq Nat \ {0}
  /\ {MaxVersion, MaxSequence, MaxEpoch} \subseteq Nat \ {0}

VARIABLES td,        \* what TDLib knows: version (0 never seen, -1 deleted), in its database or not
          account,   \* AccountState: session, journal and cached messages
          queue,     \* jobs waiting for the refresh thread
          calls,     \* the read each client is inside of
          worker,    \* the job the refresh thread is running
          clients    \* what each client holds: page, cursor, messages to read again
vars == <<td, account, queue, calls, worker, clients>>

NoItems == [m \in {} |-> 0]
Exists(m) == td[m].version > 0
Newest(S, n) == {m \in S : Cardinality({k \in S : k > m}) < n}
Lowest(S) == CHOOSE m \in S : \A k \in S : m <= k
Keep(f, S) == [m \in DOMAIN f \cap S |-> f[m]]
Set(f, m, v) == [k \in DOMAIN f \cup {m} |-> IF k = m THEN v ELSE f[k]]

Jobs == [epoch : 1..MaxEpoch, kind : {"history", "message"}, id : Ids \cup {0}]
Fences == [epoch : 1..MaxEpoch, sequence : 0..MaxSequence]
NoFence == [epoch |-> 0, sequence |-> 0]
Idle == [phase |-> "idle", job |-> [epoch |-> 0, kind |-> "none", id |-> 0],
         fence |-> NoFence, items |-> NoItems]
NoPage == [held |-> NoItems, cursor |-> NoFence, dirty |-> {}]

-----------------------------------------------------------------------------
(* Account state: the journal and the cache *)

push_event(a, type, m) ==
  LET all == Append(a.events, [sequence |-> a.sequence + 1, type |-> type, id |-> m])
  IN  [a EXCEPT !.sequence = @ + 1,
                !.events = SubSeq(all, Len(all) - (IF Len(all) > Retained THEN Retained ELSE Len(all)) + 1, Len(all))]

erase_message(a, m) == [a EXCEPT !.messages = Keep(@, Ids \ {m})]

put_message(a, m, v) ==
  LET all == Set(a.messages, m, v)
  IN  [a EXCEPT !.messages = Keep(all, Newest(DOMAIN all, PerChat))]

read_fence(a) == [epoch |-> a.epoch, sequence |-> a.sequence]

fence_valid_Forgotten(a, fence) ==
  a.ready /\ a.epoch = fence.epoch

fence_valid(a, fence) ==
  /\ a.ready /\ a.epoch = fence.epoch
  /\ a.events = <<>> \/ fence.sequence + 1 >= a.events[1].sequence

EventsAfter(a, sequence) == SelectSeq(a.events, LAMBDA e : e.sequence > sequence)
ChangesOf(a, fence, m) == SelectSeq(EventsAfter(a, fence.sequence), LAMBDA e : e.id = m)
changed_since(a, fence, m) == ChangesOf(a, fence, m) # <<>>

-----------------------------------------------------------------------------
(* The refresh queue.  A job that is queued or running is not queued again, *)
(* nor one whose outcome is younger than the cooldown, a matter of time.     *)

enqueue_refresh(job) ==
  IF job \in ToSet(queue) \cup {worker.job} \/ Len(queue) >= QueueLimit THEN UNCHANGED queue
  ELSE queue' \in {queue, Append(queue, job)}

Init ==
  /\ td = [m \in Ids |-> [version |-> IF m \in Stored THEN 1 ELSE 0, local |-> m \in Local]]
  /\ account = [ready |-> TRUE, epoch |-> 1, sequence |-> 0, events |-> <<>>, messages |-> NoItems]
  /\ queue = <<>>
  /\ calls = [c \in Clients |-> Idle]
  /\ worker = Idle
  /\ clients = [c \in Clients |-> NoPage]

-----------------------------------------------------------------------------
(* Updates of TDLib (RuntimeEngine::handle_update) *)

Room(n) == account.ready /\ account.sequence + n <= MaxSequence

updateNewMessage(m) ==
  /\ td[m].version = 0 /\ Room(1)
  /\ \A k \in Ids : td[k].version # 0 => k < m
  /\ td' = [td EXCEPT ![m] = [version |-> 1, local |-> TRUE]]
  /\ account' = push_event(put_message(account, m, 1), "message_changed", m)

\* updateMessageContent and updateMessageEdited; the chat's last message adds an event of its own
updateMessageContent(m) ==
  /\ Exists(m) /\ td[m].local /\ td[m].version < MaxVersion
  /\ td' = [td EXCEPT ![m].version = @ + 1]
  /\ \E last \in BOOLEAN :
       LET edited == IF m \in DOMAIN account.messages
                     THEN put_message(account, m, td[m].version + 1) ELSE account
       IN  /\ last => \A k \in Ids : Exists(k) => k <= m
           /\ Room(IF last THEN 2 ELSE 1)
           /\ account' = push_event(IF last THEN push_event(edited, "chat_changed", 0) ELSE edited,
                                    "message_changed", m)

updateDeleteMessages(m) ==
  /\ Exists(m) /\ td[m].local /\ Room(1)
  /\ \E from_cache \in BOOLEAN :
       /\ td' = [td EXCEPT ![m] = [version |-> IF from_cache THEN @.version ELSE -1, local |-> FALSE]]
       /\ account' = push_event(erase_message(account, m),
                                IF from_cache THEN "message_changed" ELSE "message_deleted", m)

\* updateChatLastMessage and updateNewChat: the last message is cached, the event names the chat only
updateChatLastMessage(m) ==
  /\ Exists(m) /\ td[m].local /\ Room(1)
  /\ \A k \in Ids : Exists(k) => k <= m
  /\ account' = push_event(put_message(account, m, td[m].version), "chat_changed", 0)
  /\ UNCHANGED td

\* Every other update of the chat or of the connection that is journalled
updateOther ==
  /\ Room(1)
  /\ account' = push_event(account, "chat_changed", 0)
  /\ UNCHANGED td

\* The session is left (reset_session) and, later, entered again
leave_session ==
  /\ account.ready /\ account.epoch < MaxEpoch
  /\ account' = [account EXCEPT !.ready = FALSE, !.epoch = @ + 1, !.events = <<>>, !.messages = NoItems]
  /\ \E kept \in BOOLEAN : td' = [m \in Ids |-> [td[m] EXCEPT !.local = kept /\ @]]

enter_session ==
  /\ ~account.ready
  /\ account' = [account EXCEPT !.ready = TRUE]
  /\ UNCHANGED td

Update ==
  /\ \/ \E m \in Ids : \/ updateNewMessage(m) \/ updateMessageContent(m)
                       \/ updateDeleteMessages(m) \/ updateChatLastMessage(m)
     \/ updateOther \/ leave_session \/ enter_session
  /\ UNCHANGED <<queue, calls, worker, clients>>

-----------------------------------------------------------------------------
(* Reads.  A call is begun under its fence, asks TDLib without the lock,   *)
(* and publishes what it got under the lock.                               *)

\* Messages older than what the call has, or than its anchor
Older(call) ==
  LET below == IF call.items = NoItems THEN call.job.id ELSE Lowest(DOMAIN call.items)
  IN  {m \in Ids : Exists(m) /\ (below # 0 => m < below)}

\* One answer of getChatHistory: some of the available messages, newest first, none when there
\* are none, or no usable answer; a short page is topped up by a further request
fetch_history(call, available) ==
  LET need == PageLimit - Cardinality(DOMAIN call.items)
      Take(n) == [m \in DOMAIN call.items \cup Newest(available, n) |->
                    IF m \in DOMAIN call.items THEN call.items[m] ELSE td[m].version]
  IN  {[call EXCEPT !.phase = "publish"]} \cup
      {[call EXCEPT !.items = Take(n), !.phase = IF n = need THEN "publish" ELSE "fetch"] :
          n \in 1..(IF Cardinality(available) < need THEN Cardinality(available) ELSE need)}

Begin(c, kind, id) ==
  calls' = [calls EXCEPT ![c] = [phase |-> "fetch", fence |-> read_fence(account), items |-> NoItems,
                                 job |-> [epoch |-> account.epoch, kind |-> kind, id |-> id]]]

\* messages: the first page, or the page after the one held, whose cursor names its session
messages(c) ==
  /\ account.ready /\ calls[c].phase = "idle"
  /\ \/ Begin(c, "history", 0)
     \/ /\ clients[c].held # NoItems /\ clients[c].cursor.epoch = account.epoch
        /\ Begin(c, "history", Lowest(DOMAIN clients[c].held))
  /\ UNCHANGED <<td, account, queue, worker, clients>>

fetch_local(c) ==
  /\ calls[c].phase = "fetch" /\ calls[c].job.kind = "history"
  /\ \E next \in fetch_history(calls[c], {m \in Older(calls[c]) : td[m].local}) :
       calls' = [calls EXCEPT ![c] = next]
  /\ UNCHANGED <<td, account, queue, worker, clients>>

publish_item(acc, call, m) ==
  LET changes == ChangesOf(acc.account, call.fence, m)
  IN  CASE changes = <<>> ->
             [acc EXCEPT !.account = put_message(@, m, call.items[m]), !.shown = Set(@, m, call.items[m])]
        [] changes # <<>> /\ Last(changes).type = "message_deleted" -> acc
        [] OTHER ->
             [acc EXCEPT !.shown = Set(@, m, IF m \in DOMAIN acc.account.messages
                                             THEN acc.account.messages[m] ELSE call.items[m])]

NewestFirst(S) == SetToSortSeq(S, LAMBDA a, b : a > b)

answer_messages_LateCursor(c) ==
  /\ calls[c].phase = "publish" /\ calls[c].job.kind = "history"
  /\ IF fence_valid(account, calls[c].fence)
     THEN LET out == FoldLeft(LAMBDA acc, m : publish_item(acc, calls[c], m),
                              [account |-> account, shown |-> NoItems], NewestFirst(DOMAIN calls[c].items))
          IN  /\ account' = out.account
              /\ clients' = [clients EXCEPT ![c] =
                   [held |-> out.shown, cursor |-> read_fence(account), dirty |-> {}]]
              /\ enqueue_refresh(calls[c].job)
     ELSE UNCHANGED <<account, clients, queue>>
  /\ calls' = [calls EXCEPT ![c] = Idle]
  /\ UNCHANGED <<td, worker>>

answer_messages(c) ==
  /\ calls[c].phase = "publish" /\ calls[c].job.kind = "history"
  /\ IF fence_valid(account, calls[c].fence)
     THEN LET out == FoldLeft(LAMBDA acc, m : publish_item(acc, calls[c], m),
                              [account |-> account, shown |-> NoItems], NewestFirst(DOMAIN calls[c].items))
          IN  /\ account' = out.account
              /\ clients' = [clients EXCEPT ![c] =
                   [held |-> out.shown, cursor |-> calls[c].fence, dirty |-> {}]]
              /\ enqueue_refresh(calls[c].job)
     ELSE UNCHANGED <<account, clients, queue>>
  /\ calls' = [calls EXCEPT ![c] = Idle]
  /\ UNCHANGED <<td, worker>>

\* The client shows what a single read returned
Shown(c, m, v) ==
  clients' = [clients EXCEPT ![c].held = Set(@, m, v), ![c].dirty = @ \ {m}]

\* message: served from memory, or asked of TDLib's database
message(c, m) ==
  /\ account.ready /\ calls[c].phase = "idle" /\ m \in clients[c].dirty
  /\ IF m \in DOMAIN account.messages
     THEN /\ Shown(c, m, account.messages[m])
          /\ enqueue_refresh([epoch |-> account.epoch, kind |-> "message", id |-> m])
          /\ UNCHANGED calls
     ELSE Begin(c, "message", m) /\ UNCHANGED <<queue, clients>>
  /\ UNCHANGED <<td, account, worker>>

\* getMessageLocally answers, or fails (not found, deadline, busy); the refresh is queued either way
fetch_message(c) ==
  LET m == calls[c].job.id IN
  /\ calls[c].phase = "fetch" /\ calls[c].job.kind = "message"
  /\ enqueue_refresh(calls[c].job)
  /\ \/ /\ Exists(m) /\ td[m].local
        /\ calls' = [calls EXCEPT ![c].phase = "publish", ![c].items = Set(NoItems, m, td[m].version)]
     \/ calls' = [calls EXCEPT ![c] = Idle]
  /\ UNCHANGED <<td, account, worker, clients>>

answer_message(c) ==
  LET m == calls[c].job.id IN
  /\ calls[c].phase = "publish" /\ calls[c].job.kind = "message"
  /\ IF ~fence_valid(account, calls[c].fence) THEN UNCHANGED <<account, clients>>
     ELSE IF ~changed_since(account, calls[c].fence, m)
     THEN account' = put_message(account, m, calls[c].items[m]) /\ Shown(c, m, calls[c].items[m])
     ELSE /\ IF m \in DOMAIN account.messages THEN Shown(c, m, account.messages[m]) ELSE UNCHANGED clients
          /\ UNCHANGED account
  /\ calls' = [calls EXCEPT ![c] = Idle]
  /\ UNCHANGED <<td, queue, worker>>

\* updates: a batch of the events after the cursor; a cursor of another session, or older than
\* the journal, is answered with resync and the client starts over
updates(c) ==
  LET cursor == clients[c].cursor
      items == EventsAfter(account, cursor.sequence)
      batch == SubSeq(items, 1, IF Len(items) > BatchLimit THEN BatchLimit ELSE Len(items))
      Named(types) == {batch[i].id : i \in {j \in DOMAIN batch : batch[j].type \in types}}
      held == Keep(clients[c].held, Ids \ Named({"message_deleted"}))
  IN
  /\ account.ready /\ calls[c].phase = "idle" /\ cursor # NoFence
  /\ IF fence_valid(account, cursor)
     THEN /\ batch # <<>>
          /\ clients' = [clients EXCEPT ![c] =
               [held |-> held, cursor |-> [cursor EXCEPT !.sequence = Last(batch).sequence],
                dirty |-> (@.dirty \cup Named({"message_changed"})) \cap DOMAIN held]]
     ELSE clients' = [clients EXCEPT ![c] = NoPage]
  /\ UNCHANGED <<td, account, queue, calls, worker>>

-----------------------------------------------------------------------------
(* The refresh thread (refresh_once, run_refresh, publish_projections) *)

refresh_take ==
  LET job == Head(queue) IN
  /\ worker.phase = "idle" /\ queue # <<>>
  /\ queue' = Tail(queue)
  /\ worker' = IF account.ready /\ account.epoch = job.epoch
               THEN [phase |-> "fetch", job |-> job, fence |-> read_fence(account), items |-> NoItems]
               ELSE Idle
  /\ UNCHANGED <<td, account, calls, clients>>

\* getMessage, or getChatHistory over the network: what it returns is in TDLib's database from now on
run_refresh ==
  LET m == worker.job.id IN
  /\ worker.phase = "fetch"
  /\ \E next \in IF worker.job.kind = "history" THEN fetch_history(worker, Older(worker))
                 ELSE {[worker EXCEPT !.phase = "publish"]} \cup
                      {[worker EXCEPT !.phase = "publish", !.items = Set(NoItems, m, td[m].version)] :
                          found \in {TRUE} \cap {Exists(m)}} :
       /\ worker' = IF next.phase = "publish" /\ next.items = NoItems THEN Idle ELSE next
       /\ td' = [k \in Ids |-> [td[k] EXCEPT !.local = @ \/ (k \in DOMAIN next.items \ DOMAIN worker.items)]]
  /\ UNCHANGED <<account, queue, calls, clients>>

publish_projection(a, m) ==
  LET v == worker.items[m] IN
  IF changed_since(a, worker.fence, m) \/ (m \in DOMAIN a.messages /\ a.messages[m] = v) THEN a
  ELSE push_event(put_message(a, m, v), "message_changed", m)

publish_projections ==
  LET published == FoldLeft(publish_projection, account, NewestFirst(DOMAIN worker.items)) IN
  /\ worker.phase = "publish"
  /\ account' = IF fence_valid(account, worker.fence) THEN published ELSE account
  /\ account'.sequence <= MaxSequence
  /\ worker' = Idle
  /\ UNCHANGED <<td, queue, calls, clients>>

\* cancel_account, when the account is logged out or removed
cancel_account ==
  /\ ~account.ready
  /\ queue' = <<>>
  /\ UNCHANGED <<td, account, calls, worker, clients>>

Next ==
  \/ Update
  \/ \E c \in Clients : \/ messages(c) \/ fetch_local(c) \/ answer_messages(c)
                        \/ fetch_message(c) \/ answer_message(c) \/ updates(c)
                        \/ \E m \in Ids : message(c, m)
  \/ refresh_take \/ run_refresh \/ publish_projections \/ cancel_account

Spec == Init /\ [][Next]_vars

-----------------------------------------------------------------------------
(* Properties *)

Items == UNION {[S -> 1..MaxVersion] : S \in SUBSET Ids}
Calls == [phase : {"idle", "fetch", "publish"}, job : Jobs \cup {Idle.job},
          fence : Fences \cup {NoFence}, items : Items]

\* Every variable keeps its shape; the cache and the journal stay within their limits
\* (push_event, put_message).
TypeOK ==
  /\ td \in [Ids -> [version : -1..MaxVersion, local : BOOLEAN]]
  /\ account.ready \in BOOLEAN /\ account.epoch \in 1..MaxEpoch /\ account.sequence \in 0..MaxSequence
  /\ account.messages \in Items /\ Cardinality(DOMAIN account.messages) <= PerChat
  /\ Len(account.events) <= Retained
  /\ ToSet(account.events) \subseteq [sequence : 1..MaxSequence, id : Ids \cup {0},
                                      type : {"message_changed", "message_deleted", "chat_changed"}]
  /\ ToSet(queue) \subseteq Jobs /\ Len(queue) <= QueueLimit /\ IsInjective(queue)
  /\ calls \in [Clients -> Calls] /\ worker \in Calls
  /\ \A c \in Clients : /\ clients[c].held \in Items /\ clients[c].dirty \subseteq DOMAIN clients[c].held
                        /\ clients[c].cursor \in Fences \cup {NoFence}

\* A message in the cache is TDLib's current one: an answer TDLib gave before an update that
\* was handled first never overwrites it (changed_since and fence_valid, in messages, message
\* and publish_projections).
CacheFresh ==
  \A m \in DOMAIN account.messages : account.messages[m] = td[m].version

\* A client misses no change: for every message it holds that TDLib has in another version
\* (or has deleted), it already knows it must read it again, or the event is still ahead of its
\* cursor, or the cursor will be refused with resync (the cursor of a read is its fence).
ClientMissesNothing ==
  \A c \in Clients :
    fence_valid(account, clients[c].cursor) =>
      \A m \in DOMAIN clients[c].held \ clients[c].dirty :
        clients[c].held[m] = td[m].version \/ changed_since(account, clients[c].cursor, m)
=============================================================================
