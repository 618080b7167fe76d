------------------------------ MODULE ChatPages ------------------------------
(***************************************************************************)
(* Paging through one chat list of an account: the order of the chats as   *)
(* TDLib moves them, the log of those moves, and the read that serves the  *)
(* list page by page while TDLib still loads it.  Sources: chat_reads.cpp, *)
(* ChatOrderLog of account_state.hpp, the position handlers of             *)
(* runtime_engine.cpp with apply_position and record_order_change.         *)
(*                                                                         *)
(* A cursor is the boundary it encodes (version of the log, order and id   *)
(* of the last chat shown) and the session; its signature and its expiry   *)
(* are left out.  The other list behaves the same with a log of its own.   *)
(* The chats of a page are a set: orders and ids sort them, and the page   *)
(* ends at its boundary.                                                   *)
(***************************************************************************)
EXTENDS Integers, Sequences, FiniteSets

CONSTANTS Ids,          \* chats, numbered from 1: only the order of their ids matters
          Orders,       \* orders TDLib gives; 0 is not in the list
          Announced,    \* the orders TDLib has at first, none loaded
          Limit,        \* page limit
          Retained,     \* moves the log keeps (512)
          MaxLoads,     \* loadChats calls of one read (8)
          MaxVersion,   \* bound: moves of the list
          MaxEpoch      \* bound: sessions

ConstantsAssumption ==
  /\ Ids \subseteq Nat \ {0} /\ IsFiniteSet(Ids) /\ Orders \subseteq Nat /\ 0 \in Orders
  /\ Announced \in [Ids -> Orders \ {0}]
  /\ {Limit, Retained, MaxLoads, MaxVersion, MaxEpoch} \subseteq Nat \ {0}

VARIABLES chats,      \* order of each chat in the list, 0 when it is not in it
          unloaded,   \* chats TDLib has not announced yet
          log,        \* ChatOrderLog
          exhausted,  \* main_exhausted
          session,    \* the account's session: epoch, and whether it can be read
          call,       \* the read in progress
          walk        \* what the client has shown, and the cursor it goes on with
vars == <<chats, unloaded, log, exhausted, session, call, walk>>

NoBoundary == [version |-> 0, order |-> 0, id |-> 0, epoch |-> 0]
Idle == [phase |-> "idle"]
Fresh == [shown |-> {}, cursor |-> NoBoundary]

Larger(a, b) == IF a > b THEN a ELSE b
before_boundary(o, c, b) == o < b.order \/ (o = b.order /\ c < b.id)
Listed == {c \in Ids : chats[c] # 0}
Below(b) == {c \in Listed : b = NoBoundary \/ before_boundary(chats[c], c, b)}
Through(b) == Listed \ Below(b)      \* the list down to the boundary

-----------------------------------------------------------------------------
(* ChatOrderLog *)

record(l, order) ==
  LET all == Append(l.entries, [version |-> l.version + 1, order |-> order])
      full == Len(all) > Retained
  IN  [version |-> l.version + 1,
       base |-> IF full THEN Head(all).version ELSE l.base,
       entries |-> IF full THEN Tail(all) ELSE all]

reset(l) == [version |-> l.version + 1, base |-> l.version + 1, entries |-> <<>>]

disturbed(b) ==
  /\ b # NoBoundary
  /\ \/ b.version < log.base
     \/ \E i \in DOMAIN log.entries : log.entries[i].version > b.version /\ log.entries[i].order >= b.order

Init ==
  /\ chats = [c \in Ids |-> 0] /\ unloaded = Ids
  /\ log = [version |-> 0, base |-> 0, entries |-> <<>>]
  /\ exhausted = FALSE
  /\ session = [epoch |-> 1, ready |-> TRUE]
  /\ call = Idle /\ walk = Fresh

-----------------------------------------------------------------------------
(* Updates *)

record_order_change_NewOnly(old, new) == IF old = new THEN log ELSE record(log, new)

\* A move is recorded at the higher of its two places
record_order_change(old, new) == IF old = new THEN log ELSE record(log, Larger(old, new))

\* updateChatPosition, updateChatLastMessage, updateChatDraftMessage
updatePosition(c, o) ==
  /\ session.ready /\ c \notin unloaded /\ log.version < MaxVersion
  /\ chats' = [chats EXCEPT ![c] = o]
  /\ log' = record_order_change(chats[c], o)
  /\ UNCHANGED <<unloaded, exhausted, session, call, walk>>

\* updateNewChat: TDLib announces a chat, when it is loaded or something happens in it
updateNewChat(c) ==
  /\ session.ready /\ c \in unloaded /\ log.version < MaxVersion
  /\ chats' = [chats EXCEPT ![c] = Announced[c]]
  /\ unloaded' = unloaded \ {c}
  /\ log' = record_order_change(chats[c], Announced[c])
  /\ UNCHANGED <<exhausted, session, call, walk>>

\* The session is left (reset_session), and entered again: TDLib starts over
leave_session ==
  /\ session.ready /\ session.epoch < MaxEpoch
  /\ session' = [epoch |-> session.epoch + 1, ready |-> FALSE]
  /\ chats' = [c \in Ids |-> 0] /\ unloaded' = Ids
  /\ log' = reset(log) /\ exhausted' = FALSE
  /\ UNCHANGED <<call, walk>>

enter_session ==
  /\ ~session.ready /\ session' = [session EXCEPT !.ready = TRUE]
  /\ UNCHANGED <<chats, unloaded, log, exhausted, call, walk>>

-----------------------------------------------------------------------------
(* ReadModelService::chats *)

Fenced == session.ready /\ session.epoch = call.epoch

\* sync.resync_required or cursor.unusable: the client starts over
Resync == call' = Idle /\ walk' = Fresh /\ UNCHANGED <<chats, unloaded, log, exhausted, session>>
Go(next) == call' = next /\ UNCHANGED <<chats, unloaded, log, exhausted, session, walk>>

\* The fence is taken and the cursor decoded
chats_begin ==
  /\ session.ready /\ call.phase = "idle"
  /\ IF walk.cursor # NoBoundary /\ walk.cursor.epoch # session.epoch THEN Resync
     ELSE Go([phase |-> "check", epoch |-> session.epoch, boundary |-> walk.cursor, loads |-> 0])

\* Whether enough is loaded; the loop ends after MaxLoads requests, or at its deadline
chats_check ==
  LET enough == Cardinality(Below(call.boundary)) > Limit \/ exhausted
  IN
  /\ call.phase = "check"
  /\ IF ~Fenced \/ disturbed(call.boundary) THEN Resync
     ELSE \/ Go([call EXCEPT !.phase = "collect"])
          \/ ~enough /\ call.loads < MaxLoads /\ Go([call EXCEPT !.phase = "load", !.loads = @ + 1])

\* loadChats answers: done, nothing left to load (404), or failed or timed out
load_answer ==
  /\ call.phase = "load"
  /\ \/ Go([call EXCEPT !.phase = "check"])
     \/ Fenced /\ unloaded = {} /\ Go([call EXCEPT !.phase = "ended"])
     \/ Go([call EXCEPT !.phase = "collect"])

\* The answer 404 is taken: the list is exhausted, if the session is still the one that asked
load_end ==
  /\ call.phase = "ended"
  /\ exhausted' = (exhausted \/ Fenced)
  /\ call' = [call EXCEPT !.phase = "collect"]
  /\ UNCHANGED <<chats, unloaded, log, session, walk>>

Answer(items, next) ==
  Go([phase |-> "answer", epoch |-> call.epoch, boundary |-> call.boundary, items |-> items, next |-> next])

\* Under one lock the log's version and the chats are taken; then they are sorted, those the earlier
\* pages have shown are dropped, and the page is cut: its last chat is the next boundary
chats_collect ==
  LET rest == Below(call.boundary) IN
  /\ call.phase = "collect"
  /\ IF ~Fenced \/ disturbed(call.boundary) THEN Resync
     ELSE \/ Cardinality(rest) <= Limit /\ Answer(rest, NoBoundary)
          \/ \E last \in rest :
               LET next == [version |-> log.version, order |-> chats[last], id |-> last, epoch |-> call.epoch]
                   items == rest \ Below(next)
               IN  Cardinality(rest) > Limit /\ Cardinality(items) = Limit /\ Answer(items, next)

\* The cursor is taken when the answer is made, after the sort
chats_answer_LateVersion ==
  /\ call.phase = "answer"
  /\ IF ~Fenced \/ disturbed(call.boundary) THEN Resync
     ELSE /\ walk' = IF call.next = NoBoundary THEN Fresh
                     ELSE [shown |-> walk.shown \cup call.items, cursor |-> [call.next EXCEPT !.version = log.version]]
          /\ call' = Idle
          /\ UNCHANGED <<chats, unloaded, log, exhausted, session>>

\* The answer is given unless the boundary was disturbed meanwhile.  Without a cursor the client
\* has come to the end, or to a partial page, and its next walk starts over.
chats_answer ==
  /\ call.phase = "answer"
  /\ IF ~Fenced \/ disturbed(call.boundary) THEN Resync
     ELSE /\ walk' = IF call.next = NoBoundary THEN Fresh
                     ELSE [shown |-> walk.shown \cup call.items, cursor |-> call.next]
          /\ call' = Idle
          /\ UNCHANGED <<chats, unloaded, log, exhausted, session>>

\* The client shows the first page again
restart == call.phase = "idle" /\ walk # Fresh /\ Resync

Next ==
  \/ \E c \in Ids, o \in Orders : updatePosition(c, o)
  \/ \E c \in Ids : updateNewChat(c)
  \/ leave_session \/ enter_session
  \/ chats_begin \/ chats_check \/ load_answer \/ load_end \/ chats_collect \/ chats_answer \/ restart

Spec == Init /\ [][Next]_vars

-----------------------------------------------------------------------------
\* The order log keeps at most Retained moves, contiguous up to its version (ChatOrderLog::record)
TypeOK ==
  /\ chats \in [Ids -> Orders] /\ unloaded \subseteq Ids
  /\ log.base \in Nat /\ log.base + Len(log.entries) = log.version /\ Len(log.entries) <= Retained
  /\ \A i \in DOMAIN log.entries : log.entries[i] \in [version : {log.base + i}, order : Orders]
  /\ exhausted \in BOOLEAN /\ session \in [epoch : Nat, ready : BOOLEAN]
  /\ call.phase \in {"idle", "check", "load", "ended", "collect", "answer"}
  /\ walk.shown \subseteq Ids
  /\ walk.cursor \in [version : Nat, order : Orders, id : Ids \cup {0}, epoch : Nat]

\* While the order log does not reject the client's cursor (ChatOrderLog::disturbed), what the
\* client has shown is exactly the present list down to the cursor's chat: no chat was skipped
\* and none has left or moved below, whatever moved between its pages.
CursorExact ==
  (walk.cursor # NoBoundary /\ session.ready /\ walk.cursor.epoch = session.epoch /\ ~disturbed(walk.cursor))
    => walk.shown = Through(walk.cursor)

\* A list marked exhausted has been announced to its end: a 404 that answers a session since left
\* does not end the list of the next one, and a page that says there is no more is the last.
ExhaustedIsTrue == exhausted => unloaded = {}

\* The order log, the cursors it accepts and the end of the list say what is so.
PagesSound == TypeOK /\ CursorExact /\ ExhaustedIsTrue

\* Every page that is collected continues what was shown: none of it was shown before, together
\* they are the list down to the new boundary, or the whole list when there is none.
PageContinues ==
  [][(call.phase = "collect" /\ call'.phase = "answer") =>
       /\ walk.shown \cap call'.items = {}
       /\ walk.shown \cup call'.items = IF call'.next = NoBoundary THEN Listed ELSE Through(call'.next)]_vars
=============================================================================
