----------------------------- MODULE WatchMain -----------------------------
(***************************************************************************)
(* The watch between its start and an open chat: the session with the      *)
(* phone (session.c), the list of accounts, the list of chats (chats.c),   *)
(* the state of the account's connection (connection.c), and main.c, which *)
(* opens and closes them as they report changes.  A callback runs inside   *)
(* the step that makes it, so every operator maps the whole state.         *)
(*                                                                         *)
(* Requests end with an answer or an error, at any time after they were    *)
(* submitted (RequestContract).  main.c gives the list of chats no refresh *)
(* interval, so it has no timer.  Windows above the list of chats are one  *)
(* window, "history": History and WatchSend model them.                    *)
(***************************************************************************)
EXTENDS Integers, Sequences, FiniteSets, SequencesExt

CONSTANTS
    Listings,       \* what a bootstrap may return: sequences of [id, ready]
    NoAccount,      \* no account id
    Defaults,       \* the default accounts a bootstrap may return
    NumChats,       \* chats of an account, 1..NumChats in the order of the list
    PageLimit,      \* TbChatsConfig.page_limit
    ChatCapacity,   \* TbChatsConfig.capacity
    ConnectingInterval, ConnectingLimit, UpdatingInterval, UpdatingStep, UpdatingLimit

VARIABLES
    w,              \* TbApp
    cursor          \* chatCursors of reader.js for the account on show: [next, retry]

vars == <<w, cursor>>

Accounts == UNION {{l[i].id : i \in 1..Len(l)} : l \in Listings}

ConstantsAssumption ==
    /\ NumChats \in Nat \ {0} /\ PageLimit \in Nat \ {0} /\ ChatCapacity \in Nat \ {0}
    /\ {ConnectingInterval, ConnectingLimit, UpdatingInterval, UpdatingStep, UpdatingLimit} \subseteq Nat \ {0}
    /\ NoAccount \notin Accounts /\ Defaults \subseteq Accounts \cup {NoAccount}

NoCursor == [next |-> 0, retry |-> 0]
NoDefault == 0
States == {"connecting", "updating", "ready"}

Top(a) == IF a.stack = <<>> THEN "none" ELSE a.stack[Len(a.stack)]
in_stack(a, window) == window \in ToSet(a.stack)

-----------------------------------------------------------------------------
(* connection.c.  The delay is that of the state and the polls so far.     *)

limit_of(state) == IF state = "updating" THEN UpdatingLimit ELSE ConnectingLimit
delay_of(state, polls) == IF state = "updating" THEN UpdatingInterval + polls * UpdatingStep ELSE ConnectingInterval

connection_arm(c) ==
    IF ~c.polling \/ ~c.active \/ c.pending THEN [c EXCEPT !.timer = FALSE]
    ELSE IF c.window + delay_of(c.state, c.polls) > limit_of(c.state)
    THEN [c EXCEPT !.timer = FALSE, !.polling = FALSE, !.error = IF c.state = "updating" THEN "long_update" ELSE "cannot_connect"]
    ELSE [c EXCEPT !.timer = TRUE]

enter(c, state) ==
    connection_arm([c EXCEPT !.state = state, !.known = TRUE, !.fresh = FALSE, !.error = "none",
                             !.window = 0, !.polls = 0, !.polling = state # "ready"])

Same(c, state) == c.known /\ ~c.fresh /\ state = c.state
Arrived(c, state) == c.known /\ c.state # "ready" /\ state = "ready"

tb_connection_close(c) ==
    [c EXCEPT !.account = NoAccount, !.pending = FALSE, !.timer = FALSE, !.state = "connecting", !.known = FALSE,
              !.fresh = FALSE, !.active = FALSE, !.polling = FALSE, !.error = "none", !.window = 0, !.polls = 0]

tb_connection_open(c, account) == [tb_connection_close(c) EXCEPT !.account = account, !.active = c.active]

tb_connection_summary(c, state) ==
    IF c.account = NoAccount \/ Same(c, state) THEN c ELSE enter(c, state)

tb_connection_refresh(c) ==
    IF c.account = NoAccount THEN c
    ELSE [c EXCEPT !.pending = FALSE, !.timer = FALSE, !.fresh = TRUE, !.polling = FALSE, !.error = "none"]

tb_connection_set_active(c, active) ==
    IF active THEN connection_arm([c EXCEPT !.active = TRUE]) ELSE [c EXCEPT !.active = FALSE, !.timer = FALSE]

-----------------------------------------------------------------------------
(* The window stack.  The list of chats has handlers for coming on top and *)
(* for leaving the top.                                                     *)

Restack(a, stack) ==
    LET b == [a EXCEPT !.stack = stack]
    IN  IF (Top(a) = "chats") = (Top(b) = "chats") THEN b
        ELSE [b EXCEPT !.c = tb_connection_set_active(@, Top(b) = "chats")]

window_stack_push(a, window) == Restack(a, Append(a.stack, window))
window_stack_remove(a, windows) == Restack(a, SelectSeq(a.stack, LAMBDA x : x \notin windows))
Shown(a, window) == IF in_stack(a, window) THEN a ELSE window_stack_push(a, window)

show_connect(a, retry) == Shown([a EXCEPT !.retry = retry], "connect")
show_info(a) == Shown(a, "info")

-----------------------------------------------------------------------------
(* chats.c, with what chats_changed of main.c does. *)

tb_chats_close(l) ==
    [l EXCEPT !.account = NoAccount, !.items = {}, !.op = "none", !.load = "idle", !.tail = "unknown",
              !.error = "none", !.loaded = FALSE, !.resynced = FALSE]

close_views(a) == [a EXCEPT !.c = tb_connection_close(@), !.l = tb_chats_close(@)]

reset_to_connect(a, retry) ==
    LET closed == [close_views(a) EXCEPT !.account = 0]
    IN  window_stack_remove(show_connect(closed, retry), {"history", "chats", "accounts", "info"})

\* handle_fatal: an error of the configuration ends the session's windows, one
\* of the account ends the account's.
handle_fatal(a, error) ==
    LET known == a.account \in 1..Len(a.s.accounts)
        marked == IF known THEN [a EXCEPT !.s.accounts[a.account].ready = FALSE] ELSE a
        listed == Shown(window_stack_remove(close_views(marked), {"history"}), "accounts")
    IN  CASE error = "config" -> reset_to_connect(a, TRUE)
          [] error = "account" -> show_info(window_stack_remove(listed, {"chats"}))
          [] OTHER -> a

request(a, load, op, reached) ==
    [a EXCEPT !.l.op = IF reached THEN op ELSE "none",
              !.l.load = IF reached THEN load ELSE "idle",
              !.l.error = IF reached THEN "none" ELSE "link"]

tb_chats_open(a, account, reached) ==
    request([a EXCEPT !.l = [tb_chats_close(@) EXCEPT !.account = account]], "first", "first", reached)

tb_chats_load_more(a, reached) ==
    IF a.l.load # "idle" \/ ~a.l.loaded THEN a
    ELSE CASE a.l.tail = "more"    -> request(a, "more", "next", reached)
           [] a.l.tail = "failed"  -> request(a, "more", "retry", reached)
           [] a.l.tail = "unknown" -> request(a, "refresh", "first", reached)
           [] OTHER                -> a

tb_chats_refresh(a, reached) ==
    IF a.l.load # "idle" THEN a ELSE request(a, IF a.l.loaded THEN "refresh" ELSE "first", "first", reached)

tb_chats_retry(a, reached) ==
    IF a.l.tail = "failed" /\ a.l.loaded THEN tb_chats_load_more(a, reached) ELSE tb_chats_refresh(a, reached)

\* A lost cursor starts over with the first page, once.
chats_fail(a, error, reached) ==
    LET ended == [a EXCEPT !.l.op = "none", !.l.load = "idle"]
        told == [ended EXCEPT !.l.error = error, !.l.tail = IF a.l.load = "more" THEN "failed" ELSE @]
    IN  IF error = "cursor_lost" /\ ~a.l.resynced
        THEN request([ended EXCEPT !.l.resynced = TRUE], "refresh", "first", reached)
        ELSE handle_fatal(told, error)

\* append: one page's chats, as far as there is room.
append(l, chats) ==
    LET news == chats \ l.items
        taken == {c \in news : Cardinality(l.items) + Cardinality({d \in news : d < c}) < ChatCapacity}
        items == l.items \cup taken
    IN  IF l.tail = "full" THEN l
        ELSE [l EXCEPT !.items = items,
                       !.tail = IF Cardinality(items) >= ChatCapacity /\ Cardinality(taken) < Cardinality(chats)
                                THEN "full" ELSE @]

\* The first chunk of an answer replaces the list, or goes on with it.
chats_begun(l) ==
    [l EXCEPT !.items = IF l.load # "more" THEN {} ELSE @,
              !.tail = IF l.load # "more" \/ @ = "failed" \/ (@ = "full" /\ Cardinality(l.items) < ChatCapacity)
                       THEN "unknown" ELSE @]

chats_summary(a, state) == [a EXCEPT !.c = tb_connection_summary(@, state)]

chats_ended(l, tail) ==
    [l EXCEPT !.op = "none", !.load = "idle", !.error = "none", !.resynced = FALSE, !.loaded = TRUE,
              !.tail = IF @ = "full" THEN @ ELSE tail]

\* Mutant: an answer that changes nothing does not go on with the polls.
ApplyWithoutProceed(a, state, reached) ==
    LET c == [a.c EXCEPT !.pending = FALSE]
    IN  [a EXCEPT !.c = IF Same(c, state) THEN c ELSE enter(c, state)]

\* connection.c: an answer to a poll.  A connection that has become ready
\* reloads the list.
apply(a, state, reached) ==
    LET c == [a.c EXCEPT !.pending = FALSE]
    IN  IF Same(c, state) THEN [a EXCEPT !.c = IF c.polling THEN connection_arm(c) ELSE c]
        ELSE LET entered == [a EXCEPT !.c = enter(c, state)]
             IN  IF Arrived(c, state) THEN tb_chats_refresh(entered, reached) ELSE entered

-----------------------------------------------------------------------------
(* session.c, with route of main.c. *)

open_account(a, index, reached) ==
    LET account == a.s.accounts[index]
        opened == tb_chats_open([a EXCEPT !.account = index, !.c = tb_connection_open(@, account.id)], account.id, reached)
    IN  IF account.ready THEN Shown(opened, "chats") ELSE show_info(a)

Find(s, id) == SelectInSeq(s.accounts, LAMBDA x : x.id = id)

tb_session_initial_account(s) ==
    LET found == Find(s, s.default)
    IN  IF found > 0 /\ s.accounts[found].ready THEN found
        ELSE IF Len(s.accounts) = 1 /\ s.accounts[1].ready THEN 1 ELSE 0

route(a, reached) ==
    LET initial == tb_session_initial_account(a.s)
        listed == IF Len(a.s.accounts) > 1 \/ initial = 0 THEN window_stack_push(a, "accounts") ELSE a
        opened == IF initial > 0 THEN open_account(listed, initial, reached) ELSE listed
        busy == in_stack(a, "accounts") \/ in_stack(a, "chats")
    IN  IF a.s.phase # "idle" THEN (IF busy THEN a ELSE show_connect(a, FALSE))
        ELSE IF a.s.error # "none" THEN reset_to_connect(a, TRUE)
        ELSE IF ~a.s.loaded THEN a
        ELSE IF a.s.accounts = <<>> THEN reset_to_connect(a, TRUE)
        ELSE IF busy THEN a
        ELSE window_stack_remove(opened, {"connect"})

settle(a, error, reached) == route([a EXCEPT !.s.phase = "idle", !.s.error = error], reached)

\* Either phase starts with a request; one that cannot be submitted settles.
BeginPhase(a, phase, reached) ==
    LET begun == route([a EXCEPT !.s.phase = phase, !.s.error = "none"], FALSE)
    IN  IF reached THEN begun ELSE settle(begun, "link", FALSE)

bootstrap(a, reached) == BeginPhase(a, "bootstrap", reached)
Emptied(a) == [a EXCEPT !.s.loaded = FALSE, !.s.accounts = <<>>]
tb_session_start(a, ready, reached) ==
    IF ready THEN BeginPhase(Emptied(a), "hello", reached) ELSE settle(Emptied(a), "link", FALSE)
tb_session_retry(a, reached) == IF a.s.phase = "idle" THEN tb_session_start(a, TRUE, reached) ELSE a
tb_session_refresh(a, reached) == IF a.s.phase = "hello" THEN a ELSE bootstrap(Emptied(a), reached)

-----------------------------------------------------------------------------
(* The steps. *)

Do(a) == w' = a /\ UNCHANGED cursor
Running == w.stack # <<>>

\* READY: the answer to a hello, or one that comes late.
tb_session_ready ==
    /\ Running
    /\ w.s.phase = "hello" \/ (w.s.phase = "idle" /\ ~w.s.loaded)
    /\ \E reached \in BOOLEAN : Do(bootstrap(w, reached))

session_fails ==
    /\ Running /\ w.s.phase # "idle"
    /\ \E error \in {"link", "config", "other"} :
           /\ w.s.phase = "hello" => error = "link"
           /\ Do(settle([w EXCEPT !.s.accounts = IF error = "other" THEN <<>> ELSE @], error, FALSE))

\* parse: a chunk of the listing; the last one settles.
session_chunk ==
    /\ Running /\ w.s.phase = "bootstrap"
    /\ \E listing \in Listings, default \in Defaults :
           /\ Len(listing) > 1
           /\ Do([w EXCEPT !.s.accounts = <<listing[1]>>, !.s.default = default])

session_loads ==
    /\ Running /\ w.s.phase = "bootstrap"
    /\ \E listing \in Listings, default \in Defaults, reached \in BOOLEAN :
           Do(settle([w EXCEPT !.s.accounts = listing, !.s.default = default, !.s.loaded = TRUE], "none", reached))

retry_session ==
    /\ Top(w) = "connect" /\ w.retry
    /\ \E reached \in BOOLEAN : Do(tb_session_retry(w, reached))

\* Mutant: the accounts are listed anew under the open windows.
RefreshInPlace ==
    /\ Running
    /\ \E reached \in BOOLEAN : w' = tb_session_refresh(w, reached)
    /\ cursor' = NoCursor

\* The settings on the phone have changed.
settings_changed ==
    /\ Running
    /\ \E reached \in BOOLEAN : w' = tb_session_refresh(reset_to_connect(w, FALSE), reached)
    /\ cursor' = NoCursor

select_account ==
    /\ Top(w) = "accounts"
    /\ \E i \in 1..Len(w.s.accounts), reached \in BOOLEAN : Do(open_account(w, i, reached))

make_default ==
    /\ Top(w) = "accounts" /\ w.defaulting = NoDefault
    /\ \E i \in 1..Len(w.s.accounts) : Do([w EXCEPT !.defaulting = i])

\* The index is the one of the request, the accounts are those of now.
default_saved ==
    /\ Running /\ w.defaulting # NoDefault
    /\ \E ok \in BOOLEAN :
           LET valid == ok /\ w.defaulting <= Len(w.s.accounts)
           IN  Do([w EXCEPT !.defaulting = NoDefault, !.s.default = IF valid THEN w.s.accounts[w.defaulting].id ELSE @])

back ==
    /\ Running
    /\ Do(Restack(w, SubSeq(w.stack, 1, Len(w.stack) - 1)))

open_chat ==
    /\ Top(w) = "chats" /\ w.l.items # {} /\ w.account > 0
    /\ Do(window_stack_push(w, "history"))

\* history_changed: what the open chat may report.
history_changed ==
    /\ in_stack(w, "history")
    /\ \/ \E error \in {"config", "account"} : Do(handle_fatal(w, error))
       \/ \E reached \in BOOLEAN : Do(tb_chats_refresh(show_info(window_stack_remove(w, {"history"})), reached))

\* select_click and selection_changed of the list's window.
toggle_list ==
    /\ Top(w) = "chats"
    /\ \E reached \in BOOLEAN : Do(tb_chats_open(w, w.l.account, reached))

refresh(a, reached) == tb_chats_refresh([a EXCEPT !.c = tb_connection_refresh(@)], reached)

select_tail ==
    /\ Top(w) = "chats"
    /\ \E reached \in BOOLEAN :
           Do(IF ~w.l.loaded /\ w.l.error # "none" THEN tb_chats_retry(w, reached)
              ELSE IF w.l.items = {} THEN refresh(w, reached) ELSE tb_chats_load_more(w, reached))

\* A long press, the pull gesture, the action of a notice.
refresh_all ==
    /\ Top(w) \in {"chats", "history"}
    /\ \E reached \in BOOLEAN : Do(refresh(w, reached))

focus_changed ==
    /\ Top(w) = "chats"
    /\ \E in_focus \in BOOLEAN : Do([w EXCEPT !.c = tb_connection_set_active(@, in_focus)])

phone_connection ==
    /\ Running
    /\ \E reached \in BOOLEAN :
           \/ w.s.phase = "idle" /\ w.s.error = "link" /\ Do(tb_session_retry(w, reached))
           \/ w.s.error # "link" /\ in_stack(w, "chats") /\ w.l.error = "link" /\ w.l.load = "idle" /\ Do(tb_chats_retry(w, reached))

connection_timer ==
    /\ w.c.timer
    /\ \E reached \in BOOLEAN :
           LET polled == [w.c EXCEPT !.timer = FALSE, !.window = @ + delay_of(w.c.state, w.c.polls), !.polls = @ + 1]
           IN  Do([w EXCEPT !.c = IF reached THEN [polled EXCEPT !.pending = TRUE] ELSE connection_arm(polled)])

connection_completed ==
    /\ Running /\ w.c.pending
    /\ \/ \E state \in States, reached \in BOOLEAN : Do(apply(w, state, reached))
       \/ Do([w EXCEPT !.c = IF w.c.polling THEN connection_arm([@ EXCEPT !.pending = FALSE]) ELSE [@ EXCEPT !.pending = FALSE]])

\* A page as chats of reader.js asks for it and the account has it: the next
\* chats, as many as are known, with the flags that tail_from reads.
From(op) == IF op = "next" THEN cursor.next ELSE IF op = "retry" /\ cursor.retry > 0 THEN cursor.retry ELSE 1

\* The first chunk of several, with the summary.
chats_chunk ==
    /\ Running /\ w.l.op # "none" /\ From(w.l.op) > 0
    /\ \E n \in 0..PageLimit - 1, state \in States :
           /\ From(w.l.op) + n <= NumChats
           /\ Do(chats_summary([w EXCEPT !.l = append(chats_begun(@), From(w.l.op)..(From(w.l.op) + n - 1))], state))

tail_from(rest, partial) ==
    IF rest = "more" THEN "more" ELSE IF partial THEN "failed" ELSE rest

\* The account knows that there are more chats, or that there are none, or it
\* does not know.
chats_completed ==
    /\ Running /\ w.l.op # "none" /\ From(w.l.op) > 0
    /\ \E n \in 0..PageLimit, rest \in {"more", "end", "unknown"}, failed \in BOOLEAN :
           LET first == From(w.l.op)
               after == first + n
               partial == failed \/ (rest = "unknown" /\ n < PageLimit)
               listed == [w EXCEPT !.l = chats_ended(append(chats_begun(@), first..(after - 1)), tail_from(rest, partial))]
           IN  /\ after <= NumChats + 1
               /\ rest = "more" => n = PageLimit /\ after <= NumChats
               /\ rest = "end" => after = NumChats + 1 /\ ~failed
               /\ cursor' = [next |-> IF rest = "more" THEN after ELSE 0, retry |-> IF partial THEN first ELSE 0]
               /\ \/ w' = chats_fail(w, "link", FALSE)
                  \/ \E state \in States : w' = chats_summary(listed, state)

chats_fails ==
    /\ Running /\ w.l.op # "none"
    /\ \E error \in {"link", "cursor_lost", "config", "account"}, reached \in BOOLEAN :
           /\ w' = chats_fail(w, error, reached)
           /\ cursor' = IF error = "cursor_lost" THEN NoCursor ELSE cursor

-----------------------------------------------------------------------------
started ==
    [s |-> [phase |-> "idle", error |-> "none", loaded |-> FALSE, accounts |-> <<>>, default |-> NoAccount],
     c |-> tb_connection_close([account |-> NoAccount, pending |-> FALSE, timer |-> FALSE, state |-> "connecting",
                                known |-> FALSE, fresh |-> FALSE, active |-> FALSE, polling |-> FALSE, error |-> "none",
                                window |-> 0, polls |-> 0]),
     l |-> [account |-> NoAccount, items |-> {}, op |-> "none", load |-> "idle", tail |-> "unknown", error |-> "none",
            loaded |-> FALSE, resynced |-> FALSE],
     stack |-> <<"connect">>, retry |-> FALSE, account |-> 0, defaulting |-> NoDefault]

\* init of main.c, with the message channel open or not.
Init ==
    /\ \E ready, reached \in BOOLEAN : w = tb_session_start(started, ready, reached)
    /\ cursor = NoCursor

Next ==
    \/ tb_session_ready \/ session_fails \/ session_chunk \/ session_loads \/ retry_session \/ settings_changed
    \/ select_account \/ make_default \/ default_saved \/ back \/ open_chat \/ history_changed \/ toggle_list
    \/ select_tail \/ refresh_all \/ focus_changed \/ phone_connection \/ connection_timer \/ connection_completed
    \/ chats_chunk \/ chats_completed \/ chats_fails

Spec == Init /\ [][Next]_vars

-----------------------------------------------------------------------------
(* Properties. *)

\* The variables have their types: the capacity of the list and the time a
\* state of the connection may last included.
TypeOK ==
    /\ w.s.phase \in {"idle", "hello", "bootstrap"} /\ w.s.accounts \in Seq([id : Accounts, ready : BOOLEAN])
    /\ w.c.account \in Accounts \cup {NoAccount} /\ w.c.state \in States /\ w.c.window <= limit_of(w.c.state)
    /\ w.l.items \subseteq 1..NumChats /\ Cardinality(w.l.items) <= ChatCapacity
    /\ w.l.load \in {"idle", "first", "more", "refresh"} /\ w.l.tail \in {"more", "unknown", "end", "full", "failed"}
    /\ w.account \in 0..Len(w.s.accounts)
    /\ ToSet(w.stack) \subseteq {"connect", "accounts", "chats", "history", "info"}

\* While the list of chats or a chat is open, the index main.c keeps, the list
\* and the connection are about one account, and it is a listed one: a new
\* listing never changes what the index means.
OneAccount ==
    in_stack(w, "chats") =>
        /\ w.account \in 1..Len(w.s.accounts)
        /\ {w.c.account, w.l.account} = {w.s.accounts[w.account].id}

\* A window that shows nothing but a wait offers a way on: when the session is
\* not busy, the connect window has its retry; and a list of chats that is
\* neither loaded nor loading shows an error to retry.
WayOn ==
    /\ Top(w) = "connect" /\ w.s.phase = "idle" => w.retry
    /\ Top(w) = "chats" /\ ~w.l.loaded => w.l.load # "idle" \/ w.l.error # "none"

\* While the list is in focus and the connection is not ready, it is polled,
\* or a page of chats that carries its state is under way, or the user has
\* been told of an error.
ConnectionFollowed ==
    w.c.active /\ w.c.state # "ready" =>
        \/ w.c.timer \/ w.c.pending \/ w.c.error # "none"
        \/ w.l.load # "idle" \/ w.l.error # "none"

\* A list that says it is at its end has every chat, whatever answers were
\* lost, cut short or repeated on the way.
EndHasAll == w.l.tail = "end" /\ w.l.loaded => w.l.items = 1..NumChats

\* The windows are typed and about one listed account, and a list at its end is
\* complete.
WindowsAgree == TypeOK /\ OneAccount /\ EndHasAll

\* No window leaves the user waiting for something that will not come.
NeverStuck == WayOn /\ ConnectionFollowed
=============================================================================
