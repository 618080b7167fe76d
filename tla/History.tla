------------------------------ MODULE History ------------------------------
(***************************************************************************)
(* Reading a chat on the watch: the history controller (history.c), the    *)
(* events its window (history_window.c) and main.c pass to it, and the     *)
(* page cursors the phone keeps for it.  The watch holds one run of        *)
(* messages; it adds older pages in front, merges the newest page at the   *)
(* end, and gives up the newest messages when memory is short.             *)
(*                                                                         *)
(* Messages are the numbers 1..posted, in the order of their ids.  Due     *)
(* times are kept as set or not set: any of those set may be due when the  *)
(* timer fires.  Texts are long or short.                                  *)
(***************************************************************************)
EXTENDS Integers, Sequences, FiniteSets, SequencesExt

CONSTANTS
    MaxKey,     \* bound: messages that may be posted
    Limit,      \* TbHistoryConfig.page_limit
    Capacity,   \* TbHistoryConfig.capacity
    Budget,     \* TbHistoryConfig.text_budget: a long text counts 2, another 1
    Delays,     \* how many followup_delays there are: 2
    Long,       \* the messages with a long text
    Album,      \* message |-> its album, or 0
    Captioned,  \* the messages of albums that have a text
    Refusals,   \* the errors the phone may answer with
    Cuts        \* the pages that may end early, as when the account has only part of the chat

VARIABLES
    h,          \* TbHistory, and its window
    slot,       \* the page the phone works on, or "none"
    cursor,     \* historyCursors of reader.js, for the chat that was opened last
    posted,     \* messages in the chat
    skipped     \* history variable: the phone moved its cursor past an older page that
                \* the watch never took, or sent a full newest page as a short one

vars == <<h, slot, cursor, posted, skipped>>

Keys == 1..MaxKey
Newest == MaxKey + 1       \* the anchor of a first page: every message is older
None == 0

Tops == {"more", "loading", "failed", "waiting", "start", "unknown"}
Pages == {"first", "next", "retry", "recheck", "refresh"}
Ops == {"none", "first", "refresh", "older"}
Errors == {"none", "link", "cursor_lost", "gone", "fatal", "other"}

ASSUME ConstantsAssumption ==
    /\ MaxKey \in Nat \ {0} /\ Limit \in Nat \ {0} /\ Capacity \in Nat /\ Budget \in Nat /\ Delays \in Nat
    /\ Limit <= Capacity /\ Long \subseteq Keys /\ Captioned \subseteq Keys /\ Album \in [Keys -> Nat]
    /\ Refusals \subseteq {"cursor_lost", "gone", "fatal", "other"} /\ Cuts \subseteq Pages

NoFlags == [more |-> FALSE, partial |-> FALSE, exhausted |-> FALSE, waiting |-> FALSE]
NoCursor == [known |-> FALSE, older |-> FALSE, next |-> None, retry |-> None, tail |-> None]

-----------------------------------------------------------------------------
(* history.c: the parts.  A handler maps TbHistory to the next one.        *)

Size(k) == IF k \in Long THEN 2 ELSE 1
Used(keys) == FoldSet(LAMBDA k, sum : sum + Size(k), 0, keys)
Last1(s) == s[Len(s)]
Take(s, n) == SubSeq(s, 1, IF n < Len(s) THEN n ELSE Len(s))

\* over_limits: texts of the items and of the page count together.
over_limits(a, count) == count > Capacity \/ Used(ToSet(a.items)) + Used(a.staging) > Budget

arm(a) == [a EXCEPT !.timer = a.followup \/ a.recheck \/ a.periodic]

schedule_periodic(a) == [a EXCEPT !.periodic = a.active /\ a.loaded /\ ~a.truncated]

\* stage: the records of the chunks of a page.
stage(a, records) == [a EXCEPT !.staging = records]

sort_staging(keys) == SetToSortSeq(keys, <)

tb_history_close(a) ==
    [a EXCEPT !.pending = "none", !.staging = {}, !.op = "none", !.active = FALSE,
              !.followup = FALSE, !.recheck = FALSE, !.periodic = FALSE, !.timer = FALSE]

\* history_changed of main.c: an error of the account or the connection closes
\* every window, and so does a chat that is gone.
history_changed(a) ==
    CASE a.error = "fatal" -> [tb_history_close(a) EXCEPT !.window = "closed"]
      [] a.error = "gone"  -> [tb_history_close(a) EXCEPT !.window = "closed", !.loaded = FALSE]
      [] OTHER             -> a

\* A request that cannot be submitted fails at once, without a timer.
submit(a, op, page, reached) ==
    LET asked == [a EXCEPT !.staging = {}, !.pending = page, !.op = op,
                           !.top = IF op = "older" THEN "loading" ELSE @,
                           !.error = IF op = "first" THEN "none" ELSE @]
        refused == [asked EXCEPT !.pending = "none", !.op = "none"]
    IN  history_changed(
            IF reached THEN asked
            ELSE IF ~a.loaded THEN [refused EXCEPT !.error = "link"]
            ELSE IF op = "older" THEN [refused EXCEPT !.top = "failed", !.top_error = "link"]
            ELSE [refused EXCEPT !.refresh_error = "link"])

Fits(s) == Len(s) <= Capacity /\ Used(ToSet(s)) <= Budget

evict_newest(a) ==
    LET kept == CHOOSE n \in 0..Len(a.items) :
                    /\ n = 0 \/ Fits(SubSeq(a.items, 1, n))
                    /\ n = Len(a.items) \/ ~Fits(SubSeq(a.items, 1, n + 1))
    IN  [a EXCEPT !.items = SubSeq(@, 1, kept), !.truncated = @ \/ kept < Len(a.items)]

append_staging(items, page) ==
    FoldLeft(LAMBDA s, k : IF (s # <<>> /\ k <= Last1(s)) \/ Len(s) >= Capacity THEN s ELSE Append(s, k), items, page)

prepend_staging(a) ==
    LET older == {k \in a.staging : a.items = <<>> \/ k < a.items[1]}
        accepted == Take(sort_staging(older), Capacity)
        room == Capacity - Len(accepted)
    IN  IF older = {} THEN [a EXCEPT !.staging = {}]
        ELSE [a EXCEPT !.staging = {}, !.items = accepted \o Take(@, room),
                       !.truncated = @ \/ Len(a.items) > room]

set_top_from(a, flags, older) ==
    LET waits == flags.waiting /\ (flags.partial \/ flags.exhausted)
        again == waits /\ older /\ a.rechecks < Delays
        ended == IF flags.partial THEN "failed" ELSE IF flags.exhausted THEN "start" ELSE "unknown"
    IN  IF flags.more
        THEN [a EXCEPT !.top_error = "none", !.top = "more", !.top_op = "next", !.rechecks = 0, !.recheck = FALSE]
        ELSE [a EXCEPT !.top_error = "none",
                       !.top_op = IF ~older THEN "refresh" ELSE IF flags.partial THEN "retry" ELSE "recheck",
                       !.top = IF again \/ (waits /\ ~older) THEN "waiting" ELSE ended,
                       !.rechecks = IF again THEN @ + 1 ELSE @,
                       !.recheck = @ \/ again]

\* Mutant: a page is merged whether or not it meets the items.
MergeUnchecked(a, flags, first) ==
    LET page == sort_staging(a.staging)
        kept == IF page = <<>> THEN a.items ELSE SelectSeq(a.items, LAMBDA k : k < page[1])
    IN  IF first \/ a.items = <<>>
        THEN set_top_from([a EXCEPT !.items = append_staging(<<>>, page), !.staging = {}, !.truncated = FALSE], flags, FALSE)
        ELSE [a EXCEPT !.items = append_staging(kept, page), !.staging = {}]

\* Mutant: a page that does not meet the items is dropped without a word.
MergeDropping(a, flags, first) ==
    LET page == sort_staging(a.staging)
    IN  IF first \/ a.items = <<>>
        THEN set_top_from([a EXCEPT !.items = append_staging(<<>>, page), !.staging = {}, !.truncated = FALSE], flags, FALSE)
        ELSE [a EXCEPT !.staging = {}]

merge_newest(a, flags, first) ==
    LET page == sort_staging(a.staging)
        kept == SelectSeq(a.items, LAMBDA k : k < page[1])
        contiguous == page[1] <= Last1(a.items) \/ Len(page) < Limit
    IN  IF first \/ a.items = <<>>
        THEN set_top_from([a EXCEPT !.items = append_staging(<<>>, page), !.staging = {}, !.truncated = FALSE], flags, FALSE)
        ELSE IF page = <<>> THEN a
        ELSE IF ~contiguous \/ over_limits(a, Len(kept) + Len(page))
        THEN [a EXCEPT !.staging = {}, !.truncated = TRUE]
        ELSE [a EXCEPT !.items = append_staging(kept, page), !.staging = {}]

finish_newest(a, flags, first) ==
    LET merged == [merge_newest(a, flags, first) EXCEPT !.loaded = TRUE, !.refresh_error = "none"]
        again == flags.waiting /\ a.chain /\ a.followups < Delays
    IN  schedule_periodic([merged EXCEPT !.followup = again, !.chain = again,
                                         !.followups = IF again THEN @ + 1 ELSE @])

\* Neighbours of one album become one item: the older, or the one with a text.
merge_albums(items) ==
    FoldLeft(LAMBDA s, k :
                 IF s # <<>> /\ Album[k] # 0 /\ Album[Last1(s)] = Album[k]
                 THEN IF Last1(s) \notin Captioned /\ k \in Captioned THEN [s EXCEPT ![Len(s)] = k] ELSE s
                 ELSE Append(s, k),
             <<>>, items)

finish(a, flags) ==
    LET ended == [a EXCEPT !.pending = "none", !.op = "none", !.error = "none", !.resynced = FALSE]
        paged == evict_newest(IF a.op = "older" THEN set_top_from(prepend_staging(ended), flags, TRUE)
                              ELSE finish_newest(ended, flags, a.op = "first"))
        merged == [paged EXCEPT !.items = merge_albums(@), !.periodic = @ /\ ~paged.truncated]
    IN  history_changed(arm(merged))

\* A lost cursor starts over with the first page, once.
fail(a, error, reached) ==
    LET ended == [a EXCEPT !.pending = "none", !.op = "none", !.staging = {}]
        whole == ~a.loaded \/ error \in {"fatal", "gone"}
        told == [ended EXCEPT !.error = IF whole THEN error ELSE @,
                              !.refresh_error = IF ~whole /\ a.op # "older" THEN error ELSE @]
        stuck == (~whole /\ a.op = "older") \/ (a.loaded /\ a.top = "loading")
        topped == [told EXCEPT !.top = IF stuck THEN "failed" ELSE @, !.top_error = IF stuck THEN error ELSE @]
        restart == a.loaded /\ (error = "cursor_lost" \/ a.op = "first") /\ topped.top = "failed"
    IN  IF error = "cursor_lost" /\ ~a.resynced
        THEN submit([ended EXCEPT !.resynced = TRUE, !.followups = 0, !.chain = TRUE, !.rechecks = 0], "first", "first", reached)
        ELSE history_changed(arm(schedule_periodic([topped EXCEPT !.top_op = IF restart THEN "first" ELSE @])))

-----------------------------------------------------------------------------
(* history.c: the operations. *)

NewChain(a) == [a EXCEPT !.followups = 0, !.chain = TRUE]

tb_history_open(a, same, reached) ==
    LET quiet == [NewChain(tb_history_close(a)) EXCEPT !.active = TRUE, !.rechecks = 0, !.resynced = FALSE]
        emptied == [quiet EXCEPT !.items = <<>>, !.loaded = FALSE, !.truncated = FALSE, !.top = "loading",
                                 !.error = "none", !.top_error = "none", !.refresh_error = "none"]
    IN  submit(IF same /\ a.loaded /\ ~a.truncated THEN quiet ELSE emptied, "first", "first", reached)

tb_history_load_older(a, reached) ==
    LET calm == [a EXCEPT !.recheck = FALSE]
    IN  IF ~a.loaded \/ a.op # "none" \/ a.top = "loading" THEN a
        ELSE IF a.top = "more" THEN submit(a, "older", "next", reached)
        ELSE IF a.top_op = "first" THEN submit([NewChain(calm) EXCEPT !.resynced = FALSE], "first", "first", reached)
        ELSE IF a.top_op = "refresh" THEN submit(NewChain(calm), "refresh", "refresh", reached)
        ELSE submit([calm EXCEPT !.rechecks = IF a.top # "waiting" THEN 0 ELSE @], "older", a.top_op, reached)

tb_history_refresh(a, reached) ==
    IF a.op # "none" THEN a
    ELSE IF ~a.loaded \/ a.truncated THEN submit([NewChain(a) EXCEPT !.resynced = FALSE], "first", "first", reached)
    ELSE submit(NewChain(a), "refresh", "refresh", reached)

tb_history_retry(a, reached) ==
    IF a.op # "none" THEN a
    ELSE IF ~a.loaded THEN submit([NewChain(a) EXCEPT !.error = "none", !.resynced = FALSE], "first", "first", reached)
    ELSE IF a.top = "failed" THEN tb_history_load_older(a, reached)
    ELSE tb_history_refresh(a, reached)

tb_history_set_active(a, active, stale, reached) ==
    IF ~active THEN arm([a EXCEPT !.active = FALSE, !.periodic = FALSE, !.followup = FALSE])
    ELSE IF a.loaded /\ a.op = "none" /\ ~a.truncated /\ stale THEN tb_history_refresh([a EXCEPT !.active = TRUE], reached)
    ELSE arm(schedule_periodic([a EXCEPT !.active = TRUE]))

\* Those of followup, recheck and periodic that are due.  A busy controller
\* puts them off.
tb_history_timer(a, due, reached) ==
    LET fired == [a EXCEPT !.timer = FALSE]
        calm == [fired EXCEPT !.followup = FALSE, !.periodic = FALSE,
                              !.followups = IF due = {"periodic"} THEN 0 ELSE @,
                              !.chain = IF due = {"periodic"} THEN FALSE ELSE @]
    IN  IF due = {} \/ a.op # "none" THEN arm(fired)
        ELSE IF "recheck" \in due THEN submit([fired EXCEPT !.recheck = FALSE], "older", a.top_op, reached)
        ELSE IF ~a.active THEN arm(calm)
        ELSE submit(calm, "refresh", "refresh", reached)

-----------------------------------------------------------------------------
(* What the user and the watch do. *)

\* The phone takes up the request, and drops the one before it.
Do(a) ==
    /\ h' = a
    /\ slot' = IF h.pending = "none" /\ a.pending # "none" THEN a.pending ELSE slot
    /\ UNCHANGED <<cursor, posted, skipped>>

\* open_chat of main.c, with the appear handler of the window.
open_chat ==
    /\ h.window = "closed"
    /\ \E same, reached \in BOOLEAN :
           LET opened == [tb_history_open(h, same, reached) EXCEPT !.window = "shown"]
           IN  \E stale, again \in IF reached THEN {FALSE} ELSE BOOLEAN :
                   Do(tb_history_set_active(opened, TRUE, stale, again))

\* history_closed, and close_views on behalf of another controller.  If
\* VIEW_CLOSE reaches the phone, viewClose drops the request.
history_closed ==
    /\ h.window # "closed"
    /\ h' = [tb_history_close(h) EXCEPT !.window = "closed"]
    /\ slot' \in {slot, "none"}
    /\ UNCHANGED <<cursor, posted, skipped>>

\* Another window comes and goes above this one, or the focus does.
window_disappear ==
    /\ h.window = "shown"
    /\ Do([tb_history_set_active(h, FALSE, FALSE, FALSE) EXCEPT !.window = "covered"])

window_appear ==
    /\ h.window = "covered"
    /\ \E stale, reached \in BOOLEAN :
           Do([tb_history_set_active(h, TRUE, stale, reached) EXCEPT !.window = "shown"])

\* activate_row and selection_changed on the top row.
activate_top ==
    /\ h.window = "shown"
    /\ \E reached \in BOOLEAN :
           Do(IF h.loaded THEN tb_history_load_older(h, reached) ELSE tb_history_retry(h, reached))

\* The status row, the pull gesture, a message sent to this chat.
pull_trigger ==
    /\ h.window # "closed"
    /\ \E reached \in BOOLEAN : Do(tb_history_refresh(h, reached))

\* The phone is back.
phone_connection ==
    /\ h.window # "closed"
    /\ \E reached \in BOOLEAN :
           \/ "link" \in {h.error, h.top_error} /\ Do(tb_history_retry(h, reached))
           \/ "link" \notin {h.error, h.top_error} /\ h.refresh_error = "link" /\ Do(tb_history_refresh(h, reached))

timer_fired ==
    /\ h.timer
    /\ \E reached \in BOOLEAN,
          due \in SUBSET {x \in {"followup", "recheck", "periodic"} :
                              CASE x = "followup" -> h.followup [] x = "recheck" -> h.recheck [] OTHER -> h.periodic} :
           Do(tb_history_timer(h, due, reached))

-----------------------------------------------------------------------------
(* The phone: history of reader.js over the pages of the API. *)

Anchor(page) ==
    CASE page = "next" -> cursor.next [] page = "retry" -> cursor.retry [] page = "recheck" -> cursor.tail [] OTHER -> Newest

Grouped(keys) ==
    {k \in keys :
        LET members == {j \in keys : j = k \/ (Album[k] # 0 /\ Album[j] = Album[k])}
            texts == members \cap Captioned
        IN  IF texts # {} THEN k \in texts /\ \A j \in texts : j <= k ELSE \A j \in members : k <= j}

\* Pages hold the newest messages below the anchor.
PageOf(anchor, n) == {k \in 1..posted : k < anchor /\ Cardinality({j \in k..posted : j < anchor}) <= n}

\* The last chunk of an answer, or an error.  "shortened" marks a full page that
\* its albums make look like a short one, so that a hole before it goes unseen.
completed(error, records, flags, shortened) ==
    \E reached \in IF error = "cursor_lost" THEN BOOLEAN ELSE {FALSE} :
        LET ended == IF error # "none" THEN fail(h, error, reached) ELSE finish(stage(h, records), flags)
        IN  /\ h' = ended
            /\ slot' = ended.pending
            /\ skipped' = IF h.op = "first" /\ error = "none" THEN FALSE
                           ELSE skipped \/ (h.op = "refresh" /\ shortened)

\* respond(): the answer arrives, or is lost, or nobody waits for it.  What the
\* watch does while an answer is on its way does not depend on the answer, so
\* that the phone's step and the arrival are one.
Respond(error, records, flags, shortened) ==
    \/ h.pending # "none" /\ completed(error, records, flags, shortened)
    \/ /\ slot' = "none"
       /\ skipped' = (skipped \/ (error = "none" /\ slot \in {"next", "retry", "recheck"}))
       /\ UNCHANGED h

\* A page that is not full ends at the first message, or was cut.
PhoneAnswers ==
    /\ slot # "none"
    /\ LET fresh == IF slot = "first" THEN [NoCursor EXCEPT !.known = TRUE] ELSE [cursor EXCEPT !.known = TRUE]
           newest == slot \in {"first", "refresh"}
           anchor == Anchor(slot)
           lost == (~cursor.known /\ ~newest) \/ anchor = None
       IN  IF lost THEN Respond("cursor_lost", {}, NoFlags, FALSE) /\ UNCHANGED cursor
           ELSE \E n \in 0..Limit, partial, exhausted, waiting \in BOOLEAN :
                    LET keys == PageOf(anchor, n)
                        whole == keys = PageOf(anchor, Limit)
                        moved == [fresh EXCEPT !.older = @ \/ ~newest, !.tail = IF newest THEN @ ELSE anchor,
                                               !.next = IF keys = {} THEN None ELSE CHOOSE k \in keys : \A j \in keys : k <= j,
                                               !.retry = IF partial THEN anchor ELSE None]
                    IN  /\ Cardinality(keys) = n
                        /\ n = Limit => ~partial /\ ~exhausted
                        /\ n < Limit => partial \/ exhausted
                        /\ slot \in Cuts \/ (whole /\ ~partial)
                        /\ cursor' = IF newest /\ fresh.older THEN fresh ELSE moved
                        /\ Respond("none", Grouped(keys),
                                   [more |-> keys # {}, partial |-> partial, exhausted |-> exhausted, waiting |-> waiting],
                                   n = Limit /\ Cardinality(Grouped(keys)) < Limit)
    /\ UNCHANGED posted

\* The API refuses, or the configuration is gone.
PhoneErrs ==
    /\ slot # "none"
    /\ \E error \in Refusals :
           /\ Respond(error, {}, NoFlags, FALSE)
           /\ cursor' = IF error = "cursor_lost" THEN NoCursor
                        ELSE IF slot = "first" THEN [NoCursor EXCEPT !.known = TRUE] ELSE cursor
    /\ UNCHANGED posted

\* The phone's script starts again.
PhoneRestarts ==
    /\ cursor # NoCursor \/ slot # "none"
    /\ cursor' = NoCursor /\ slot' = "none"
    /\ UNCHANGED <<h, posted, skipped>>

\* The request timed out, or its answer did not reach the watch or could not
\* be kept.
TimedOut ==
    /\ h.pending # "none"
    /\ h' = fail(h, "link", FALSE)
    /\ slot' \in {slot, "none"}
    /\ UNCHANGED <<cursor, posted, skipped>>

MessagePosted ==
    /\ posted < MaxKey
    /\ posted' = posted + 1
    /\ UNCHANGED <<h, slot, cursor, skipped>>

-----------------------------------------------------------------------------
tb_history_init ==
    [items |-> <<>>, staging |-> {}, loaded |-> FALSE, truncated |-> FALSE, top |-> "more", top_op |-> "first",
     op |-> "none", pending |-> "none", active |-> FALSE, resynced |-> FALSE,
     error |-> "none", top_error |-> "none", refresh_error |-> "none",
     followups |-> 0, chain |-> FALSE, rechecks |-> 0,
     followup |-> FALSE, recheck |-> FALSE, periodic |-> FALSE, timer |-> FALSE, window |-> "closed"]

Init == h = tb_history_init /\ slot = "none" /\ cursor = NoCursor /\ posted = 1 /\ skipped = FALSE

Next ==
    \/ open_chat \/ history_closed \/ window_disappear \/ window_appear
    \/ activate_top \/ pull_trigger \/ phone_connection \/ timer_fired
    \/ PhoneAnswers \/ PhoneErrs \/ PhoneRestarts \/ TimedOut \/ MessagePosted

Spec == Init /\ [][Next]_vars

-----------------------------------------------------------------------------
(* Properties. *)

\* The variables have their types: no more items than there is room for, no
\* more follow-ups and rechecks than there are delays.
TypeOK ==
    /\ h.items \in Seq(Keys) /\ Len(h.items) <= Capacity /\ h.staging = {}
    /\ h.top \in Tops /\ h.top_op \in Pages /\ h.op \in Ops /\ h.pending \in Pages \cup {"none"}
    /\ {h.error, h.top_error, h.refresh_error} \subseteq Errors
    /\ h.followups \in 0..Delays /\ h.rechecks \in 0..Delays
    /\ slot \in Pages \cup {"none"} /\ cursor.next \in 0..MaxKey

\* The messages on the watch are one run of the chat, in order and without a
\* hole, however older pages, refreshes, restarts, timeouts and new messages
\* interleave, unless the phone moved past a page that the watch never took, or
\* sent a full newest page as a short one because it holds an album.
NoGap ==
    ~skipped => \A i \in 1..(Len(h.items) - 1) :
        /\ h.items[i] < h.items[i + 1]
        /\ \A k \in (h.items[i] + 1)..(h.items[i + 1] - 1) :
               Album[k] # 0 /\ Album[k] \in {Album[h.items[i]], Album[h.items[i + 1]]}

\* A newest page that arrives is seen: the chat's last message is on the watch,
\* or the reader is told that there are newer messages that need a reload.
NewestShown ==
    [][/\ h.op \in {"first", "refresh"} /\ h'.op = "none" /\ h'.window # "closed"
       /\ {h'.error, h'.refresh_error} = {"none"} /\ h.pending \notin Cuts
       => \/ h'.truncated
          \/ \E i \in 1..Len(h'.items) :
                 h'.items[i] = posted \/ (Album[posted] # 0 /\ Album[h'.items[i]] = Album[posted])]_vars

\* While a chat is on show and nothing is under way, the next refresh is set,
\* or the user sees why not: an error, or newer messages that need a reload.
KeepsFresh ==
    h.window = "shown" /\ h.loaded /\ h.op = "none" =>
        h.timer \/ h.truncated \/ {h.error, h.top_error, h.refresh_error} # {"none"}

\* The messages on show are typed, without a hole, and kept fresh.
HistorySound == TypeOK /\ NoGap /\ KeepsFresh
=============================================================================
