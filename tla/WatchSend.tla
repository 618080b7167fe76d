----------------------------- MODULE WatchSend -----------------------------
(***************************************************************************)
(* Writing and sending a message on the watch: the compose controller      *)
(* (compose.c), its three windows (compose_window.c), dictation            *)
(* (dictation.c), the send tracker (send_tracker.c), the banner (notify.c) *)
(* and the glue of main.c between them.  The state is the part of TbApp    *)
(* these components own; a handler is a function from one TbApp to the     *)
(* next, so that everything it calls happens in the same step.             *)
(*                                                                         *)
(* Requests follow RequestContract: a submitted request is under way until *)
(* it ends, once.  The phone keeps the drafts it handed out and every      *)
(* attempt to send one; it reports an attempt at any time, or never, and   *)
(* its reports do not say which attempt they are about.                    *)
(***************************************************************************)
EXTENDS Notify, Sequences, FiniteSetsExt

CONSTANTS
    Chats,        \* the chats a message may be written to
    MaxDraft,     \* bound: drafts the phone hands out
    MaxAttempt,   \* bound: how often the user sends a draft again
    Slots         \* requests under way at once (TB_REQUEST_SLOTS)

VARIABLES
    app,          \* TbApp
    written,      \* the phone's drafts: the chat of each
    fate          \* draft |-> attempt |-> what became of it, as the phone knows

vars == <<app, written, fate>>

Nowhere == "nowhere"
Phases == {"idle", "submitting", "pending", "unknown", "sent", "failed"}

ConstantsAssumption ==
    /\ MaxDraft \in Nat \ {0} /\ MaxAttempt \in Nat /\ Slots \in Nat \ {0}
    /\ Nowhere \notin Chats

\* A request under way; its owner knows it by what it asked, as no two alike
\* are under way at once.  "begun" says that its first chunk has arrived.
Request(kind, draft, attempt, chat) ==
    [kind |-> kind, draft |-> draft, attempt |-> attempt, chat |-> chat, begun |-> FALSE]
NoRequest == Request("none", 0, 0, Nowhere)

NoStatus == [draft |-> 0, phase |-> "idle", retryable |-> FALSE, message |-> FALSE,
             restored |-> FALSE, chat |-> Nowhere]

ClosedCompose == [open |-> FALSE, chat |-> Nowhere, listed |-> FALSE, tpending |-> NoRequest, draft |-> "none", id |-> 0,
                  too_long |-> FALSE, dpending |-> NoRequest]

ClosedView == [menu |-> FALSE, review |-> FALSE, result |-> FALSE, draft |-> 0,
               confirm |-> FALSE, sent |-> FALSE, auto |-> FALSE]

NoMenu == [of |-> "none", actions |-> {}]

InitApp ==
    [requests |-> {},
     status   |-> NoStatus,        \* TbSendTracker.status
     pending  |-> NoRequest,       \* TbSendTracker.pending
     attempt  |-> 0,
     compose  |-> ClosedCompose,
     view     |-> ClosedView,
     dictation |-> "closed",       \* TbDictation: no session, idle, listening or a result to deliver
     menu     |-> NoMenu,          \* the action menu on show
     notify   |-> tb_notify_reset]

-----------------------------------------------------------------------------
(* The request layer, as RequestContract promises it. *)

\* The request itself when it is accepted; none when all slots are busy or the
\* phone is away.
Accepted(a, request, reached) == IF reached /\ Cardinality(a.requests) < Slots THEN request ELSE NoRequest

Submit(a, request, reached) == [a EXCEPT !.requests = @ \cup ({Accepted(a, request, reached)} \ {NoRequest})]

Cancel(a, request) == [a EXCEPT !.requests = @ \ {request}]

-----------------------------------------------------------------------------
(* main.c: what a change of the send status makes the user see. *)

LateAction == [sent |-> "dismiss", failed |-> "open_chat", unknown |-> "check", pending |-> "check"]
LateLevel == [sent |-> Info, failed |-> Error, unknown |-> Error, pending |-> Warning]

late_result(a, status) ==
    IF status.phase \in {"sent", "failed", "unknown"} \/ (status.phase = "pending" /\ status.restored)
    THEN [a EXCEPT !.notify = tb_notify_post(@, "send", LateLevel[status.phase], LateAction[status.phase], status.draft)]
    ELSE a

\* tb_compose_view_status: a sent message closes its window after a while.
tb_compose_view_status(a) == IF a.status.phase = "sent" THEN [a EXCEPT !.view.auto = TRUE] ELSE a

\* Mutant: any compose window counts as the page of the message.
ChangedUnderAnyWindow(a) ==
    IF a.view.menu \/ a.view.review \/ a.view.result
    THEN tb_compose_view_status([a EXCEPT !.notify = tb_notify_clear(@, "send")])
    ELSE late_result(a, a.status)

send_changed(a) ==
    IF a.view.result /\ a.status.draft = a.view.draft
    THEN tb_compose_view_status([a EXCEPT !.notify = tb_notify_clear(@, "send")])
    ELSE late_result(a, a.status)

-----------------------------------------------------------------------------
(* send_tracker.c *)

settled(phase) == phase \in {"sent", "failed"}

tb_send_busy(a) == a.status.draft # 0 /\ a.status.phase \in {"submitting", "pending"}

apply(a, record) ==
    LET same == a.status.phase = record.state /\ a.status.retryable = record.retryable
        known == [a EXCEPT !.status.phase = record.state, !.status.retryable = record.retryable, !.status.message = record.message]
    IN  IF settled(a.status.phase) /\ ~settled(record.state) THEN a
        ELSE IF same THEN known ELSE send_changed(known)

MayStart(a, draft, again) ==
    /\ draft # 0 /\ ~tb_send_busy(a)
    /\ draft = a.status.draft =>
           /\ a.status.phase # "sent"
           /\ again => a.status.retryable \/ a.status.phase = "unknown"

tb_send_start(a, chat, draft, again, reached) ==
    LET same == draft = a.status.draft
        attempt == IF ~same THEN 0 ELSE IF again THEN a.attempt + 1 ELSE a.attempt
        send == Accepted(a, Request("send", draft, attempt, chat), reached)
        began == [Submit(a, Request("send", draft, attempt, chat), reached) EXCEPT
                      !.pending = send, !.attempt = attempt,
                      !.status = [NoStatus EXCEPT !.draft = draft, !.chat = chat, !.phase = "submitting"]]
        failed == [began EXCEPT !.status.phase = "failed", !.status.retryable = TRUE]
    IN  send_changed(IF send = NoRequest THEN failed ELSE began)

MayCheck(a) == a.status.draft # 0 /\ a.pending = NoRequest /\ ~settled(a.status.phase)

tb_send_check(a, reached) ==
    LET check == Request("check", a.status.draft, a.attempt, a.status.chat)
    IN  IF ~MayCheck(a) THEN a
        ELSE [Submit(a, check, reached) EXCEPT !.pending = Accepted(a, check, reached)]

\* The answer to a SEND or SEND_CHECK; an answer the tracker no longer waits
\* for is dropped.  Silence makes the result unknown, anything else that is
\* not a record of the draft makes it failed unless it is settled.
completed(a, request, answer) ==
    LET freed == Cancel(a, request)
        known == [freed EXCEPT !.pending = NoRequest]
        retryable == answer.type = "error" /\ answer.retryable
    IN  IF request # a.pending THEN freed
        ELSE IF answer.type = "record" /\ request.draft = a.status.draft THEN apply(known, answer)
        ELSE IF answer.type = "silence" THEN send_changed([known EXCEPT !.status.phase = "unknown"])
        ELSE IF settled(a.status.phase) THEN send_changed(known)
        ELSE send_changed([known EXCEPT !.status.phase = "failed", !.status.retryable = retryable])

\* send_record of main.c: a record that is not for the tracked draft is only
\* reported, unless it was restored and the tracker is free.
send_record(a, record, restored) ==
    LET foreign == [NoStatus EXCEPT !.draft = record.draft, !.phase = record.state, !.restored = restored]
        adopted == [a EXCEPT !.attempt = 0,
                             !.status = [NoStatus EXCEPT !.draft = record.draft, !.restored = TRUE, !.chat = record.chat]]
    IN  IF record.draft = a.status.draft
        THEN IF record.chat = a.status.chat THEN apply(a, record) ELSE late_result(a, foreign)
        ELSE IF restored /\ ~tb_send_busy(a) THEN apply(adopted, record)
        ELSE late_result(a, foreign)

-----------------------------------------------------------------------------
(* compose.c *)

\* Fire and forget: the phone is told, its answer is not waited for.
discard_current(a, reached) ==
    IF a.compose.id = 0 THEN a
    ELSE [Submit(a, Request("discard", a.compose.id, 0, Nowhere), reached) EXCEPT !.compose.id = 0]

tb_compose_drop_draft(a, reached) ==
    [discard_current(Cancel(a, a.compose.dpending), reached) EXCEPT
        !.compose.dpending = NoRequest, !.compose.draft = "none", !.compose.too_long = FALSE]

tb_compose_close(a, keep_draft, reached) ==
    LET quiet == Cancel(a, a.compose.tpending)
        kept == Cancel(quiet, a.compose.dpending)
    IN  [(IF keep_draft THEN kept ELSE tb_compose_drop_draft(quiet, reached)) EXCEPT !.compose = ClosedCompose]

\* The quick replies are loading while a request for them is under way; else
\* they are ready when any is listed, or failed.
tb_compose_load_templates(a, reached) ==
    LET quiet == Cancel(a, a.compose.tpending)
        templates == Request("templates", 0, 0, Nowhere)
    IN  [Submit(quiet, templates, reached) EXCEPT !.compose.tpending = Accepted(quiet, templates, reached)]

tb_compose_open(a, chat, reached) ==
    tb_compose_load_templates([tb_compose_close(a, FALSE, reached) EXCEPT !.compose.open = TRUE, !.compose.chat = chat], reached)

\* A new text replaces the current draft.
request_draft(a, reached) ==
    LET dropped == [discard_current(Cancel(a, a.compose.dpending), reached) EXCEPT !.compose.too_long = FALSE]
        draft == Accepted(dropped, Request("draft", 0, 0, a.compose.chat), reached)
    IN  [Submit(dropped, Request("draft", 0, 0, a.compose.chat), reached) EXCEPT
            !.compose.dpending = draft, !.compose.draft = IF draft = NoRequest THEN "failed" ELSE "loading"]

\* A text over the limit of the protocol never reaches the phone.
Overlong(a, reached) ==
    [discard_current(Cancel(a, a.compose.dpending), reached) EXCEPT
        !.compose.dpending = NoRequest, !.compose.draft = "ready", !.compose.too_long = TRUE]

tb_compose_sendable(a) ==
    a.compose.open /\ a.compose.draft = "ready" /\ a.compose.id # 0 /\ ~a.compose.too_long

templates_done(a, request, answer) ==
    LET freed == Cancel(a, request)
    IN  IF request # a.compose.tpending THEN freed
        ELSE [freed EXCEPT !.compose.tpending = NoRequest,
                           !.compose.listed = IF answer.type = "templates" THEN answer.listed ELSE @]

\* The first chunk names the draft.
DraftChunk(a, request, draft, too_long) ==
    LET begun == [request EXCEPT !.begun = TRUE]
        heard == [a EXCEPT !.requests = (@ \ {request}) \cup {begun}]
    IN  IF request # a.compose.dpending THEN heard
        ELSE [heard EXCEPT !.compose.dpending = begun, !.compose.id = draft, !.compose.too_long = too_long]

\* The last chunk or an error ends it; a lost cursor also loads the list of
\* quick replies again.
draft_done(a, request, answer, reached) ==
    LET freed == Cancel(a, request)
        failed == [freed EXCEPT !.compose.dpending = NoRequest, !.compose.draft = "failed"]
    IN  IF request # a.compose.dpending THEN freed
        ELSE IF answer = "end"
        THEN [failed EXCEPT !.compose.draft = IF a.compose.id # 0 THEN "ready" ELSE "failed"]
        ELSE IF answer = "cursor_lost" THEN tb_compose_load_templates(failed, reached)
        ELSE failed

-----------------------------------------------------------------------------
(* compose_window.c and the callbacks main.c gives it. *)

any_loaded(view) == view.menu \/ view.review \/ view.result

current(a) == a.status.draft = a.view.draft

\* tb_dictation_close destroys the session, cancels the delivery.
tb_dictation_close(a) == [a EXCEPT !.dictation = "closed"]

compose_finished(a, sent, reached) ==
    LET attempted == a.status.draft # 0 /\ a.status.draft = a.compose.id
        over == tb_compose_close(tb_dictation_close(a), attempted, reached)
    IN  IF ~sent /\ tb_send_busy(over)
        THEN [over EXCEPT !.notify = tb_notify_post(@, "send", Info, "wait", over.status.draft)]
        ELSE over

\* Called by every unload handler; the last window to go ends the compose.
finish(a, reached) ==
    IF any_loaded(a.view) THEN a
    ELSE compose_finished([a EXCEPT !.view.sent = FALSE], a.view.sent, reached)

\* result_draft is only read while the page is loaded.
result_unload(view, a) ==
    [view EXCEPT !.result = FALSE, !.draft = 0, !.auto = FALSE, !.confirm = FALSE,
                 !.sent = @ \/ (current(a) /\ a.status.phase = "sent")]

tb_compose_view_close_all(a, reached) ==
    LET unloaded == IF a.view.result THEN result_unload(a.view, a) ELSE a.view
    IN  IF ~any_loaded(a.view) THEN a
        ELSE finish([a EXCEPT !.view = [unloaded EXCEPT !.review = FALSE, !.menu = FALSE]], reached)

\* The review is the top window when this runs.
review_unload(a, reached) == finish([a EXCEPT !.view.review = FALSE], reached)

tb_compose_view_result(a) ==
    [a EXCEPT !.view.result = TRUE, !.view.draft = a.status.draft, !.view.confirm = FALSE]

-----------------------------------------------------------------------------
(* What the user does.  An action menu and the dictation screen cover the  *)
(* windows, the latter until its result is delivered (by a timer of 0 ms,  *)
(* due before the next click); only the top window takes clicks.           *)

Uncovered(a) == a.menu = NoMenu /\ a.dictation # "listening"
OnLists == Uncovered(app) /\ ~any_loaded(app.view)
OnMenu == Uncovered(app) /\ app.view.menu /\ ~app.view.review /\ ~app.view.result
OnReview == Uncovered(app) /\ app.view.review /\ ~app.view.result
OnResult == Uncovered(app) /\ app.view.result

PhoneIdle == UNCHANGED <<written, fate>>

begin_compose(chat, reached) ==
    /\ app' = [tb_compose_open(tb_dictation_close(app), chat, reached) EXCEPT
                  !.dictation = "idle", !.view.menu = TRUE, !.view.sent = FALSE]
    /\ PhoneIdle

write_to_chat == OnLists /\ \E chat \in Chats, reached \in BOOLEAN : begin_compose(chat, reached)

\* The dictation screen comes up, unless the session refuses.
start_dictation(a) == IF a.dictation = "idle" THEN [a EXCEPT !.dictation = "listening"] ELSE a

menu_dictate == OnMenu /\ app.dictation = "idle" /\ app' = start_dictation(app) /\ PhoneIdle

menu_pick ==
    /\ OnMenu /\ app.compose.tpending = NoRequest /\ app.compose.listed
    /\ \E reached \in BOOLEAN :
           app' = [request_draft(app, reached) EXCEPT !.view.review = @ \/ request_draft(app, reached).compose.dpending # NoRequest]
    /\ PhoneIdle

menu_reload ==
    /\ OnMenu /\ app.compose.tpending = NoRequest /\ ~app.compose.listed
    /\ \E reached \in BOOLEAN : app' = tb_compose_load_templates(app, reached)
    /\ PhoneIdle

menu_unload ==
    /\ OnMenu
    /\ \E reached \in BOOLEAN : app' = finish([app EXCEPT !.view.menu = FALSE], reached)
    /\ PhoneIdle

\* Sending while another message is under way only shows a notice.
review_send ==
    /\ OnReview /\ tb_compose_sendable(app)
    /\ MayStart(app, app.compose.id, FALSE)
    /\ \E reached \in BOOLEAN :
           app' = tb_compose_view_result(tb_send_start(app, app.compose.chat, app.compose.id, FALSE, reached))
    /\ PhoneIdle

review_back ==
    /\ OnReview
    /\ \E reached \in BOOLEAN : app' = review_unload(tb_compose_drop_draft(app, reached), reached)
    /\ PhoneIdle

ActionMenu(of, actions) ==
    /\ actions # {}
    /\ app' = [app EXCEPT !.menu = [of |-> of, actions |-> actions]]
    /\ PhoneIdle

review_menu == OnReview /\ ActionMenu("review", {"redictate", "other", "cancel"})

\* Mutant: a message is sent again to the chat of the compose windows.
AgainInCompose(a, reached) ==
    IF MayStart(a, a.status.draft, TRUE) /\ a.attempt < MaxAttempt
    THEN tb_send_start(a, a.compose.chat, a.status.draft, TRUE, reached) ELSE a

\* compose_send for SEND_AGAIN and SEND_ANYWAY, and retry_failed.
Again(a, reached) ==
    IF MayStart(a, a.status.draft, TRUE) /\ a.attempt < MaxAttempt
    THEN tb_send_start(a, a.status.chat, a.status.draft, TRUE, reached) ELSE a

result_select ==
    /\ OnResult /\ current(app)
    /\ \E reached \in BOOLEAN :
           \/ /\ app.status.phase = "failed" /\ app.status.retryable
              /\ app' = Again(app, reached)
           \/ /\ app.status.phase = "unknown" /\ app.view.confirm
              /\ app' = Again([app EXCEPT !.view.confirm = FALSE], reached)
           \/ /\ app.status.phase = "unknown" /\ ~app.view.confirm
              /\ app' = tb_send_check(app, reached)
           \/ /\ app.status.phase = "sent"
              /\ app' = tb_compose_view_close_all(app, reached)
    /\ PhoneIdle

ResultActions(status) ==
    CASE status.phase = "failed"  -> {"cancel"} \cup (IF status.retryable THEN {"send_again"} ELSE {})
      [] status.phase = "unknown" -> {"check", "open_chat", "send_anyway"}
      [] OTHER                    -> {}

result_menu == OnResult /\ current(app) /\ ActionMenu("result", ResultActions(app.status))

result_back ==
    /\ OnResult
    /\ \E reached \in BOOLEAN : app' = tb_compose_view_close_all(app, reached)
    /\ PhoneIdle

\* The menu of a message: the one a failed or unknown send left in the chat
\* may be sent again.  (Its "reply" is write_to_chat.)
retry_available(a, chat) ==
    /\ a.status.phase = "unknown" \/ (a.status.phase = "failed" /\ a.status.retryable)
    /\ a.status.draft # 0 /\ a.status.message /\ a.status.chat = chat

message_menu ==
    /\ OnLists
    /\ \E chat \in Chats :
           ActionMenu("message", IF retry_available(app, chat) THEN {"retry"} ELSE {})

\* tb_actions_open: the choice runs when the menu closes, on what the state is then.
Chosen(a, of, action, reached) ==
    CASE of = "review" /\ action = "redictate" -> start_dictation(a)
      [] of = "review" /\ action = "other"     -> IF a.view.review THEN review_unload(tb_compose_drop_draft(a, reached), reached)
                                                  ELSE tb_compose_drop_draft(a, reached)
      [] of = "review" /\ action = "cancel"    -> tb_compose_view_close_all(a, reached)
      [] of = "result" /\ action = "send_again" -> Again(a, reached)
      [] of = "result" /\ action = "check"     -> tb_send_check(a, reached)
      [] of = "result" /\ action = "open_chat" -> tb_compose_view_close_all(a, reached)
      [] of = "result" /\ action = "send_anyway" -> [a EXCEPT !.view.confirm = TRUE]
      [] of = "result" /\ action = "cancel"    -> tb_compose_view_close_all(tb_compose_drop_draft(a, reached), reached)
      [] of = "message" /\ action = "retry"    ->
             LET began == Again(a, reached)
             IN  IF began = a THEN a
                 ELSE [began EXCEPT !.notify = tb_notify_post(@, "send", Info, "wait", began.status.draft)]

ActionChosen ==
    /\ app.menu # NoMenu
    /\ \E action \in app.menu.actions, reached \in BOOLEAN :
           app' = Chosen([app EXCEPT !.menu = NoMenu], app.menu.of, action, reached)
    /\ PhoneIdle

ActionDismissed == app.menu # NoMenu /\ app' = [app EXCEPT !.menu = NoMenu] /\ PhoneIdle

\* The card on the lists: run_notify_action.
notify_activate ==
    /\ OnLists /\ IsTop(app.notify, "send")
    /\ LET cleared == [app EXCEPT !.notify = tb_notify_clear(@, "send")]
       IN  \E reached \in BOOLEAN :
               app' = CASE app.notify["send"].action = "check" ->
                              IF MayCheck(cleared) /\ tb_send_check(cleared, reached) # cleared THEN tb_send_check(cleared, reached)
                              ELSE late_result(cleared, cleared.status)
                        [] app.notify["send"].action = "open_chat" -> tb_compose_view_close_all(cleared, reached)
                        [] OTHER -> [app EXCEPT !.notify = tb_notify_dismiss(@)]
    /\ PhoneIdle

-----------------------------------------------------------------------------
(* Timers and the dictation session. *)

auto_closed ==
    /\ app.view.auto
    /\ \E reached \in BOOLEAN : app' = tb_compose_view_close_all([app EXCEPT !.view.auto = FALSE], reached)
    /\ PhoneIdle

tb_notify_timer ==
    /\ \E source \in Expiring(app.notify) : app' = [app EXCEPT !.notify = Expired(@, source)]
    /\ PhoneIdle

\* transcribed, deliver, dictated of main.c and tb_compose_dictated: the
\* session ends without a text, with a text over the limit of the protocol,
\* which never reaches the phone, or with one to keep as a draft.
transcribed ==
    /\ app.dictation = "listening"
    /\ \E reached \in BOOLEAN :
           LET heard == [app EXCEPT !.dictation = "idle"]
               drafted == request_draft(heard, reached)
           IN  app' \in {heard,
                         [Overlong(heard, reached) EXCEPT !.view.review = TRUE],
                         [drafted EXCEPT !.view.review = @ \/ drafted.compose.dpending # NoRequest]}
    /\ PhoneIdle

-----------------------------------------------------------------------------
(* The phone and its answers. *)

Drafts == 1..MaxDraft
Attempts == 0..MaxAttempt
Fates == {"new", "open", "sent", "failed"}

\* What the phone reports of an attempt: an open one is pending or of unknown
\* result; a failed one may be tried again or not.
Reports(outcome) == CASE outcome = "new" -> {} [] outcome = "open" -> {"pending", "unknown"} [] OTHER -> {outcome}

Records(draft) ==
    {[type |-> "record", draft |-> draft, chat |-> written[draft], state |-> state,
      retryable |-> state = "failed" /\ retryable, message |-> state \in {"failed", "unknown"}] :
        state \in UNION {Reports(fate[draft][attempt]) : attempt \in Attempts}, retryable \in BOOLEAN}

Silence == [type |-> "silence"]

\* The phone keeps the text as a draft for the chat the request names.
DraftBegins ==
    /\ Len(written) < MaxDraft
    /\ \E request \in app.requests, too_long \in BOOLEAN :
           /\ request.kind = "draft" /\ ~request.begun
           /\ written' = Append(written, request.chat)
           /\ app' = DraftChunk(app, request, Len(written) + 1, too_long)
    /\ UNCHANGED fate

DraftEnds ==
    /\ \E request \in app.requests, reached \in BOOLEAN, answer \in {"end", "error", "cursor_lost"} :
           /\ request.kind = "draft" /\ (answer = "end" => request.begun)
           /\ app' = draft_done(app, request, answer, reached)
    /\ PhoneIdle

TemplatesAnswered ==
    /\ \E request \in app.requests :
           /\ request.kind = "templates"
           /\ \E answer \in [type : {"templates"}, listed : BOOLEAN] \cup {Silence} : app' = templates_done(app, request, answer)
    /\ PhoneIdle

\* Nobody waits for the answer to a discard.
DiscardAnswered ==
    /\ \E request \in app.requests : request.kind = "discard" /\ app' = Cancel(app, request)
    /\ PhoneIdle

\* The phone takes a SEND of a draft it keeps.
Dispatched ==
    /\ \E request \in app.requests :
           /\ request.kind = "send" /\ fate[request.draft][request.attempt] = "new"
           /\ fate' = [fate EXCEPT ![request.draft][request.attempt] = "open"]
    /\ UNCHANGED <<app, written>>

Decided ==
    /\ \E draft \in Drafts, attempt \in Attempts, outcome \in {"sent", "failed"} :
           fate[draft][attempt] = "open" /\ fate' = [fate EXCEPT ![draft][attempt] = outcome]
    /\ UNCHANGED <<app, written>>

SendAnswered ==
    /\ \E request \in app.requests :
           /\ request.kind \in {"send", "check"}
           /\ \E answer \in [type : {"error"}, retryable : BOOLEAN] \cup {Silence} \cup Records(request.draft) :
                  app' = completed(app, request, answer)
    /\ PhoneIdle

\* send_records of main.c, from a push or from the answer to EVENTS.
PushArrives ==
    /\ \E draft \in DOMAIN written : \E record \in Records(draft) : app' = send_record(app, record, FALSE)
    /\ PhoneIdle

\* A bootstrap brings what the phone still tracks; compose is closed then.
Restored ==
    /\ ~any_loaded(app.view)
    /\ \E draft \in DOMAIN written : \E record \in Records(draft) :
           record.state # "sent" /\ app' = send_record(app, record, TRUE)
    /\ PhoneIdle

\* close_compose and tb_notify_reset, as reset_to_connect and handle_fatal call them.
close_views ==
    /\ \E reached \in BOOLEAN :
           LET closed == tb_compose_close(tb_dictation_close(tb_compose_view_close_all(app, reached)), TRUE, reached)
           IN  app' = [closed EXCEPT !.notify = tb_notify_reset]
    /\ PhoneIdle

\* The app is left and started again: deinit, then init.
Restart == app' = InitApp /\ PhoneIdle

-----------------------------------------------------------------------------
Init == /\ app = InitApp /\ written = <<>>
        /\ fate = [draft \in Drafts |-> [attempt \in Attempts |-> "new"]]

Next ==
    \/ write_to_chat \/ menu_dictate \/ menu_pick \/ menu_reload \/ menu_unload
    \/ review_send \/ review_back \/ review_menu
    \/ result_select \/ result_menu \/ result_back
    \/ message_menu \/ ActionChosen \/ ActionDismissed \/ notify_activate
    \/ auto_closed \/ tb_notify_timer \/ transcribed
    \/ SendAnswered \/ TemplatesAnswered \/ DraftBegins \/ DraftEnds \/ DiscardAnswered
    \/ Dispatched \/ Decided \/ PushArrives \/ Restored \/ close_views \/ Restart

Spec == Init /\ [][Next]_vars

-----------------------------------------------------------------------------
(* Properties. *)

\* Every variable has its type, and the requests under way fit their slots.
TypeOK ==
    /\ app.status.phase \in Phases /\ app.status.draft \in 0..MaxDraft
    /\ app.attempt \in 0..MaxAttempt /\ Cardinality(app.requests) <= Slots
    /\ app.dictation \in {"closed", "idle", "listening"}
    /\ written \in Seq(Chats) /\ Len(written) <= MaxDraft /\ fate \in [Drafts -> [Attempts -> Fates]]

\* Who waits for an answer has its request under way, so that an answer or a
\* timeout ends the wait; a message shown as being submitted has its SEND under
\* way (send_tracker.c, compose.c).
WaitsOnOwnRequest ==
    /\ {app.pending, app.compose.tpending, app.compose.dpending} \subseteq app.requests \cup {NoRequest}
    /\ app.status.phase = "submitting" => app.pending.kind = "send" /\ app.pending.draft = app.status.draft

\* A SEND names the chat its text was written for, whatever answers arrive
\* after the compose windows were closed and opened for another chat.
SentWhereWritten ==
    \A request \in app.requests : request.kind = "send" => request.chat = written[request.draft]

\* The compose controller, the microphone and the windows are open together
\* and closed together.
ClosedTogether ==
    /\ app.compose.open = any_loaded(app.view)
    /\ ~app.compose.open => app.compose = ClosedCompose /\ app.dictation = "closed"

\* The state of a send is sound: typed, waiting only for what is under way, bound
\* for the chat it was written in, its windows opened and closed together.
SendSound == TypeOK /\ WaitsOnOwnRequest /\ SentWhereWritten /\ ClosedTogether

Told(a) ==
    \/ a.view.result /\ current(a)
    \/ a.notify["send"].about = a.status.draft /\ a.notify["send"].action = LateAction[a.status.phase]

OutcomeOf(a) == a.status.phase \in {"sent", "failed", "unknown"}

\* Whatever becomes of a message the phone was asked to send is shown at once:
\* on its result page, or on the card once the page was left (send_changed).
AnswerReachesUser ==
    (/\ OutcomeOf(app') /\ app'.status.phase # app.status.phase
     /\ app'.status.draft = app.status.draft /\ app'.attempt = app.attempt) => Told(app')

Discards(a) == {request.draft : request \in {x \in a.requests : x.kind = "discard"}}

\* Leaving or reusing the compose windows never discards the draft of a
\* message that is under way (compose_finished, request_draft).  Only the
\* Cancel of the result page may: its menu offers it for a failed message and
\* runs it when the menu closes, whatever has arrived since.
DraftKeptWhileOutstanding ==
    app.menu.of # "result" =>
        \A draft \in Discards(app') \ Discards(app) : ~(tb_send_busy(app') /\ app'.status.draft = draft)

\* Both, in every step: a message under way is neither discarded nor forgotten.
SendKeptInSight == [][AnswerReachesUser /\ DraftKeptWhileOutstanding]_vars
=============================================================================
