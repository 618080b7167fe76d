---------------------------- MODULE RequestLayer ----------------------------
(***************************************************************************)
(* The request layer of the watch application (request_layer.c) over the   *)
(* AppMessage port of main.c.  A controller submits a request and is       *)
(* called back with its chunks and its end.  The layer has a fixed number  *)
(* of slots, one timer for the earliest deadline, retries, and callbacks   *)
(* that may submit or cancel while a loop over the slots is running.       *)
(* Deadlines are kept as the time that is left, in units of the 100 ms     *)
(* after which a queued request is tried again; a timer set for 1 ms is    *)
(* due at once.                                                            *)
(***************************************************************************)
EXTENDS Integers, Sequences, FiniteSets, FiniteSetsExt

CONSTANTS
    Slots,        \* TB_REQUEST_SLOTS
    MaxSequence,  \* INT32_MAX: sequences run from 1 to it and start over
    Kinds,        \* how the controllers submit: a set of KindType records
    QueueRetry,   \* TB_QUEUE_RETRY_MS
    MaxTotal,     \* bound: chunks of an answer
    MaxAir        \* bound: chunks on their way to the watch

VARIABLES
    slots,          \* TbRequestLayer.slots
    next_sequence,  \* TbRequestLayer.next_sequence
    timer,          \* the time until the request timer fires, or Off
    outbox,         \* the sequence AppMessage is sending, or Off
    air,            \* chunks on their way to the watch, in order
    rest,           \* the slot tb_requests_tick looks at next, Ready before a
                    \* trailing tb_requests_outbox_ready, or Off
    calling,        \* is a controller's callback running?
    heard           \* what the controllers were told: see RequestContract

vars == <<slots, next_sequence, timer, outbox, air, rest, calling, heard>>

Off == 0 - 1
Closed == 0 - 1
Ready == 0
Index == 1..Slots
SequenceNumbers == 1..MaxSequence
KindType == [resend : BOOLEAN, max : Nat \ {0}, timeout : Nat \ {0}, owned : BOOLEAN]

ConstantsAssumption ==
    /\ Slots \in Nat \ {0} /\ MaxSequence \in Nat /\ MaxSequence > Slots
    /\ QueueRetry \in Nat \ {0} /\ MaxTotal \in Nat /\ MaxAir \in Nat
    /\ \A k \in Kinds : k \in KindType

Free == [active |-> FALSE, queued |-> FALSE, resend |-> FALSE, attempts |-> 0, max |-> 1,
         next_chunk |-> 0, sequence |-> 0, timeout |-> 1, left |-> 0, waited |-> 0, owned |-> FALSE]

Active(s) == {i \in Index : s[i].active}

find(s, sequence) == {i \in Active(s) : s[i].sequence = sequence}

\* The timer is set for the earliest deadline.
arm(s) == IF Active(s) = {} THEN Off ELSE Min({s[i].left : i \in Active(s)})

\* Mutant: sends are not counted.
AttemptUncounted(slot, out) ==
    {[slot |-> [slot EXCEPT !.queued = FALSE, !.waited = 0, !.left = slot.timeout],
      outbox |-> IF out = Off THEN slot.sequence ELSE out]}

\* Every way attempt() can end for a slot: sent, queued behind a busy outbox,
\* or over.  A send that fails is tried again at once; the phone may be out of
\* reach at any time.  Why a request was given up is left out.
attempt(slot, out) ==
    LET Over == [slot |-> Free, outbox |-> out]
        Queued == [slot EXCEPT !.queued = TRUE, !.waited = IF slot.queued THEN @ ELSE 0, !.left = QueueRetry]
        Sent(n) == [slot EXCEPT !.attempts = n, !.queued = FALSE, !.waited = 0, !.left = slot.timeout]
        GivesUp == slot.queued /\ slot.waited >= slot.timeout
    IN  {Over} \cup
        IF slot.attempts = slot.max THEN {}
        ELSE IF out # Off THEN IF GivesUp THEN {} ELSE {[slot |-> Queued, outbox |-> out]}
        ELSE {[slot |-> Sent(n), outbox |-> slot.sequence] : n \in (slot.attempts + 1)..slot.max}

-----------------------------------------------------------------------------
(* Idle: the event loop is free.  A controller may act then, or from inside *)
(* its callback.                                                            *)

Idle == rest = Off /\ ~calling

\* Mutant: the timer is not set again for the requests that remain.
CompleteWithoutArm(i) ==
    /\ slots' = [slots EXCEPT ![i] = Free]
    /\ timer' = timer
    /\ heard' = [heard EXCEPT ![slots[i].sequence] = Closed]
    /\ calling' = slots[i].owned

\* complete(): the slot is freed and its owner called back.
complete(i) ==
    /\ slots' = [slots EXCEPT ![i] = Free]
    /\ timer' = arm(slots')
    /\ heard' = [heard EXCEPT ![slots[i].sequence] = Closed]
    /\ calling' = slots[i].owned

\* attempt() for a slot that was submitted earlier.
Retry(i, slot, out) ==
    \E r \in attempt(slot, out) :
        /\ outbox' = r.outbox
        /\ IF r.slot.active
           THEN /\ slots' = [slots EXCEPT ![i] = r.slot]
                /\ timer' = arm(slots')
                /\ UNCHANGED <<calling, heard>>
           ELSE complete(i)

\* The next sequence that is neither 0 nor beyond the limit nor in use.
NextSequence ==
    CHOOSE s \in SequenceNumbers :
        /\ find(slots, s) = {}
        /\ \A t \in SequenceNumbers :
               find(slots, t) = {} => (s - next_sequence - 1) % MaxSequence <= (t - next_sequence - 1) % MaxSequence

\* Messages about a sequence are gone long before it is used again.
Apart(s) == s # outbox /\ \A j \in 1..Len(air) : air[j].sequence # s

tb_requests_submit(k) ==
    /\ Idle \/ calling
    /\ Active(slots) # Index
    /\ LET sequence == NextSequence
           i == Min(Index \ Active(slots))
           slot == [Free EXCEPT !.active = TRUE, !.resend = k.resend, !.max = k.max, !.timeout = k.timeout,
                                !.owned = k.owned, !.sequence = sequence]
       IN  /\ Apart(sequence)
           /\ next_sequence' = sequence
           /\ \E r \in attempt(slot, outbox) :
                  /\ outbox' = r.outbox
                  /\ slots' = [slots EXCEPT ![i] = r.slot]
                  /\ timer' = arm(slots')
                  /\ heard' = IF r.slot.active THEN [heard EXCEPT ![sequence] = 0] ELSE heard
    /\ UNCHANGED <<air, rest, calling>>

\* The callback of a cancelled request does nothing in any controller.
tb_requests_cancel(s) ==
    /\ Idle \/ calling
    /\ \E i \in find(slots, s) :
           /\ slots[i].owned
           /\ slots' = [slots EXCEPT ![i] = Free]
           /\ timer' = arm(slots')
           /\ heard' = [heard EXCEPT ![s] = Closed]
    /\ UNCHANGED <<next_sequence, outbox, air, rest, calling>>

CallbackReturns ==
    /\ calling
    /\ calling' = FALSE
    /\ UNCHANGED <<slots, next_sequence, timer, outbox, air, rest, heard>>

-----------------------------------------------------------------------------
(* Events. *)

\* Mutant: chunks are taken in any order.
ChunkAnyOrder ==
    /\ Idle /\ air # <<>>
    /\ air' = Tail(air)
    /\ LET c == Head(air)
       IN  \/ /\ find(slots, c.sequence) = {}
              /\ UNCHANGED <<slots, timer, calling, heard>>
           \/ \E i \in find(slots, c.sequence) :
                  /\ slots' = [slots EXCEPT ![i].next_chunk = c.index + 1, ![i].left = slots[i].timeout]
                  /\ timer' = arm(slots')
                  /\ heard' = [heard EXCEPT ![c.sequence] = c.index + 1]
                  /\ calling' = slots[i].owned
    /\ UNCHANGED <<next_sequence, outbox, rest>>

\* inbox_received: one chunk of an answer.  A total of 0 stands for a message
\* whose numbers cannot be read.
tb_requests_chunk ==
    /\ Idle /\ air # <<>>
    /\ air' = Tail(air)
    /\ LET c == Head(air)
           ends(i) == c.index >= c.total \/ c.index # slots[i].next_chunk \/ c.index + 1 = c.total
           taken == {i \in find(slots, c.sequence) : ~ends(i)}
       IN  \/ /\ find(slots, c.sequence) = {}
              /\ UNCHANGED <<slots, timer, calling, heard>>
           \/ \E i \in find(slots, c.sequence) \ taken : complete(i)
           \/ \E i \in taken :
                  /\ slots' = [slots EXCEPT ![i].next_chunk = @ + 1, ![i].left = slots[i].timeout]
                  /\ timer' = arm(slots')
                  /\ heard' = [heard EXCEPT ![c.sequence] = c.index + 1]
                  /\ calling' = slots[i].owned
    /\ UNCHANGED <<next_sequence, outbox, rest>>

\* Only the first request that waits for the outbox is tried.
tb_requests_outbox_ready ==
    /\ rest = Ready /\ ~calling
    /\ rest' = Off
    /\ LET waiting == {i \in Active(slots) : slots[i].queued}
       IN  IF waiting = {} THEN UNCHANGED <<slots, timer, outbox, calling, heard>>
           ELSE Retry(Min(waiting), slots[Min(waiting)], outbox)
    /\ UNCHANGED <<next_sequence, air>>

\* The phone got the message.  It answers it in some chunks, or never.
Answered(total) ==
    /\ Len(air) + total <= MaxAir
    /\ air' = air \o [j \in 1..total |-> [sequence |-> outbox, index |-> j - 1, total |-> total]]

Unreadable ==
    /\ Len(air) < MaxAir
    /\ air' = Append(air, [sequence |-> outbox, index |-> 0, total |-> 0])

PhoneGets == Unreadable \/ \E total \in 0..MaxTotal : Answered(total)

outbox_sent ==
    /\ Idle /\ outbox # Off
    /\ PhoneGets
    /\ outbox' = Off
    /\ rest' = Ready
    /\ UNCHANGED <<slots, next_sequence, timer, calling, heard>>

\* The phone may have got the message although the watch is told it failed.
outbox_failed ==
    /\ Idle /\ outbox # Off
    /\ PhoneGets
    /\ rest' = Ready
    /\ LET failed == {i \in find(slots, outbox) : slots[i].next_chunk = 0}
       IN  IF failed = {} THEN outbox' = Off /\ UNCHANGED <<slots, timer, calling, heard>>
           ELSE \E i \in failed : Retry(i, slots[i], Off)
    /\ UNCHANGED next_sequence

timer_fired ==
    /\ Idle /\ timer = 0
    /\ timer' = Off
    /\ rest' = 1
    /\ UNCHANGED <<slots, next_sequence, outbox, air, calling, heard>>

\* One round of the loop of tb_requests_tick, or its last arm().
tb_requests_tick ==
    /\ rest > Ready /\ ~calling
    /\ LET due == {i \in Active(slots) : i >= rest /\ slots[i].left = 0}
           i == Min(due)
       IN  IF due = {}
           THEN /\ rest' = Off
                /\ timer' = arm(slots)
                /\ UNCHANGED <<slots, outbox, calling, heard>>
           ELSE /\ rest' = i + 1
                /\ IF slots[i].queued \/ (slots[i].resend /\ slots[i].next_chunk = 0)
                   THEN Retry(i, slots[i], outbox)
                   ELSE complete(i) /\ UNCHANGED outbox
    /\ UNCHANGED <<next_sequence, air>>

\* The clock goes on; a timer that is due fires before it does.
ClockTicks ==
    /\ Idle /\ timer > 0
    /\ timer' = timer - 1
    /\ slots' = [i \in Index |->
                    IF slots[i].active
                    THEN [slots[i] EXCEPT !.left = @ - 1, !.waited = IF slots[i].queued THEN @ + 1 ELSE @]
                    ELSE slots[i]]
    /\ UNCHANGED <<next_sequence, outbox, air, rest, calling, heard>>

\* The phone's transport gives up on a stream.
AnswerLost(s) ==
    /\ Idle
    /\ \E j \in 1..Len(air) : air[j].sequence = s
    /\ air' = SelectSeq(air, LAMBDA c : c.sequence # s)
    /\ UNCHANGED <<slots, next_sequence, timer, outbox, rest, calling, heard>>

-----------------------------------------------------------------------------

tb_requests_init ==
    /\ slots = [i \in Index |-> Free]
    /\ next_sequence = 0
    /\ timer = Off
    /\ outbox = Off
    /\ air = <<>>
    /\ rest = Off
    /\ calling = FALSE
    /\ heard = [s \in SequenceNumbers |-> Closed]

Next ==
    \/ \E k \in Kinds : tb_requests_submit(k)
    \/ \E s \in SequenceNumbers : tb_requests_cancel(s) \/ AnswerLost(s)
    \/ CallbackReturns \/ tb_requests_chunk \/ tb_requests_outbox_ready \/ outbox_sent \/ outbox_failed
    \/ timer_fired \/ tb_requests_tick \/ ClockTicks

Spec == tb_requests_init /\ [][Next]_vars

-----------------------------------------------------------------------------
(* Properties. *)

\* Every variable has its type.
TypeOK ==
    /\ \A i \in Index :
           /\ slots[i].active \in BOOLEAN /\ slots[i].queued \in BOOLEAN
           /\ slots[i].left \in Nat /\ slots[i].waited \in Nat
           /\ slots[i].attempts \in 0..slots[i].max /\ slots[i].sequence \in 0..MaxSequence
    /\ next_sequence \in 0..MaxSequence /\ timer \in Nat \cup {Off}
    /\ outbox \in SequenceNumbers \cup {Off}
    /\ rest \in Off..(Slots + 1) /\ calling \in BOOLEAN

\* A controller that was given a sequence and has not been told the end is
\* served by exactly one slot, which expects the chunk after the last one
\* reported; no slot works for a request nobody waits for.
WaitingHasSlot ==
    \A s \in SequenceNumbers :
        /\ (heard[s] # Closed) <=> find(slots, s) # {}
        /\ Cardinality(find(slots, s)) <= 1
        /\ \A i \in find(slots, s) : slots[i].next_chunk = heard[s]

\* Whenever the event loop is free, the request timer is set if and only if a
\* request is under way, and is due no later than any deadline, whatever the
\* callbacks submitted and cancelled while the slots were walked.
TimerCoversDeadlines ==
    Idle => /\ (timer # Off) <=> (Active(slots) # {})
            /\ \A i \in Active(slots) : timer <= slots[i].left

\* A request that waits for the outbox and has no answer yet gives up after its
\* timeout, give or take one retry interval: it is not tried for ever.
QueueBounded ==
    \A i \in Active(slots) : slots[i].next_chunk = 0 => slots[i].waited <= slots[i].timeout + QueueRetry

\* The slots are sound: typed, one for each waiting controller, covered by the
\* timer, and none queued for longer than its timeout (request_layer.c).
SlotsSound == TypeOK /\ WaitingHasSlot /\ TimerCoversDeadlines /\ QueueBounded

Contract == INSTANCE RequestContract WITH Sequences <- SequenceNumbers

\* The layer keeps the contract: chunks in order, one end, nothing after it.
LayerKeepsContract == Contract!Spec

\* How long a request can still take: the wait for its answer, or what is left
\* of its wait for the outbox and the answer after it, and both of them again
\* for every attempt it has not made.
Round(slot) == 2 * slot.timeout + QueueRetry
Larger(m, n) == IF m < n THEN n ELSE m
TimeLeft(slot) ==
    IF slot.queued
    THEN Larger(slot.timeout + QueueRetry - slot.waited, slot.left) + slot.timeout + (slot.max - slot.attempts - 1) * Round(slot)
    ELSE slot.left + (slot.max - slot.attempts) * Round(slot)

\* Every accepted request ends in time: the clock uses up the time it can still
\* take, and nothing prolongs it but a chunk of its answer, by one timeout.
OnlyChunksProlong ==
    \A i \in Index :
        slots[i].active /\ slots'[i].active =>
            /\ TimeLeft(slots'[i]) >= 0
            /\ TimeLeft(slots'[i]) + (IF ClockTicks THEN 1 ELSE 0)
                   <= TimeLeft(slots[i]) + (slots'[i].next_chunk - slots[i].next_chunk) * slots[i].timeout
EndsInTime == [][OnlyChunksProlong]_vars
=============================================================================
