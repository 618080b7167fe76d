------------------------- MODULE RequestLayerProofs -------------------------
(***************************************************************************)
(* Proofs about RequestLayer, for any number of slots, any range of        *)
(* sequence numbers larger than it, and any ways to submit.                *)
(***************************************************************************)
EXTENDS RequestLayer, FiniteSetTheorems, WellFoundedInduction, TLAPS

(***************************************************************************)
(* The inductive invariant.                                                *)
(***************************************************************************)
Slot == [active : BOOLEAN, queued : BOOLEAN, resend : BOOLEAN, attempts : Nat, max : Nat \ {0},
         next_chunk : Nat, sequence : 0..MaxSequence, timeout : Nat \ {0}, left : Nat, waited : Nat,
         owned : BOOLEAN]

Typed ==
  /\ slots \in [Index -> Slot]
  /\ next_sequence \in 0..MaxSequence /\ timer \in Nat \cup {Off}
  /\ outbox \in SequenceNumbers \cup {Off}
  /\ rest \in Off..(Slots + 1) /\ calling \in BOOLEAN
  /\ heard \in [SequenceNumbers -> Nat \cup {Closed}]

\* What one slot may look like: a request that waits for the outbox has an
\* attempt left, and gives up when its wait and its next try together exceed
\* its timeout.
SlotGood(slot) ==
  /\ slot.attempts <= slot.max
  /\ slot.active => slot.sequence \in SequenceNumbers
  /\ ~slot.queued => slot.waited = 0
  /\ slot.queued => slot.attempts < slot.max
  /\ slot.queued /\ slot.next_chunk = 0 => slot.waited + slot.left <= slot.timeout + QueueRetry

\* The controllers that wait and the slots that serve them are the same.
Served ==
  /\ \A i \in Active(slots) : heard[slots[i].sequence] = slots[i].next_chunk
  /\ \A i, j \in Active(slots) : slots[i].sequence = slots[j].sequence => i = j
  /\ \A s \in SequenceNumbers : heard[s] # Closed => find(slots, s) # {}

\* The timer covers the deadlines of the slots, except while they are walked.
Covers(t, s) == /\ t # Off <=> Active(s) # {}
                /\ \A i \in Active(s) : t <= s[i].left
Covered == rest <= Ready => Covers(timer, slots)

IInv == Typed /\ (\A i \in Index : SlotGood(slots[i])) /\ Served /\ Covered

-----------------------------------------------------------------------------
(***************************************************************************)
(* Numbers.                                                                *)
(***************************************************************************)
\* A set of naturals that is not empty has a least element.
LEMMA MinIsLeast ==
  ASSUME NEW S, S \subseteq Nat, S # {}
  PROVE  Min(S) \in S /\ \A x \in S : Min(S) <= x
<1>1. PICK m \in S : \A x \in S : ~(<<x, m>> \in OpToRel(<, Nat))
  BY Zenon, NatLessThanWellFounded, WFMin
<1>2. \A x \in S : m <= x
  <2> SUFFICES ASSUME NEW x \in S PROVE m <= x
    OBVIOUS
  <2>1. ~(<<x, m>> \in OpToRel(<, Nat))
    BY Zenon, <1>1
  <2>2. ~(x < m)
    BY <2>1 DEF OpToRel
  <2> QED BY <2>2
<1> QED BY Zenon, <1>2 DEF Min

\* More attempts take more time.
LEMMA Product ==
  ASSUME NEW a \in Nat, NEW b \in Nat, NEW d \in Nat, a < b
  PROVE  a * d + d <= b * d /\ 0 <= a * d
<1>1. PICK c \in Nat : b = a + 1 + c
  <2>1. b - a - 1 \in Nat /\ b = a + 1 + (b - a - 1)
    OBVIOUS
  <2> QED BY <2>1
<1>2. b * d = a * d + d + c * d
  BY <1>1
<1>3. c * d \in Nat /\ a * d \in Nat
  OBVIOUS
<1> QED BY <1>2, <1>3

-----------------------------------------------------------------------------
(***************************************************************************)
(* One slot.                                                               *)
(***************************************************************************)
\* The empty slot.
LEMMA FreeFacts ==
  ASSUME ConstantsAssumption
  PROVE  /\ Free \in Slot /\ SlotGood(Free) /\ ~Free.active
BY DEF ConstantsAssumption, Free, Slot, SlotGood

\* The time a request can still take is never negative.
LEMMA TimeLeftFacts ==
  ASSUME ConstantsAssumption, NEW slot \in Slot, SlotGood(slot)
  PROVE  TimeLeft(slot) \in Int /\ TimeLeft(slot) >= 0
<1> DEFINE d == Round(slot)
<1>1. /\ slot.timeout \in Nat /\ slot.left \in Nat /\ slot.waited \in Nat /\ QueueRetry \in Nat
      /\ slot.max \in Nat /\ slot.attempts \in Nat /\ slot.attempts <= slot.max
      /\ slot.queued => slot.attempts < slot.max
  BY DEF ConstantsAssumption, Slot, SlotGood
<1>2. d \in Nat
  BY <1>1 DEF Round
<1> HIDE DEF d
<1>3. CASE slot.queued
  <2>1. slot.max - slot.attempts - 1 \in Nat
    BY <1>1, <1>3
  <2>2. (slot.max - slot.attempts - 1) * d \in Nat
    BY <1>2, <2>1
  <2>3. Larger(slot.timeout + QueueRetry - slot.waited, slot.left) \in Nat
    BY <1>1 DEF Larger
  <2>4. TimeLeft(slot) = Larger(slot.timeout + QueueRetry - slot.waited, slot.left) + slot.timeout
                           + (slot.max - slot.attempts - 1) * d
    BY <1>3 DEF TimeLeft, d
  <2> QED BY <1>1, <2>2, <2>3, <2>4
<1>4. CASE ~slot.queued
  <2>1. slot.max - slot.attempts \in Nat
    BY <1>1
  <2>2. (slot.max - slot.attempts) * d \in Nat
    BY <1>2, <2>1
  <2>3. TimeLeft(slot) = slot.left + (slot.max - slot.attempts) * d
    BY <1>4 DEF TimeLeft, d
  <2> QED BY <1>1, <2>2, <2>3
<1> QED BY <1>3, <1>4

\* A request that is sent once more can take less time than before.
LEMMA SentTakesLess ==
  ASSUME ConstantsAssumption, NEW slot \in Slot, SlotGood(slot),
         NEW x \in Slot, NEW n \in (slot.attempts + 1)..slot.max,
         x.attempts = n, x.max = slot.max, x.timeout = slot.timeout, ~x.queued, x.left = slot.timeout
  PROVE  TimeLeft(x) <= TimeLeft(slot)
<1> DEFINE d == Round(slot)
<1>1. /\ slot.timeout \in Nat /\ slot.left \in Nat /\ slot.waited \in Nat /\ QueueRetry \in Nat
      /\ slot.max \in Nat /\ slot.attempts \in Nat /\ slot.attempts < n /\ n <= slot.max /\ n \in Nat
  BY DEF ConstantsAssumption, Slot
<1>2. d \in Nat /\ slot.timeout <= d /\ Round(x) = d
  BY <1>1 DEF Round
<1> HIDE DEF d
<1>3. TimeLeft(x) = slot.timeout + (slot.max - n) * d
  BY <1>2 DEF TimeLeft
<1>4. slot.max - n \in Nat /\ slot.max - slot.attempts - 1 \in Nat /\ slot.max - slot.attempts \in Nat
  BY <1>1
<1>5. (slot.max - n) * d \in Nat /\ (slot.max - slot.attempts - 1) * d \in Nat /\ (slot.max - slot.attempts) * d \in Nat
  BY <1>2, <1>4
<1>6. (slot.max - n) * d + d <= (slot.max - slot.attempts) * d
  <2>1. slot.max - n < slot.max - slot.attempts
    BY <1>1
  <2> QED BY <1>2, <1>4, <2>1, Product
<1>7. CASE slot.queued
  <2>1. TimeLeft(slot) = Larger(slot.timeout + QueueRetry - slot.waited, slot.left) + slot.timeout
                           + (slot.max - slot.attempts - 1) * d
    BY <1>7 DEF TimeLeft, d
  <2>2. Larger(slot.timeout + QueueRetry - slot.waited, slot.left) \in Nat
    BY <1>1 DEF Larger
  <2>3. (slot.max - n) * d <= (slot.max - slot.attempts - 1) * d
    <3>1. CASE n = slot.attempts + 1
      <4>1. slot.max - n = slot.max - slot.attempts - 1
        BY <1>1, <3>1
      <4> QED BY <1>5, <4>1
    <3>2. CASE n # slot.attempts + 1
      <4>1. slot.max - n < slot.max - slot.attempts - 1
        BY <1>1, <3>2
      <4>2. (slot.max - n) * d + d <= (slot.max - slot.attempts - 1) * d
        BY <1>2, <1>4, <4>1, Product
      <4> QED BY <1>2, <1>5, <4>2
    <3> QED BY <3>1, <3>2
  <2> QED BY <1>1, <1>3, <1>5, <2>1, <2>2, <2>3
<1>8. CASE ~slot.queued
  <2>1. TimeLeft(slot) = slot.left + (slot.max - slot.attempts) * d
    BY <1>8 DEF TimeLeft, d
  <2> QED BY <1>1, <1>2, <1>3, <1>5, <1>6, <2>1
<1> QED BY <1>7, <1>8

\* A request that has to wait for the outbox can take no more time than before.
LEMMA QueuedTakesNoMore ==
  ASSUME ConstantsAssumption, NEW slot \in Slot, SlotGood(slot), slot.attempts < slot.max,
         slot.queued => slot.waited < slot.timeout,
         NEW x \in Slot, x.attempts = slot.attempts, x.max = slot.max, x.timeout = slot.timeout,
         x.queued, x.left = QueueRetry, x.waited = IF slot.queued THEN slot.waited ELSE 0
  PROVE  TimeLeft(x) <= TimeLeft(slot)
<1> DEFINE d == Round(slot)
<1>1. /\ slot.timeout \in Nat /\ slot.left \in Nat /\ slot.waited \in Nat /\ QueueRetry \in Nat
      /\ slot.max \in Nat /\ slot.attempts \in Nat
  BY DEF ConstantsAssumption, Slot
<1>2. d \in Nat /\ d = 2 * slot.timeout + QueueRetry /\ Round(x) = d
  BY <1>1 DEF Round
<1> HIDE DEF d
<1>3. TimeLeft(x) = Larger(slot.timeout + QueueRetry - x.waited, QueueRetry) + slot.timeout
                      + (slot.max - slot.attempts - 1) * d
  BY <1>2 DEF TimeLeft
<1>4. slot.max - slot.attempts - 1 \in Nat /\ slot.max - slot.attempts \in Nat
  BY <1>1
<1>5. (slot.max - slot.attempts - 1) * d \in Nat /\ (slot.max - slot.attempts) * d \in Nat
  BY <1>2, <1>4
<1>6. CASE slot.queued
  <2>1. TimeLeft(slot) = Larger(slot.timeout + QueueRetry - slot.waited, slot.left) + slot.timeout
                           + (slot.max - slot.attempts - 1) * d
    BY <1>6 DEF TimeLeft, d
  <2>2. Larger(slot.timeout + QueueRetry - x.waited, QueueRetry)
          <= Larger(slot.timeout + QueueRetry - slot.waited, slot.left)
    BY <1>1, <1>6 DEF Larger
  <2>3. /\ Larger(slot.timeout + QueueRetry - x.waited, QueueRetry) \in Int
        /\ Larger(slot.timeout + QueueRetry - slot.waited, slot.left) \in Int
    BY <1>1, <1>6 DEF Larger
  <2> QED BY SMTT(40), <1>1, <1>3, <1>5, <2>1, <2>2, <2>3
<1>7. CASE ~slot.queued
  <2>1. TimeLeft(slot) = slot.left + (slot.max - slot.attempts) * d
    BY <1>7 DEF TimeLeft, d
  <2>2. Larger(slot.timeout + QueueRetry - x.waited, QueueRetry) = slot.timeout + QueueRetry
    BY <1>1, <1>7 DEF Larger
  <2>3. (slot.max - slot.attempts - 1) * d + d <= (slot.max - slot.attempts) * d
    <3>1. slot.max - slot.attempts - 1 < slot.max - slot.attempts
      BY <1>1
    <3> QED BY <1>2, <1>4, <3>1, Product
  <2> QED BY SMTT(40), <1>1, <1>2, <1>3, <1>5, <2>1, <2>2, <2>3
<1> QED BY <1>6, <1>7

\* A chunk of its answer prolongs a request by one timeout at most.
LEMMA ChunkProlongs ==
  ASSUME ConstantsAssumption, NEW slot \in Slot, SlotGood(slot), NEW x \in Slot,
         x.attempts = slot.attempts, x.max = slot.max, x.timeout = slot.timeout, x.queued = slot.queued,
         x.waited = slot.waited, x.left = slot.timeout
  PROVE  TimeLeft(x) <= TimeLeft(slot) + slot.timeout
<1> DEFINE d == Round(slot)
<1>1. /\ slot.timeout \in Nat /\ slot.left \in Nat /\ slot.waited \in Nat /\ QueueRetry \in Nat
      /\ slot.max \in Nat /\ slot.attempts \in Nat /\ slot.attempts <= slot.max
      /\ slot.queued => slot.attempts < slot.max
  BY DEF ConstantsAssumption, Slot, SlotGood
<1>2. d \in Nat /\ Round(x) = d
  BY <1>1 DEF Round
<1> HIDE DEF d
<1>3. CASE slot.queued
  <2> DEFINE p == (slot.max - slot.attempts - 1) * d
  <2>1. p \in Int
    BY <1>1, <1>2
  <2>2. /\ TimeLeft(slot) = Larger(slot.timeout + QueueRetry - slot.waited, slot.left) + slot.timeout + p
        /\ TimeLeft(x) = Larger(slot.timeout + QueueRetry - slot.waited, slot.timeout) + slot.timeout + p
    BY <1>2, <1>3 DEF TimeLeft, d
  <2> HIDE DEF p
  <2>3. /\ Larger(slot.timeout + QueueRetry - slot.waited, slot.timeout)
             <= Larger(slot.timeout + QueueRetry - slot.waited, slot.left) + slot.timeout
        /\ Larger(slot.timeout + QueueRetry - slot.waited, slot.timeout) \in Int
        /\ Larger(slot.timeout + QueueRetry - slot.waited, slot.left) \in Int
    BY <1>1 DEF Larger
  <2> QED BY <1>1, <2>1, <2>2, <2>3
<1>4. CASE ~slot.queued
  <2> DEFINE p == (slot.max - slot.attempts) * d
  <2>1. p \in Int
    BY <1>1, <1>2
  <2>2. TimeLeft(slot) = slot.left + p /\ TimeLeft(x) = slot.timeout + p
    BY <1>2, <1>4 DEF TimeLeft, d
  <2> HIDE DEF p
  <2> QED BY <1>1, <2>1, <2>2
<1> QED BY <1>3, <1>4

\* The clock uses up the time a request can still take.
LEMMA ClockUses ==
  ASSUME ConstantsAssumption, NEW slot \in Slot, SlotGood(slot), NEW x \in Slot, slot.left > 0,
         x.attempts = slot.attempts, x.max = slot.max, x.timeout = slot.timeout, x.queued = slot.queued,
         x.waited = (IF slot.queued THEN slot.waited + 1 ELSE slot.waited), x.left = slot.left - 1
  PROVE  TimeLeft(x) + 1 <= TimeLeft(slot)
<1> DEFINE d == Round(slot)
<1>1. /\ slot.timeout \in Nat /\ slot.left \in Nat /\ slot.waited \in Nat /\ QueueRetry \in Nat
      /\ slot.max \in Nat /\ slot.attempts \in Nat /\ slot.attempts <= slot.max
      /\ slot.queued => slot.attempts < slot.max
  BY DEF ConstantsAssumption, Slot, SlotGood
<1>2. d \in Nat /\ Round(x) = d
  BY <1>1 DEF Round
<1> HIDE DEF d
<1>3. CASE slot.queued
  <2> DEFINE p == (slot.max - slot.attempts - 1) * d
  <2>1. p \in Int
    BY <1>1, <1>2
  <2>2. /\ TimeLeft(slot) = Larger(slot.timeout + QueueRetry - slot.waited, slot.left) + slot.timeout + p
        /\ TimeLeft(x) = Larger(slot.timeout + QueueRetry - (slot.waited + 1), slot.left - 1) + slot.timeout + p
    BY <1>2, <1>3 DEF TimeLeft, d
  <2> HIDE DEF p
  <2>3. /\ Larger(slot.timeout + QueueRetry - (slot.waited + 1), slot.left - 1) + 1
             <= Larger(slot.timeout + QueueRetry - slot.waited, slot.left)
        /\ Larger(slot.timeout + QueueRetry - (slot.waited + 1), slot.left - 1) \in Int
        /\ Larger(slot.timeout + QueueRetry - slot.waited, slot.left) \in Int
    BY <1>1 DEF Larger
  <2> QED BY SMTT(40), <1>1, <2>1, <2>2, <2>3
<1>4. CASE ~slot.queued
  <2> DEFINE p == (slot.max - slot.attempts) * d
  <2>1. p \in Int
    BY <1>1, <1>2
  <2>2. TimeLeft(slot) = slot.left + p /\ TimeLeft(x) = slot.left - 1 + p
    BY <1>2, <1>4 DEF TimeLeft, d
  <2> HIDE DEF p
  <2> QED BY <1>1, <2>1, <2>2
<1> QED BY <1>3, <1>4

\* What attempt makes of a slot: nothing, or the same request with less time.
Continues(x, slot) ==
  /\ x \in Slot /\ SlotGood(x) /\ x.active
  /\ x.sequence = slot.sequence /\ x.next_chunk = slot.next_chunk
  /\ TimeLeft(x) <= TimeLeft(slot)

\* attempt() leaves a sound slot, and the outbox empty only if it was.
LEMMA AttemptFacts ==
  ASSUME ConstantsAssumption, NEW slot \in Slot, SlotGood(slot), slot.active,
         NEW out \in SequenceNumbers \cup {Off}, NEW r \in attempt(slot, out)
  PROVE  /\ \/ r.slot = Free
            \/ Continues(r.slot, slot)
         /\ r.outbox \in SequenceNumbers \cup {Off}
<1> USE DEF SequenceNumbers
<1>0. /\ slot.attempts \in Nat /\ slot.max \in Nat \ {0} /\ slot.timeout \in Nat \ {0} /\ slot.waited \in Nat
      /\ QueueRetry \in Nat /\ slot.attempts <= slot.max /\ slot.sequence \in SequenceNumbers
      /\ slot.queued \in BOOLEAN
  BY DEF ConstantsAssumption, Slot, SlotGood
<1> DEFINE q == [slot EXCEPT !.queued = TRUE, !.waited = IF slot.queued THEN @ ELSE 0, !.left = QueueRetry]
           s(n) == [slot EXCEPT !.attempts = n, !.queued = FALSE, !.waited = 0, !.left = slot.timeout]
<1>1. \/ r = [slot |-> Free, outbox |-> out]
      \/ /\ slot.attempts # slot.max /\ ~(slot.queued /\ slot.waited >= slot.timeout)
         /\ r = [slot |-> q, outbox |-> out]
      \/ /\ slot.attempts # slot.max
         /\ \E n \in (slot.attempts + 1)..slot.max : r = [slot |-> s(n), outbox |-> slot.sequence]
  BY Zenon DEF attempt
<1>2. CASE r = [slot |-> Free, outbox |-> out]
  BY <1>2
<1>3. CASE /\ slot.attempts # slot.max /\ ~(slot.queued /\ slot.waited >= slot.timeout)
           /\ r = [slot |-> q, outbox |-> out]
  <2>1. /\ q \in Slot /\ q.attempts = slot.attempts /\ q.max = slot.max /\ q.timeout = slot.timeout
        /\ q.queued /\ q.left = QueueRetry /\ q.waited = (IF slot.queued THEN slot.waited ELSE 0)
        /\ q.active /\ q.sequence = slot.sequence /\ q.next_chunk = slot.next_chunk
    BY Zenon, <1>0 DEF Slot
  <2> HIDE DEF q
  <2>2. slot.attempts < slot.max /\ (slot.queued => slot.waited < slot.timeout)
    BY <1>0, <1>3
  <2>3. TimeLeft(q) <= TimeLeft(slot)
    BY <2>1, <2>2, QueuedTakesNoMore
  <2>4. SlotGood(q)
    BY SMTT(40), <1>0, <2>1, <2>2 DEF SlotGood
  <2> QED BY <1>3, <2>1, <2>3, <2>4 DEF Continues
<1>4. ASSUME NEW n \in (slot.attempts + 1)..slot.max, r = [slot |-> s(n), outbox |-> slot.sequence]
      PROVE  Continues(r.slot, slot) /\ r.outbox \in SequenceNumbers \cup {Off}
  <2> DEFINE x == s(n)
  <2>0. n \in Nat /\ n <= slot.max
    BY <1>0
  <2>1. /\ x \in Slot /\ x.attempts = n /\ x.max = slot.max /\ x.timeout = slot.timeout
        /\ ~x.queued /\ x.left = slot.timeout /\ x.waited = 0
        /\ x.active /\ x.sequence = slot.sequence /\ x.next_chunk = slot.next_chunk
    BY Zenon, <1>0, <2>0 DEF Slot
  <2>2. r.slot = x /\ r.outbox = slot.sequence
    BY <1>4
  <2> HIDE DEF x, s
  <2>3. TimeLeft(x) <= TimeLeft(slot)
    BY <2>1, SentTakesLess
  <2>4. SlotGood(x)
    BY <1>0, <2>0, <2>1 DEF SlotGood
  <2> QED BY <1>0, <2>1, <2>2, <2>3, <2>4 DEF Continues
<1> QED BY Zenon, <1>1, <1>2, <1>3, <1>4

-----------------------------------------------------------------------------
(***************************************************************************)
(* The slots, the timer and what the controllers hear.                     *)
(***************************************************************************)
\* The invariant, as far as a change of the slots is concerned.
Sound == /\ slots \in [Index -> Slot] /\ timer \in Nat \cup {Off}
         /\ heard \in [SequenceNumbers -> Nat \cup {Closed}]
         /\ \A i \in Index : SlotGood(slots[i])
         /\ Served /\ Covers(timer, slots)

\* What OnlyChunksProlong says of a step that takes no time.
NotLonger ==
  \A i \in Index :
    slots[i].active /\ slots'[i].active =>
      /\ TimeLeft(slots'[i]) >= 0
      /\ TimeLeft(slots'[i]) <= TimeLeft(slots[i]) + (slots'[i].next_chunk - slots[i].next_chunk) * slots[i].timeout

\* What every change of the slots has to respect.
SlotsStep == Sound' /\ [Contract!Next]_heard /\ NotLonger

\* arm() covers every deadline.
LEMMA ArmCovers ==
  ASSUME NEW s \in [Index -> Slot]
  PROVE  arm(s) \in Nat \cup {Off} /\ Covers(arm(s), s)
<1>1. CASE Active(s) = {}
  BY <1>1 DEF arm, Covers
<1>2. CASE Active(s) # {}
  <2> DEFINE L == {s[i].left : i \in Active(s)}
  <2>1. \A i \in Active(s) : s[i].left \in Nat
    BY DEF Active, Slot
  <2>2. L \subseteq Nat /\ L # {}
    BY <1>2, <2>1
  <2>3. Min(L) \in L /\ \A n \in L : Min(L) <= n
    BY Zenon, <2>2, MinIsLeast
  <2>4. arm(s) = Min(L)
    BY <1>2 DEF arm
  <2> QED BY <1>2, <2>2, <2>3, <2>4 DEF Covers, Off
<1> QED BY <1>1, <1>2

\* A slot left alone takes no longer.
LEMMA AloneNotLonger ==
  ASSUME ConstantsAssumption, NEW slot \in Slot, SlotGood(slot)
  PROVE  /\ TimeLeft(slot) >= 0
         /\ TimeLeft(slot) <= TimeLeft(slot) + (slot.next_chunk - slot.next_chunk) * slot.timeout
<1>1. slot.next_chunk - slot.next_chunk = 0 /\ slot.timeout \in Nat
  BY DEF Slot
<1>2. (slot.next_chunk - slot.next_chunk) * slot.timeout = 0
  BY <1>1
<1> QED BY <1>2, TimeLeftFacts

\* A request goes on in its slot: it is tried again, or a chunk arrived.
LEMMA SlotGoesOn ==
  ASSUME ConstantsAssumption, IInv, NEW i \in Active(slots), NEW x \in Slot, SlotGood(x), x.active,
         slots' = [slots EXCEPT ![i] = x], timer' = arm(slots'),
         x.sequence = slots[i].sequence,
         \/ /\ heard' = heard /\ x.next_chunk = slots[i].next_chunk
            /\ TimeLeft(x) <= TimeLeft(slots[i])
         \/ /\ heard' = [heard EXCEPT ![x.sequence] = x.next_chunk]
            /\ x.next_chunk = slots[i].next_chunk + 1
            /\ TimeLeft(x) <= TimeLeft(slots[i]) + slots[i].timeout
  PROVE  SlotsStep
<1>0. /\ slots \in [Index -> Slot] /\ heard \in [SequenceNumbers -> Nat \cup {Closed}]
      /\ i \in Index /\ slots[i].active /\ slots[i] \in Slot /\ Closed \notin Nat
      /\ x.sequence \in SequenceNumbers /\ x.next_chunk \in Nat
      /\ slots[i].next_chunk \in Nat /\ slots[i].timeout \in Nat
  BY DEF IInv, Typed, Active, SlotGood, Slot, Closed
<1>1. slots' \in [Index -> Slot] /\ slots'[i] = x /\ \A j \in Index : j # i => slots'[j] = slots[j]
  BY <1>0
<1>2. timer' \in Nat \cup {Off} /\ Covers(timer', slots')
  BY Zenon, <1>1, ArmCovers
<1>3. \A j \in Index : SlotGood(slots'[j])
  BY <1>1 DEF IInv
<1>4. \A j \in Index : slots'[j].active = slots[j].active /\ slots'[j].sequence = slots[j].sequence
  BY Zenon, <1>0, <1>1
<1>5. Active(slots') = Active(slots) /\ \A s \in SequenceNumbers : find(slots', s) = find(slots, s)
  BY <1>4 DEF Active, find
<1>6. /\ heard' \in [SequenceNumbers -> Nat \cup {Closed}]
      /\ heard'[x.sequence] = x.next_chunk
      /\ \A s \in SequenceNumbers : s # x.sequence => heard'[s] = heard[s]
  BY <1>0 DEF IInv, Served
<1>7. Served'
  <2>1. \A j \in Active(slots') : heard'[slots'[j].sequence] = slots'[j].next_chunk
    <3> SUFFICES ASSUME NEW j \in Active(slots) PROVE heard'[slots'[j].sequence] = slots'[j].next_chunk
      BY <1>5
    <3>1. CASE j = i
      BY <1>1, <1>6, <3>1
    <3>2. CASE j # i
      <4>1. j \in Index /\ slots[j].sequence \in SequenceNumbers /\ slots[j].sequence # x.sequence
        BY <3>2 DEF IInv, Served, Active, SlotGood
      <4> QED BY SMTT(40), <1>1, <1>6, <3>2, <4>1 DEF IInv, Served
    <3> QED BY <3>1, <3>2
  <2>2. \A j, k \in Active(slots') : slots'[j].sequence = slots'[k].sequence => j = k
    BY <1>4, <1>5 DEF IInv, Served, Active
  <2>3. \A s \in SequenceNumbers : heard'[s] # Closed => find(slots', s) # {}
    <3>1. find(slots, x.sequence) # {}
      BY <1>0 DEF find
    <3> QED BY Zenon, <1>5, <1>6, <3>1 DEF IInv, Served
  <2> QED BY Zenon, <2>1, <2>2, <2>3 DEF Served
<1>8. [Contract!Next]_heard
  <2>1. CASE heard' = heard
    BY <2>1
  <2>2. CASE heard' = [heard EXCEPT ![x.sequence] = x.next_chunk] /\ x.next_chunk = slots[i].next_chunk + 1
    <3>1. heard[x.sequence] = slots[i].next_chunk
      BY <1>0 DEF IInv, Served
    <3>2. heard[x.sequence] # Closed
      BY <1>0, <3>1
    <3>3. heard' = [heard EXCEPT ![x.sequence] = heard[x.sequence] + 1]
      BY <2>2, <3>1
    <3>4. Contract!Chunk(x.sequence)
      BY <3>2, <3>3 DEF Contract!Chunk, Contract!Closed, Closed
    <3> QED BY SMTT(40), <1>0, <3>4 DEF Contract!Next
  <2> QED BY <2>1, <2>2
<1>9. NotLonger
  <2> SUFFICES ASSUME NEW j \in Index
               PROVE  /\ TimeLeft(slots'[j]) >= 0
                      /\ TimeLeft(slots'[j]) <= TimeLeft(slots[j])
                                                  + (slots'[j].next_chunk - slots[j].next_chunk) * slots[j].timeout
    BY DEF NotLonger
  <2>1. CASE j # i
    BY SMTT(40), <1>0, <1>1, <2>1, AloneNotLonger DEF IInv
  <2>2. CASE j = i
    <3>1. TimeLeft(x) >= 0 /\ TimeLeft(x) \in Int /\ TimeLeft(slots[i]) \in Int
      BY <1>0, TimeLeftFacts DEF IInv
    <3>2. CASE x.next_chunk = slots[i].next_chunk /\ TimeLeft(x) <= TimeLeft(slots[i])
      <4>1. (x.next_chunk - slots[i].next_chunk) * slots[i].timeout = 0
        BY <1>0, <3>2
      <4> QED BY SMTT(40), <1>1, <2>2, <3>1, <3>2, <4>1
    <3>3. CASE x.next_chunk = slots[i].next_chunk + 1 /\ TimeLeft(x) <= TimeLeft(slots[i]) + slots[i].timeout
      <4>1. (x.next_chunk - slots[i].next_chunk) * slots[i].timeout = slots[i].timeout
        BY <1>0, <3>3
      <4> QED BY SMTT(40), <1>1, <2>2, <3>1, <3>3, <4>1
    <3> QED BY SMTT(40), <3>2, <3>3
  <2> QED BY <2>1, <2>2
<1> QED BY SMTT(40), <1>1, <1>2, <1>3, <1>6, <1>7, <1>8, <1>9 DEF SlotsStep, Sound

\* A request ends: its slot is free again and its controller was told.
LEMMA SlotIsFreed ==
  ASSUME ConstantsAssumption, IInv, NEW i \in Active(slots),
         slots' = [slots EXCEPT ![i] = Free], timer' = arm(slots'),
         heard' = [heard EXCEPT ![slots[i].sequence] = Closed]
  PROVE  SlotsStep
<1> DEFINE s == slots[i].sequence
<1>0. /\ slots \in [Index -> Slot] /\ heard \in [SequenceNumbers -> Nat \cup {Closed}]
      /\ i \in Index /\ slots[i].active /\ s \in SequenceNumbers
      /\ heard[s] \in Nat /\ Closed \notin Nat
  BY DEF IInv, Typed, Served, Active, SlotGood, Slot, Closed
<1>1. slots' \in [Index -> Slot] /\ slots'[i] = Free /\ \A j \in Index : j # i => slots'[j] = slots[j]
  BY <1>0, FreeFacts
<1>2. timer' \in Nat \cup {Off} /\ Covers(timer', slots')
  BY Zenon, <1>1, ArmCovers
<1>3. \A j \in Index : SlotGood(slots'[j])
  BY SMTT(40), <1>1, FreeFacts DEF IInv
<1>4. Active(slots') = Active(slots) \ {i}
  BY <1>0, <1>1, FreeFacts DEF Active
<1>5. /\ heard' \in [SequenceNumbers -> Nat \cup {Closed}] /\ heard'[s] = Closed
      /\ \A t \in SequenceNumbers : t # s => heard'[t] = heard[t]
  BY <1>0
<1>6. Served'
  <2>1. \A j \in Active(slots') : heard'[slots'[j].sequence] = slots'[j].next_chunk
    <3> SUFFICES ASSUME NEW j \in Active(slots), j # i PROVE heard'[slots'[j].sequence] = slots'[j].next_chunk
      BY Zenon, <1>4
    <3>1. j \in Index /\ slots[j].sequence \in SequenceNumbers /\ slots[j].sequence # s
      BY SMTT(40) DEF IInv, Served, Active, SlotGood
    <3> QED BY <1>1, <1>5, <3>1 DEF IInv, Served
  <2>2. \A j, k \in Active(slots') : slots'[j].sequence = slots'[k].sequence => j = k
    BY <1>1, <1>4 DEF IInv, Served, Active
  <2>3. \A t \in SequenceNumbers : heard'[t] # Closed => find(slots', t) # {}
    <3> SUFFICES ASSUME NEW t \in SequenceNumbers, heard'[t] # Closed PROVE find(slots', t) # {}
      BY Zenon
    <3>1. t # s /\ heard[t] # Closed
      BY <1>5
    <3>2. PICK j \in find(slots, t) : TRUE
      BY <3>1 DEF IInv, Served
    <3>3. j \in Active(slots) /\ j # i /\ slots[j].sequence = t /\ j \in Index
      BY <3>1, <3>2 DEF find, Active
    <3> QED BY Zenon, <1>1, <1>4, <3>3 DEF find
  <2> QED BY Zenon, <2>1, <2>2, <2>3 DEF Served
<1>7. [Contract!Next]_heard
  <2>1. Contract!End(s)
    BY <1>0 DEF Contract!End, Contract!Closed, Closed
  <2> QED BY <1>0, <2>1 DEF Contract!Next
<1>8. NotLonger
  <2>1. \A j \in Index : slots'[j].active => slots'[j] = slots[j]
    BY <1>1, FreeFacts
  <2> QED BY <1>0, <2>1, AloneNotLonger DEF NotLonger, IInv
<1> QED BY SMTT(40), <1>1, <1>2, <1>3, <1>5, <1>6, <1>7, <1>8 DEF SlotsStep, Sound

\* A free slot is taken for a request whose sequence nobody waits for.
LEMMA SlotIsTaken ==
  ASSUME ConstantsAssumption, IInv, NEW i \in Index \ Active(slots), NEW x \in Slot, SlotGood(x),
         x.active, find(slots, x.sequence) = {}, x.next_chunk = 0,
         slots' = [slots EXCEPT ![i] = x], timer' = arm(slots'),
         heard' = [heard EXCEPT ![x.sequence] = 0]
  PROVE  SlotsStep
<1> DEFINE s == x.sequence
<1>0. /\ slots \in [Index -> Slot] /\ heard \in [SequenceNumbers -> Nat \cup {Closed}]
      /\ ~slots[i].active /\ s \in SequenceNumbers
  BY DEF IInv, Typed, Active, SlotGood
<1>00. heard[s] = Closed
  BY <1>0 DEF IInv, Served
<1>1. slots' \in [Index -> Slot] /\ slots'[i] = x /\ \A j \in Index : j # i => slots'[j] = slots[j]
  BY <1>0
<1>2. timer' \in Nat \cup {Off} /\ Covers(timer', slots')
  BY Zenon, <1>1, ArmCovers
<1>3. \A j \in Index : SlotGood(slots'[j])
  BY <1>1 DEF IInv
<1>4. Active(slots') = Active(slots) \cup {i}
  BY <1>1 DEF Active
<1>5. /\ heard' \in [SequenceNumbers -> Nat \cup {Closed}] /\ heard'[s] = 0
      /\ \A t \in SequenceNumbers : t # s => heard'[t] = heard[t]
  BY <1>0
<1>6. \A j \in Active(slots) : /\ j \in Index /\ j # i /\ slots'[j] = slots[j]
                               /\ slots[j].sequence \in SequenceNumbers /\ slots[j].sequence # s
  BY <1>0, <1>1 DEF Active, find, IInv, SlotGood
<1>7. Served'
  <2>1. \A j \in Active(slots') : heard'[slots'[j].sequence] = slots'[j].next_chunk
    <3>1. heard'[slots'[i].sequence] = slots'[i].next_chunk
      BY SMTT(40), <1>1, <1>5
    <3>2. \A j \in Active(slots) : heard'[slots'[j].sequence] = slots'[j].next_chunk
      BY <1>5, <1>6 DEF IInv, Served
    <3> QED BY Zenon, <1>4, <3>1, <3>2
  <2>2. \A j, k \in Active(slots') : slots'[j].sequence = slots'[k].sequence => j = k
    <3>1. \A j, k \in Active(slots) : slots'[j].sequence = slots'[k].sequence => j = k
      BY <1>6 DEF IInv, Served
    <3>2. \A j \in Active(slots) : slots'[j].sequence # slots'[i].sequence
      BY <1>1, <1>6
    <3> QED BY Zenon, <1>4, <3>1, <3>2
  <2>3. \A t \in SequenceNumbers : heard'[t] # Closed => find(slots', t) # {}
    <3> SUFFICES ASSUME NEW t \in SequenceNumbers, heard'[t] # Closed PROVE find(slots', t) # {}
      BY Zenon
    <3>1. CASE t = s
      BY Zenon, <1>1, <1>4, <3>1 DEF find
    <3>2. CASE t # s
      <4>1. PICK j \in find(slots, t) : TRUE
        BY SMTT(40), <1>5, <3>2 DEF IInv, Served
      <4>2. j \in Active(slots) /\ slots[j].sequence = t
        BY <4>1 DEF find
      <4> QED BY Zenon, <1>4, <1>6, <4>2 DEF find
    <3> QED BY Zenon, <3>1, <3>2
  <2> QED BY Zenon, <2>1, <2>2, <2>3 DEF Served
<1>8. [Contract!Next]_heard
  <2>1. Contract!Accept(s)
    BY SMTT(40), <1>00 DEF Contract!Accept, Contract!Closed, Closed
  <2> QED BY <1>0, <2>1 DEF Contract!Next
<1>9. NotLonger
  <2>1. \A j \in Index : slots[j].active => slots'[j] = slots[j]
    BY <1>0, <1>1
  <2> QED BY <1>0, <2>1, AloneNotLonger DEF NotLonger, IInv
<1> QED BY SMTT(40), <1>1, <1>2, <1>3, <1>5, <1>7, <1>8, <1>9 DEF SlotsStep, Sound

\* A request that is refused when it is submitted leaves the slots as they were.
LEMMA SlotStaysFree ==
  ASSUME ConstantsAssumption, IInv, NEW i \in Index \ Active(slots),
         slots' = [slots EXCEPT ![i] = Free], timer' = arm(slots'), heard' = heard
  PROVE  SlotsStep
<1>0. slots \in [Index -> Slot] /\ heard \in [SequenceNumbers -> Nat \cup {Closed}] /\ ~slots[i].active
  BY DEF IInv, Typed, Active
<1>1. slots' \in [Index -> Slot] /\ slots'[i] = Free /\ \A j \in Index : j # i => slots'[j] = slots[j]
  BY <1>0, FreeFacts
<1>2. timer' \in Nat \cup {Off} /\ Covers(timer', slots')
  BY Zenon, <1>1, ArmCovers
<1>3. \A j \in Index : SlotGood(slots'[j])
  BY SMTT(40), <1>1, FreeFacts DEF IInv
<1>4. Active(slots') = Active(slots) /\ \A j \in Active(slots) : slots'[j] = slots[j]
  BY SMTT(40), <1>0, <1>1, FreeFacts DEF Active
<1>5. \A s \in SequenceNumbers : find(slots', s) = find(slots, s)
  BY <1>4 DEF find
<1>6. Served'
  BY ZenonT(30), <1>4, <1>5 DEF IInv, Served
<1>7. NotLonger
  <2>1. \A j \in Index : slots[j].active => slots'[j] = slots[j]
    BY <1>0, <1>1
  <2> QED BY <1>0, <2>1, AloneNotLonger DEF NotLonger, IInv
<1> QED BY <1>0, <1>1, <1>2, <1>3, <1>6, <1>7 DEF SlotsStep, Sound

-----------------------------------------------------------------------------
(***************************************************************************)
(* The next sequence.                                                      *)
(***************************************************************************)
\* There are more sequences than slots, so one is always free.
LEMMA SequenceIsFree ==
  ASSUME ConstantsAssumption, slots \in [Index -> Slot]
  PROVE  \E s \in SequenceNumbers : find(slots, s) = {}
<1> SUFFICES ASSUME \A s \in SequenceNumbers : find(slots, s) # {} PROVE FALSE
  OBVIOUS
<1> DEFINE f == [s \in SequenceNumbers |-> CHOOSE i \in find(slots, s) : TRUE]
<1>1. \A s \in SequenceNumbers : f[s] \in Index /\ slots[f[s]].sequence = s
  <2> SUFFICES ASSUME NEW s \in SequenceNumbers PROVE f[s] \in find(slots, s)
    BY DEF find, Active
  <2>1. find(slots, s) # {}
    OBVIOUS
  <2> QED BY <2>1
<1>2. f \in [SequenceNumbers -> Index]
  BY <1>1
<1> HIDE DEF f
<1>3. /\ IsFiniteSet(SequenceNumbers) /\ Cardinality(SequenceNumbers) = MaxSequence
      /\ IsFiniteSet(Index) /\ Cardinality(Index) = Slots
  <2>1. Slots \in Nat /\ MaxSequence \in Nat
    BY DEF ConstantsAssumption
  <2>2. IsFiniteSet(1..MaxSequence) /\ Cardinality(1..MaxSequence) = MaxSequence
    BY <2>1, FS_Interval
  <2>3. IsFiniteSet(1..Slots) /\ Cardinality(1..Slots) = Slots
    BY SMTT(40), <2>1, FS_Interval
  <2> QED BY <2>2, <2>3 DEF SequenceNumbers, Index
<1>4. Cardinality(Index) < Cardinality(SequenceNumbers)
  BY <1>3 DEF ConstantsAssumption
<1>5. \E s, t \in SequenceNumbers : s # t /\ f[s] = f[t]
  BY SMTT(40), <1>2, <1>3, <1>4, FS_PigeonHole
<1> QED BY <1>1, <1>5

\* The sequence a request is given is in nobody's use.
LEMMA NextSequenceFacts ==
  ASSUME ConstantsAssumption, slots \in [Index -> Slot], next_sequence \in 0..MaxSequence
  PROVE  NextSequence \in SequenceNumbers /\ find(slots, NextSequence) = {}
<1> DEFINE dist(s) == (s - next_sequence - 1) % MaxSequence
           D == {dist(s) : s \in {t \in SequenceNumbers : find(slots, t) = {}}}
<1>1. \A s \in SequenceNumbers : dist(s) \in Nat
  <2>1. MaxSequence \in Nat /\ MaxSequence > 0
    BY DEF ConstantsAssumption
  <2> SUFFICES ASSUME NEW s \in SequenceNumbers PROVE dist(s) \in Nat
    OBVIOUS
  <2>2. s - next_sequence - 1 \in Int
    BY <2>1 DEF SequenceNumbers
  <2> QED BY <2>1, <2>2
<1> HIDE DEF dist
<1>2. D \subseteq Nat /\ D # {}
  BY <1>1, SequenceIsFree
<1>3. Min(D) \in D /\ \A n \in D : Min(D) <= n
  BY Zenon, <1>2, MinIsLeast
<1>4. PICK s \in SequenceNumbers : find(slots, s) = {} /\ dist(s) = Min(D)
  BY Zenon, <1>3
<1>5. \A t \in SequenceNumbers : find(slots, t) = {} => dist(s) <= dist(t)
  BY <1>3, <1>4
<1>6. \E u \in SequenceNumbers :
        /\ find(slots, u) = {}
        /\ \A t \in SequenceNumbers : find(slots, t) = {} => dist(u) <= dist(t)
  BY SMTT(40), <1>4, <1>5
<1> QED BY Zenon, <1>6 DEF NextSequence, dist

-----------------------------------------------------------------------------
(***************************************************************************)
(* The actions.                                                            *)
(***************************************************************************)
\* What every step but the clock's has to respect.
StepGood == IInv' /\ [Contract!Next]_heard /\ NotLonger

\* A step that changes the slots soundly, and the rest within its type.
LEMMA SlotsStepIsGood ==
  ASSUME SlotsStep, next_sequence' \in 0..MaxSequence, outbox' \in SequenceNumbers \cup {Off},
         rest' \in Off..(Slots + 1), calling' \in BOOLEAN
  PROVE  StepGood
BY DEF SlotsStep, Sound, StepGood, IInv, Typed, Covered

\* A step that leaves the slots alone.
LEMMA SlotsKeptIsGood ==
  ASSUME ConstantsAssumption, IInv, slots' = slots, heard' = heard, timer' \in Nat \cup {Off},
         rest' <= Ready => Covers(timer', slots), next_sequence' \in 0..MaxSequence,
         outbox' \in SequenceNumbers \cup {Off}, rest' \in Off..(Slots + 1), calling' \in BOOLEAN
  PROVE  StepGood
<1>1. Typed' /\ (\A i \in Index : SlotGood(slots'[i]))
  BY SMTT(40) DEF IInv, Typed
<1>2. Served'
  BY DEF IInv, Served, Active, find
<1>3. Covered'
  BY DEF Covered
<1>4. NotLonger
  BY SMTT(40), AloneNotLonger DEF NotLonger, IInv, Typed
<1> QED BY SMTT(40), <1>1, <1>2, <1>3, <1>4 DEF StepGood, IInv

\* A controller is called back with the end of its request.
LEMMA CompleteFacts ==
  ASSUME ConstantsAssumption, IInv, NEW i \in Active(slots), complete(i)
  PROVE  SlotsStep /\ calling' \in BOOLEAN
<1>1. SlotsStep
  BY Zenon, SlotIsFreed DEF complete
<1>2. i \in Index /\ slots[i] \in Slot
  BY DEF IInv, Typed, Active
<1> QED BY <1>1, <1>2 DEF complete, Slot

\* A request is tried again: it goes on or ends.
LEMMA RetryFacts ==
  ASSUME ConstantsAssumption, IInv, NEW i \in Active(slots), NEW out \in SequenceNumbers \cup {Off},
         Retry(i, slots[i], out)
  PROVE  SlotsStep /\ calling' \in BOOLEAN /\ outbox' \in SequenceNumbers \cup {Off}
<1>0. i \in Index /\ slots[i] \in Slot /\ SlotGood(slots[i]) /\ slots[i].active /\ calling \in BOOLEAN
  BY DEF IInv, Typed, Active
<1>1. PICK r \in attempt(slots[i], out) :
        /\ outbox' = r.outbox
        /\ IF r.slot.active
           THEN slots' = [slots EXCEPT ![i] = r.slot] /\ timer' = arm(slots') /\ UNCHANGED <<calling, heard>>
           ELSE complete(i)
  BY DEF Retry
<1>2. (r.slot = Free \/ Continues(r.slot, slots[i])) /\ r.outbox \in SequenceNumbers \cup {Off}
  BY SMTT(40), <1>0, AttemptFacts
<1>3. CASE ~r.slot.active
  BY SMTT(40), <1>1, <1>2, <1>3, CompleteFacts
<1>4. CASE r.slot.active
  <2>1. Continues(r.slot, slots[i])
    BY SMTT(40), <1>2, <1>4, FreeFacts
  <2>2. /\ r.slot \in Slot /\ SlotGood(r.slot) /\ r.slot.active
        /\ r.slot.sequence = slots[i].sequence /\ r.slot.next_chunk = slots[i].next_chunk
        /\ TimeLeft(r.slot) <= TimeLeft(slots[i])
    BY <2>1 DEF Continues
  <2>3. slots' = [slots EXCEPT ![i] = r.slot] /\ timer' = arm(slots') /\ heard' = heard /\ calling' = calling
    BY <1>1, <1>4
  <2>4. SlotsStep
    BY Zenon, <2>2, <2>3, SlotGoesOn
  <2> QED BY <1>0, <1>1, <1>2, <2>3, <2>4
<1> QED BY <1>3, <1>4

\* The first of some slots is one of them.
LEMMA FirstOf ==
  ASSUME NEW S \in SUBSET Index, S # {}
  PROVE  Min(S) \in S
<1>1. S \subseteq Nat
  BY DEF Index
<1> QED BY Zenon, <1>1, MinIsLeast

\* tb_requests_submit
LEMMA SubmitStep ==
  ASSUME ConstantsAssumption, IInv, NEW k \in Kinds, tb_requests_submit(k)
  PROVE  StepGood
<1> DEFINE s == NextSequence
           i == Min(Index \ Active(slots))
           slot == [Free EXCEPT !.active = TRUE, !.resend = k.resend, !.max = k.max, !.timeout = k.timeout,
                                !.owned = k.owned, !.sequence = s]
<1>1. s \in SequenceNumbers /\ find(slots, s) = {}
  BY NextSequenceFacts DEF IInv, Typed
<1>2. i \in Index \ Active(slots)
  <2>1. Index \ Active(slots) # {}
    BY DEF tb_requests_submit, Active
  <2> QED BY <2>1, FirstOf
<1>3. /\ slot \in Slot /\ SlotGood(slot) /\ slot.active
      /\ slot.sequence = s /\ slot.next_chunk = 0
  <2>1. s \in 0..MaxSequence
    BY <1>1 DEF SequenceNumbers, ConstantsAssumption
  <2>2. /\ k.resend \in BOOLEAN /\ k.max \in Nat \ {0} /\ k.timeout \in Nat \ {0} /\ k.owned \in BOOLEAN
        /\ QueueRetry \in Nat
    BY DEF ConstantsAssumption, KindType
  <2> HIDE DEF s
  <2>3. Free \in Slot
    BY FreeFacts
  <2>4. slot \in Slot
    BY Zenon, <2>1, <2>2, <2>3 DEF Slot
  <2>5. /\ slot.active /\ slot.sequence = s /\ slot.max = k.max /\ slot.next_chunk = Free.next_chunk
        /\ slot.attempts = Free.attempts /\ slot.queued = Free.queued /\ slot.waited = Free.waited
    BY SMTT(40), <2>3 DEF Slot
  <2> HIDE DEF slot
  <2>6. slot.next_chunk = 0 /\ slot.attempts = 0 /\ slot.queued = FALSE /\ slot.waited = 0
    BY SMTT(40), <2>5 DEF Free
  <2>7. SlotGood(slot)
    BY <1>1, <2>2, <2>5, <2>6 DEF SlotGood
  <2> QED BY SMTT(40), <2>4, <2>5, <2>6, <2>7
<1>4. PICK r \in attempt(slot, outbox) :
        /\ outbox' = r.outbox /\ slots' = [slots EXCEPT ![i] = r.slot] /\ timer' = arm(slots')
        /\ heard' = IF r.slot.active THEN [heard EXCEPT ![s] = 0] ELSE heard
  BY Zenon DEF tb_requests_submit
<1>5. next_sequence' = s /\ rest' = rest /\ calling' = calling
  BY DEF tb_requests_submit
<1> HIDE DEF slot, i, s
<1>6. outbox \in SequenceNumbers \cup {Off} /\ rest \in Off..(Slots + 1) /\ calling \in BOOLEAN
  BY DEF IInv, Typed
<1>7. (r.slot = Free \/ Continues(r.slot, slot)) /\ r.outbox \in SequenceNumbers \cup {Off}
  BY SMTT(40), <1>3, <1>6, AttemptFacts
<1>8. SlotsStep
  <2>1. CASE r.slot.active
    <3>1. Continues(r.slot, slot)
      BY SMTT(40), <1>7, <2>1, FreeFacts
    <3>2. r.slot \in Slot /\ SlotGood(r.slot) /\ r.slot.sequence = s /\ r.slot.next_chunk = 0
      BY SMTT(40), <1>3, <3>1 DEF Continues
    <3>3. slots' = [slots EXCEPT ![i] = r.slot] /\ timer' = arm(slots') /\ heard' = [heard EXCEPT ![s] = 0]
      BY <1>4, <2>1
    <3> QED BY Zenon, <1>1, <1>2, <2>1, <3>2, <3>3, SlotIsTaken
  <2>2. CASE ~r.slot.active
    <3>1. r.slot = Free
      BY <1>7, <2>2 DEF Continues
    <3> QED BY Zenon, <1>2, <1>4, <2>2, <3>1, SlotStaysFree
  <2> QED BY <2>1, <2>2
<1>9. next_sequence' \in 0..MaxSequence
  BY <1>1, <1>5 DEF SequenceNumbers, ConstantsAssumption
<1> QED BY SMTT(40), <1>4, <1>5, <1>6, <1>7, <1>8, <1>9, SlotsStepIsGood

\* tb_requests_cancel
LEMMA CancelStep ==
  ASSUME ConstantsAssumption, IInv, NEW s \in SequenceNumbers, tb_requests_cancel(s)
  PROVE  StepGood
<1>1. PICK i \in find(slots, s) :
        slots' = [slots EXCEPT ![i] = Free] /\ timer' = arm(slots') /\ heard' = [heard EXCEPT ![s] = Closed]
  BY Zenon DEF tb_requests_cancel
<1>2. i \in Active(slots) /\ slots[i].sequence = s
  BY DEF find
<1>3. SlotsStep
  BY Zenon, <1>1, <1>2, SlotIsFreed
<1>4. UNCHANGED <<next_sequence, outbox, rest, calling>>
  BY DEF tb_requests_cancel
<1> QED BY <1>3, <1>4, SlotsStepIsGood DEF IInv, Typed

\* inbox_received and tb_requests_chunk
LEMMA ChunkStep ==
  ASSUME ConstantsAssumption, IInv, tb_requests_chunk
  PROVE  StepGood
<1> DEFINE c == Head(air)
           ends(i) == c.index >= c.total \/ c.index # slots[i].next_chunk \/ c.index + 1 = c.total
           taken == {i \in find(slots, c.sequence) : ~ends(i)}
<1>0. /\ UNCHANGED <<next_sequence, outbox, rest>>
      /\ next_sequence \in 0..MaxSequence /\ outbox \in SequenceNumbers \cup {Off}
      /\ rest \in Off..(Slots + 1) /\ calling \in BOOLEAN /\ timer \in Nat \cup {Off}
      /\ slots \in [Index -> Slot]
  BY DEF tb_requests_chunk, IInv, Typed
<1>1. CASE UNCHANGED <<slots, timer, calling, heard>>
  BY SMTT(40), <1>0, <1>1, SlotsKeptIsGood DEF IInv, Covered
<1>2. ASSUME NEW i \in find(slots, c.sequence) \ taken, complete(i) PROVE StepGood
  <2>1. i \in Active(slots)
    BY DEF find
  <2>2. SlotsStep /\ calling' \in BOOLEAN
    BY <1>2, <2>1, CompleteFacts
  <2> QED BY SMTT(40), <1>0, <2>2, SlotsStepIsGood
<1>3. ASSUME NEW i \in taken,
             slots' = [slots EXCEPT ![i].next_chunk = @ + 1, ![i].left = slots[i].timeout],
             timer' = arm(slots'), heard' = [heard EXCEPT ![c.sequence] = c.index + 1],
             calling' = slots[i].owned
      PROVE  StepGood
  <2> DEFINE x == [slots[i] EXCEPT !.next_chunk = @ + 1, !.left = slots[i].timeout]
  <2>1. /\ i \in Active(slots) /\ i \in Index /\ slots[i].sequence = c.sequence
        /\ c.index = slots[i].next_chunk
    BY SMTT(40) DEF find, Active
  <2>2. slots[i] \in Slot /\ SlotGood(slots[i]) /\ slots[i].active
    BY SMTT(40), <1>0, <2>1 DEF IInv, Active
  <2>3. /\ x \in Slot /\ x.active /\ x.sequence = slots[i].sequence /\ x.next_chunk = slots[i].next_chunk + 1
        /\ x.attempts = slots[i].attempts /\ x.max = slots[i].max /\ x.timeout = slots[i].timeout
        /\ x.queued = slots[i].queued /\ x.waited = slots[i].waited /\ x.left = slots[i].timeout
    <3>1. PICK y : y = slots[i]
      OBVIOUS
    <3>2. y \in Slot /\ y.next_chunk \in Nat /\ y.timeout \in Nat /\ y.active
      BY SMTT(40), <2>2, <3>1 DEF Slot
    <3>n. PICK n \in Nat : n = y.next_chunk + 1
      BY <3>2
    <3>3. x = [y EXCEPT !.next_chunk = n, !.left = y.timeout]
      BY <3>1, <3>n
    <3> HIDE DEF x
    <3>4. x \in Slot
      BY Zenon, <3>2, <3>3 DEF Slot
    <3>5. x.active /\ x.sequence = y.sequence /\ x.next_chunk = y.next_chunk + 1 /\ x.left = y.timeout
      BY SMTT(40), <3>2, <3>n, <3>3 DEF Slot
    <3>6. /\ x.attempts = y.attempts /\ x.max = y.max /\ x.timeout = y.timeout
          /\ x.queued = y.queued /\ x.waited = y.waited
      BY <3>2, <3>3 DEF Slot
    <3> QED BY SMTT(40), <3>1, <3>4, <3>5, <3>6
  <2>4. slots' = [slots EXCEPT ![i] = x]
    BY Zenon, <1>0, <1>3, <2>1
  <2> HIDE DEF x
  <2>5. SlotGood(x)
    BY SMTT(40), <2>2, <2>3 DEF SlotGood, Slot
  <2>6. TimeLeft(x) <= TimeLeft(slots[i]) + slots[i].timeout
    BY <2>2, <2>3, ChunkProlongs
  <2>7. heard' = [heard EXCEPT ![x.sequence] = x.next_chunk]
    BY Zenon, <1>3, <2>1, <2>3
  <2>8. SlotsStep
    BY Zenon, <1>3, <2>1, <2>3, <2>4, <2>5, <2>6, <2>7, SlotGoesOn
  <2>9. calling' \in BOOLEAN
    BY <1>3, <2>2 DEF Slot
  <2> QED BY <1>0, <2>8, <2>9, SlotsStepIsGood
<1> QED BY Zenon, <1>1, <1>2, <1>3 DEF tb_requests_chunk

\* tb_requests_outbox_ready
LEMMA OutboxReadyStep ==
  ASSUME ConstantsAssumption, IInv, tb_requests_outbox_ready
  PROVE  StepGood
<1> DEFINE waiting == {i \in Active(slots) : slots[i].queued}
<1>0. /\ next_sequence' = next_sequence /\ rest' = Off /\ rest = Ready
      /\ next_sequence \in 0..MaxSequence /\ outbox \in SequenceNumbers \cup {Off}
      /\ calling \in BOOLEAN /\ timer \in Nat \cup {Off} /\ Slots \in Nat
  BY DEF tb_requests_outbox_ready, IInv, Typed, ConstantsAssumption
<1>1. rest' \in Off..(Slots + 1)
  BY <1>0 DEF Off
<1>2. CASE waiting = {}
  <2>1. UNCHANGED <<slots, timer, outbox, calling, heard>>
    BY <1>2 DEF tb_requests_outbox_ready
  <2>2. Covers(timer', slots)
    BY SMTT(40), <1>0, <2>1 DEF IInv, Covered, Ready
  <2> QED BY SMTT(40), <1>0, <1>1, <2>1, <2>2, SlotsKeptIsGood
<1>3. CASE waiting # {}
  <2>1. PICK i : i = Min(waiting)
    BY Zenon
  <2>2. i \in Active(slots)
    <3>1. waiting \in SUBSET Index
      BY DEF Active
    <3> QED BY <1>3, <2>1, <3>1, FirstOf
  <2>3. Retry(i, slots[i], outbox)
    BY SMTT(40), <1>3, <2>1 DEF tb_requests_outbox_ready
  <2>4. SlotsStep /\ calling' \in BOOLEAN /\ outbox' \in SequenceNumbers \cup {Off}
    BY SMTT(40), <1>0, <2>2, <2>3, RetryFacts
  <2> QED BY <1>0, <1>1, <2>4, SlotsStepIsGood
<1> QED BY <1>2, <1>3

\* outbox_sent
LEMMA OutboxSentStep ==
  ASSUME ConstantsAssumption, IInv, outbox_sent
  PROVE  StepGood
<1>1. /\ UNCHANGED <<slots, next_sequence, timer, calling, heard>> /\ outbox' = Off /\ rest' = Ready
      /\ rest = Off
  BY DEF outbox_sent, Idle
<1>2. /\ next_sequence \in 0..MaxSequence /\ calling \in BOOLEAN /\ timer \in Nat \cup {Off}
      /\ Slots \in Nat /\ Off <= Ready /\ Ready \in Off..(Slots + 1)
  BY DEF IInv, Typed, ConstantsAssumption, Off, Ready
<1>3. Covers(timer', slots)
  BY SMTT(40), <1>1, <1>2 DEF IInv, Covered
<1> QED BY SMTT(40), <1>1, <1>2, <1>3, SlotsKeptIsGood

\* outbox_failed
LEMMA OutboxFailedStep ==
  ASSUME ConstantsAssumption, IInv, outbox_failed
  PROVE  StepGood
<1> DEFINE failed == {i \in find(slots, outbox) : slots[i].next_chunk = 0}
<1>1. next_sequence' = next_sequence /\ rest' = Ready /\ rest = Off
  BY DEF outbox_failed, Idle
<1>2. /\ next_sequence \in 0..MaxSequence /\ calling \in BOOLEAN /\ timer \in Nat \cup {Off}
      /\ Slots \in Nat /\ Off <= Ready /\ Ready \in Off..(Slots + 1)
  BY DEF IInv, Typed, ConstantsAssumption, Off, Ready
<1>3. CASE failed = {}
  <2>1. outbox' = Off /\ UNCHANGED <<slots, timer, calling, heard>>
    BY <1>3 DEF outbox_failed
  <2>2. Covers(timer', slots)
    BY <1>1, <1>2, <2>1 DEF IInv, Covered
  <2> QED BY SMTT(40), <1>1, <1>2, <2>1, <2>2, SlotsKeptIsGood
<1>4. CASE failed # {}
  <2>1. PICK i \in failed : Retry(i, slots[i], Off)
    BY <1>4 DEF outbox_failed
  <2>2. i \in Active(slots)
    BY DEF find
  <2>3. SlotsStep /\ calling' \in BOOLEAN /\ outbox' \in SequenceNumbers \cup {Off}
    BY SMTT(40), <2>1, <2>2, RetryFacts
  <2> QED BY SMTT(40), <1>1, <1>2, <2>3, SlotsStepIsGood
<1> QED BY SMTT(40), <1>3, <1>4

\* request_timer_fired
LEMMA TimerFiredStep ==
  ASSUME ConstantsAssumption, IInv, timer_fired
  PROVE  StepGood
<1>1. UNCHANGED <<slots, next_sequence, outbox, calling, heard>> /\ timer' = Off /\ rest' = 1
  BY DEF timer_fired
<1>2. /\ next_sequence \in 0..MaxSequence /\ calling \in BOOLEAN /\ outbox \in SequenceNumbers \cup {Off}
      /\ 1 \in Off..(Slots + 1) /\ ~(1 <= Ready)
  BY DEF IInv, Typed, ConstantsAssumption, Off, Ready
<1> QED BY SMTT(40), <1>1, <1>2, SlotsKeptIsGood

\* tb_requests_tick
LEMMA TickStep ==
  ASSUME ConstantsAssumption, IInv, tb_requests_tick
  PROVE  StepGood
<1> DEFINE due == {i \in Active(slots) : i >= rest /\ slots[i].left = 0}
<1>1. next_sequence' = next_sequence
  BY DEF tb_requests_tick
<1>2. /\ next_sequence \in 0..MaxSequence /\ calling \in BOOLEAN /\ outbox \in SequenceNumbers \cup {Off}
      /\ Slots \in Nat /\ slots \in [Index -> Slot]
  BY DEF IInv, Typed, ConstantsAssumption
<1>3. CASE due = {}
  <2>1. rest' = Off /\ timer' = arm(slots) /\ UNCHANGED <<slots, outbox, calling, heard>>
    BY SMTT(40), <1>3 DEF tb_requests_tick
  <2>2. timer' \in Nat \cup {Off} /\ Covers(timer', slots)
    BY <1>2, <2>1, ArmCovers
  <2>3. rest' \in Off..(Slots + 1)
    BY SMTT(40), <1>2, <2>1 DEF Off
  <2> QED BY SMTT(40), <1>1, <1>2, <2>1, <2>2, <2>3, SlotsKeptIsGood
<1>4. CASE due # {}
  <2>1. PICK i : i = Min(due)
    OBVIOUS
  <2>2. i \in Active(slots)
    <3>1. due \in SUBSET Index
      BY SMTT(40) DEF Active
    <3> QED BY SMTT(40), <1>4, <2>1, <3>1, FirstOf
  <2>3. /\ rest' = i + 1
        /\ Retry(i, slots[i], outbox) \/ (complete(i) /\ outbox' = outbox)
    BY SMTT(40), <1>4, <2>1 DEF tb_requests_tick
  <2>4. rest' \in Off..(Slots + 1)
    BY SMTT(40), <1>2, <2>2, <2>3 DEF Active, Index, Off
  <2>5. SlotsStep /\ calling' \in BOOLEAN /\ outbox' \in SequenceNumbers \cup {Off}
    BY SMTT(40), <1>2, <2>2, <2>3, RetryFacts, CompleteFacts
  <2> QED BY SMTT(40), <1>1, <1>2, <2>4, <2>5, SlotsStepIsGood
<1> QED BY SMTT(40), <1>3, <1>4

\* The steps of the controllers and of the transport that leave the slots alone.
LEMMA QuietStep ==
  ASSUME ConstantsAssumption, IInv,
         CallbackReturns \/ (\E s \in SequenceNumbers : AnswerLost(s)) \/ UNCHANGED vars
  PROVE  StepGood
<1>1. UNCHANGED <<slots, next_sequence, timer, outbox, rest, heard>> /\ calling' \in {calling, FALSE}
  BY Zenon DEF CallbackReturns, AnswerLost, vars
<1>2. /\ next_sequence \in 0..MaxSequence /\ calling \in BOOLEAN /\ outbox \in SequenceNumbers \cup {Off}
      /\ timer \in Nat \cup {Off} /\ rest \in Off..(Slots + 1)
  BY DEF IInv, Typed
<1>3. rest' <= Ready => Covers(timer', slots)
  BY <1>1 DEF IInv, Covered
<1> QED BY Zenon, <1>1, <1>2, <1>3, SlotsKeptIsGood

\* One slot when the clock goes on.
LEMMA ClockSlot ==
  ASSUME ConstantsAssumption, NEW slot \in Slot, SlotGood(slot), slot.left > 0, NEW x,
         x = [slot EXCEPT !.left = @ - 1, !.waited = IF slot.queued THEN @ + 1 ELSE @]
  PROVE  /\ x \in Slot /\ SlotGood(x) /\ x.active = slot.active
         /\ x.sequence = slot.sequence /\ x.next_chunk = slot.next_chunk /\ x.left = slot.left - 1
         /\ TimeLeft(x) + 1 <= TimeLeft(slot)
<1>0. slot.left \in Nat /\ slot.waited \in Nat /\ slot.queued \in BOOLEAN
  BY DEF Slot
<1>1. PICK l \in Nat : l = slot.left - 1
  BY <1>0
<1>2. PICK w \in Nat : w = IF slot.queued THEN slot.waited + 1 ELSE slot.waited
  BY <1>0
<1>3. x = [slot EXCEPT !.left = l, !.waited = w]
  BY <1>1, <1>2
<1>4. x \in Slot
  BY ONLY Zenon, slot \in Slot, l \in Nat, w \in Nat, <1>3 DEF Slot
<1>5. x.active = slot.active /\ x.sequence = slot.sequence /\ x.next_chunk = slot.next_chunk
  BY ONLY slot \in Slot, <1>3 DEF Slot
<1>6. x.attempts = slot.attempts /\ x.max = slot.max /\ x.timeout = slot.timeout /\ x.queued = slot.queued
  BY ONLY slot \in Slot, <1>3 DEF Slot
<1>7. x.waited = w /\ x.left = l
  BY ONLY SMTT(40), slot \in Slot, <1>3 DEF Slot
<1>8. SlotGood(x)
  <2>1. w + l <= slot.waited + slot.left /\ (~slot.queued => w = slot.waited)
    BY <1>0, <1>1, <1>2
  <2> QED BY SMTT(40), <1>0, <1>2, <1>5, <1>6, <1>7, <2>1 DEF SlotGood, Slot, ConstantsAssumption
<1>9. TimeLeft(x) + 1 <= TimeLeft(slot)
  BY Zenon, <1>1, <1>2, <1>4, <1>6, <1>7, ClockUses
<1> QED BY SMTT(40), <1>1, <1>4, <1>5, <1>7, <1>8, <1>9

\* The clock uses up the time every request has.
LEMMA ClockStep ==
  ASSUME ConstantsAssumption, IInv, ClockTicks
  PROVE  /\ IInv' /\ heard' = heard
         /\ \A i \in Index :
              slots[i].active /\ slots'[i].active =>
                /\ TimeLeft(slots'[i]) >= 0
                /\ TimeLeft(slots'[i]) + 1
                     <= TimeLeft(slots[i]) + (slots'[i].next_chunk - slots[i].next_chunk) * slots[i].timeout
<1>1. /\ UNCHANGED <<next_sequence, outbox, rest, calling, heard>> /\ timer' = timer - 1 /\ timer > 0
      /\ rest = Off
  BY Zenon DEF ClockTicks, Idle
<1>2. slots \in [Index -> Slot] /\ timer \in Nat /\ \A i \in Index : SlotGood(slots[i])
  BY <1>1 DEF IInv, Typed, Off
<1>3. Covers(timer, slots)
  BY <1>1 DEF IInv, Covered, Off, Ready
<1>4. \A i \in Active(slots) : slots[i].left > 0
  <2> SUFFICES ASSUME NEW i \in Active(slots) PROVE slots[i].left > 0
    OBVIOUS
  <2>1. timer <= slots[i].left /\ slots[i].left \in Nat
    BY SMTT(30), <1>2, <1>3 DEF Covers, Active, Slot
  <2> QED BY SMTT(40), <1>1, <1>2, <2>1
<1>5. \A i \in Index :
        IF slots[i].active
        THEN slots'[i] = [slots[i] EXCEPT !.left = @ - 1, !.waited = IF slots[i].queued THEN @ + 1 ELSE @]
        ELSE slots'[i] = slots[i]
  BY Zenon DEF ClockTicks
<1>6. \A i \in Index :
        /\ slots'[i] \in Slot /\ SlotGood(slots'[i]) /\ slots'[i].active = slots[i].active
        /\ slots'[i].sequence = slots[i].sequence /\ slots'[i].next_chunk = slots[i].next_chunk
        /\ slots[i].active => /\ slots'[i].left = slots[i].left - 1
                              /\ TimeLeft(slots'[i]) + 1 <= TimeLeft(slots[i])
  <2> SUFFICES ASSUME NEW i \in Index
               PROVE  /\ slots'[i] \in Slot /\ SlotGood(slots'[i]) /\ slots'[i].active = slots[i].active
                      /\ slots'[i].sequence = slots[i].sequence /\ slots'[i].next_chunk = slots[i].next_chunk
                      /\ slots[i].active => /\ slots'[i].left = slots[i].left - 1
                                            /\ TimeLeft(slots'[i]) + 1 <= TimeLeft(slots[i])
    BY SMTT(30)
  <2>1. CASE ~slots[i].active
    BY ZenonT(30), <1>2, <1>5, <2>1
  <2>2. CASE slots[i].active
    <3>1. slots[i] \in Slot /\ SlotGood(slots[i]) /\ slots[i].left > 0
      BY SMTT(30), <1>2, <1>4, <2>2 DEF Active
    <3>2. slots'[i] = [slots[i] EXCEPT !.left = @ - 1, !.waited = IF slots[i].queued THEN @ + 1 ELSE @]
      BY Zenon, <1>5, <2>2
    <3> QED BY Zenon, <3>1, <3>2, ClockSlot
  <2> QED BY SMTT(40), <2>1, <2>2
<1>7. slots' \in [Index -> Slot]
  <2>1. slots' = [i \in Index |-> slots'[i]]
    BY Zenon DEF ClockTicks
  <2> QED BY SMTT(30), <1>6, <2>1
<1>8. Active(slots') = Active(slots) /\ \A s \in SequenceNumbers : find(slots', s) = find(slots, s)
  BY <1>6 DEF Active, find
<1>9. Typed'
  BY SMTT(30), <1>1, <1>2, <1>7 DEF IInv, Typed
<1>10. Served'
  BY <1>1, <1>6, <1>8 DEF IInv, Served, Active
<1>11. Covered'
  <2>1. timer' # Off /\ timer # Off
    BY SMTT(40), <1>1, <1>2 DEF Off
  <2>2. \A i \in Active(slots) : timer' <= slots'[i].left
    <3> SUFFICES ASSUME NEW i \in Active(slots) PROVE timer' <= slots'[i].left
      OBVIOUS
    <3>1. i \in Index /\ slots[i].active /\ slots[i].left \in Nat
      BY SMTT(40), <1>2 DEF Active, Slot
    <3>2. slots'[i].left = slots[i].left - 1
      BY SMTT(40), <1>6, <3>1
    <3>3. timer <= slots[i].left
      BY SMTT(40), <1>3 DEF Covers
    <3> QED BY SMTT(40), <1>1, <1>2, <3>1, <3>2, <3>3
  <2> QED BY SMTT(40), <1>3, <1>8, <2>1, <2>2 DEF Covered, Covers
<1>12. ASSUME NEW i \in Index, slots[i].active
       PROVE  /\ TimeLeft(slots'[i]) >= 0
              /\ TimeLeft(slots'[i]) + 1
                   <= TimeLeft(slots[i]) + (slots'[i].next_chunk - slots[i].next_chunk) * slots[i].timeout
  <2>1. TimeLeft(slots'[i]) >= 0 /\ TimeLeft(slots[i]) \in Int /\ TimeLeft(slots'[i]) + 1 <= TimeLeft(slots[i])
    BY SMTT(40), <1>2, <1>6, <1>12, TimeLeftFacts
  <2>2. slots[i].next_chunk \in Nat /\ slots[i].timeout \in Nat /\ slots'[i].next_chunk = slots[i].next_chunk
    BY <1>2, <1>6 DEF Slot
  <2>3. (slots'[i].next_chunk - slots[i].next_chunk) * slots[i].timeout = 0
    BY <2>2
  <2> QED BY SMTT(40), <2>1, <2>3
<1> QED BY SMTT(40), <1>1, <1>6, <1>9, <1>10, <1>11, <1>12 DEF IInv

\* Every step but the clock's.
LEMMA NextStep ==
  ASSUME ConstantsAssumption, IInv, [Next]_vars, ~ClockTicks
  PROVE  StepGood
<1>1. ASSUME NEW k \in Kinds, tb_requests_submit(k) PROVE StepGood
  BY <1>1, SubmitStep
<1>2. ASSUME NEW s \in SequenceNumbers, tb_requests_cancel(s) PROVE StepGood
  BY <1>2, CancelStep
<1>3. ASSUME NEW s \in SequenceNumbers, AnswerLost(s) PROVE StepGood
  BY <1>3, QuietStep
<1>4. CASE CallbackReturns
  BY <1>4, QuietStep
<1>5. CASE UNCHANGED vars
  BY <1>5, QuietStep
<1>6. CASE tb_requests_chunk
  BY <1>6, ChunkStep
<1>7. CASE tb_requests_outbox_ready
  BY SMTT(40), <1>7, OutboxReadyStep
<1>8. CASE outbox_sent
  BY <1>8, OutboxSentStep
<1>9. CASE outbox_failed
  BY <1>9, OutboxFailedStep
<1>10. CASE timer_fired
  BY <1>10, TimerFiredStep
<1>11. CASE tb_requests_tick
  BY <1>11, TickStep
<1> QED BY SMTT(40), <1>1, <1>2, <1>3, <1>4, <1>5, <1>6, <1>7, <1>8, <1>9, <1>10, <1>11 DEF Next

\* The watch starts with empty slots.
LEMMA InitFacts ==
  ASSUME ConstantsAssumption, tb_requests_init
  PROVE  IInv /\ Contract!Init
<1>1. \A i \in Index : slots[i] = Free
  BY DEF tb_requests_init
<1>2. Typed
  <2>1. slots \in [Index -> Slot]
    BY FreeFacts DEF tb_requests_init
  <2>2. heard \in [SequenceNumbers -> Nat \cup {Closed}]
    BY DEF tb_requests_init
  <2>3. next_sequence \in 0..MaxSequence /\ rest \in Off..(Slots + 1)
    BY DEF tb_requests_init, ConstantsAssumption, Off
  <2> QED BY Zenon, <2>1, <2>2, <2>3 DEF tb_requests_init, Typed
<1>3. Active(slots) = {}
  BY SMTT(40), <1>1, FreeFacts DEF Active
<1>4. Served
  BY <1>3 DEF Served, tb_requests_init
<1>5. Covered
  BY <1>3 DEF Covered, Covers, tb_requests_init
<1>6. Contract!Init
  BY DEF tb_requests_init, Contract!Init, Contract!Closed, Closed
<1> QED BY SMTT(40), <1>1, <1>2, <1>4, <1>5, <1>6, FreeFacts DEF IInv

\* The inductive invariant implies the one the runs check.
LEMMA SoundSlots ==
  ASSUME ConstantsAssumption, IInv
  PROVE  SlotsSound
<1>0. slots \in [Index -> Slot] /\ heard \in [SequenceNumbers -> Nat \cup {Closed}] /\ Closed \notin Nat
  BY SMTT(40) DEF IInv, Typed, Closed
<1>1. TypeOK
  <2>1. ASSUME NEW i \in Index
        PROVE  /\ slots[i].active \in BOOLEAN /\ slots[i].queued \in BOOLEAN
               /\ slots[i].left \in Nat /\ slots[i].waited \in Nat
               /\ slots[i].attempts \in 0..slots[i].max /\ slots[i].sequence \in 0..MaxSequence
    <3>1. slots[i] \in Slot /\ SlotGood(slots[i])
      BY SMTT(40), <1>0 DEF IInv
    <3>2. slots[i].attempts \in Nat /\ slots[i].max \in Nat /\ slots[i].attempts <= slots[i].max
      BY SMTT(40), <3>1 DEF Slot, SlotGood
    <3> QED BY <3>1, <3>2 DEF Slot
  <2> QED BY SMTT(40), <2>1 DEF TypeOK, IInv, Typed
<1>2. WaitingHasSlot
  <2> SUFFICES ASSUME NEW s \in SequenceNumbers
               PROVE  /\ (heard[s] # Closed) <=> find(slots, s) # {}
                      /\ Cardinality(find(slots, s)) <= 1
                      /\ \A i \in find(slots, s) : slots[i].next_chunk = heard[s]
    BY SMTT(40) DEF WaitingHasSlot
  <2>1. \A i \in find(slots, s) : /\ i \in Active(slots) /\ slots[i].sequence = s
                                  /\ slots[i].next_chunk = heard[s] /\ slots[i].next_chunk \in Nat
    BY <1>0 DEF find, Active, Slot, IInv, Served
  <2>2. (heard[s] # Closed) <=> find(slots, s) # {}
    BY <1>0, <2>1 DEF IInv, Served
  <2>3. Cardinality(find(slots, s)) <= 1
    <3>1. CASE find(slots, s) = {}
      BY <3>1, FS_EmptySet
    <3>2. CASE find(slots, s) # {}
      <4>1. PICK i \in find(slots, s) : TRUE
        BY SMTT(40), <3>2
      <4>2. find(slots, s) = {i}
        BY SMTT(40), <2>1, <4>1 DEF IInv, Served
      <4> QED BY SMTT(40), <4>2, FS_Singleton
    <3> QED BY <3>1, <3>2
  <2> QED BY SMTT(40), <2>1, <2>2, <2>3
<1>3. TimerCoversDeadlines
  BY DEF TimerCoversDeadlines, Idle, IInv, Covered, Covers, Off, Ready
<1>4. QueueBounded
  <2> SUFFICES ASSUME NEW i \in Active(slots), slots[i].next_chunk = 0
               PROVE  slots[i].waited <= slots[i].timeout + QueueRetry
    BY DEF QueueBounded
  <2>1. slots[i] \in Slot /\ SlotGood(slots[i])
    BY SMTT(40), <1>0 DEF IInv, Active
  <2>2. slots[i].waited \in Nat /\ slots[i].left \in Nat /\ slots[i].timeout \in Nat /\ QueueRetry \in Nat
    BY SMTT(40), <2>1 DEF Slot, ConstantsAssumption
  <2>3. CASE slots[i].queued
    BY SMTT(40), <2>1, <2>2, <2>3 DEF SlotGood
  <2>4. CASE ~slots[i].queued
    BY <2>1, <2>2, <2>4 DEF SlotGood
  <2> QED BY <2>3, <2>4
<1> QED BY SMTT(40), <1>1, <1>2, <1>3, <1>4 DEF SlotsSound

-----------------------------------------------------------------------------
(***************************************************************************)
(* The theorems.                                                           *)
(***************************************************************************)
\* Every step keeps the inductive invariant.
LEMMA Inductive ==
  ASSUME ConstantsAssumption, IInv, [Next]_vars
  PROVE  IInv' /\ [Contract!Next]_heard /\ OnlyChunksProlong
<1>1. CASE ClockTicks
  BY <1>1, ClockStep DEF OnlyChunksProlong
<1>2. CASE ~ClockTicks
  <2>1. IInv' /\ [Contract!Next]_heard /\ NotLonger
    BY <1>2, NextStep DEF StepGood
  <2>2. \A i \in Index : slots'[i] \in Slot /\ SlotGood(slots'[i])
    BY <2>1 DEF IInv, Typed
  <2>3. \A i \in Index : TimeLeft(slots'[i]) \in Int
    BY <2>2, TimeLeftFacts
  <2>4. \A i \in Index : TimeLeft(slots'[i]) + (IF ClockTicks THEN 1 ELSE 0) = TimeLeft(slots'[i])
    BY SMTT(40), <1>2, <2>3
  <2>5. OnlyChunksProlong
    BY <2>1, <2>4 DEF NotLonger, OnlyChunksProlong
  <2> QED BY <2>1, <2>5
<1> QED BY SMTT(40), <1>1, <1>2

\* request_layer.c keeps its slots sound for any number of slots: every
\* controller that waits is served by exactly one slot that expects the next
\* chunk, the timer covers every deadline whenever the event loop is free, and
\* no request waits for the outbox beyond its timeout and one retry.
THEOREM SlotsStaySound ==
  ASSUME ConstantsAssumption
  PROVE  Spec => []SlotsSound
<1>1. tb_requests_init => IInv
  BY InitFacts
<1>2. IInv /\ [Next]_vars => IInv'
  BY Inductive
<1>3. IInv => SlotsSound
  BY SoundSlots
<1> QED BY <1>1, <1>2, <1>3, PTL DEF Spec

\* Whatever is lost, late or cancelled, a controller hears the chunks of its
\* request in order, then its end once, and nothing afterwards.
THEOREM ImplementsContract ==
  ASSUME ConstantsAssumption
  PROVE  Spec => LayerKeepsContract
<1>1. tb_requests_init => IInv /\ Contract!Init
  BY InitFacts
<1>2. IInv /\ [Next]_vars => IInv' /\ [Contract!Next]_heard
  BY Inductive
<1> QED BY <1>1, <1>2, PTL DEF Spec, LayerKeepsContract, Contract!Spec

\* Every accepted request ends: the clock uses up the time it can still take,
\* whatever attempt() and its retries do, and only a chunk of its answer gives
\* it more, one timeout each.
THEOREM RequestsEndInTime ==
  ASSUME ConstantsAssumption
  PROVE  Spec => EndsInTime
<1>1. tb_requests_init => IInv
  BY InitFacts
<1>2. IInv /\ [Next]_vars => IInv' /\ [OnlyChunksProlong]_vars
  BY Inductive
<1> QED BY <1>1, <1>2, PTL DEF Spec, EndsInTime
=============================================================================
