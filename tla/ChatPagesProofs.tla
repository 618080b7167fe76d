--------------------------- MODULE ChatPagesProofs ---------------------------
(***************************************************************************)
(* Proofs about ChatPages, for any chats and orders, page limit and number *)
(* of moves the log retains.                                               *)
(***************************************************************************)
EXTENDS ChatPages, SequenceTheorems, TLAPS

(***************************************************************************)
(* The inductive invariant.                                                *)
(***************************************************************************)
Boundary == [version : Nat, order : Orders, id : Ids \cup {0}, epoch : Nat]
Move == [version : Nat, order : Orders]

CallTyped ==
  \/ call = Idle
  \/ call \in [phase : {"check", "load", "ended", "collect"}, epoch : Nat, boundary : Boundary, loads : Nat]
  \/ call \in [phase : {"answer"}, epoch : Nat, boundary : Boundary, items : SUBSET Ids, next : Boundary]

\* The log keeps the last moves, numbered from its base.
LogGood(l) ==
  /\ l \in [version : Nat, base : Nat, entries : Seq(Move)]
  /\ l.base + Len(l.entries) = l.version /\ Len(l.entries) <= Retained
  /\ \A i \in 1..Len(l.entries) : l.entries[i].version = l.base + i

Typed ==
  /\ chats \in [Ids -> Orders] /\ unloaded \subseteq Ids /\ exhausted \in BOOLEAN
  /\ session \in [epoch : Nat, ready : BOOLEAN] /\ CallTyped
  /\ walk \in [shown : SUBSET Ids, cursor : Boundary]

\* A boundary is none, or a chat's place at a version of the log.
Known(b) == b = NoBoundary \/ (b.id # 0 /\ b.order # 0 /\ b.version <= log.version /\ b.epoch <= session.epoch)

\* A boundary the log does not reject in the present session.
Valid(b) == b # NoBoundary /\ b.epoch = session.epoch /\ ~disturbed(b)

\* What was shown is the list down to the cursor, while it is valid.
WalkExact ==
  /\ Known(walk.cursor)
  /\ walk.cursor = NoBoundary => walk.shown = {}
  /\ Valid(walk.cursor) => walk.shown = Through(walk.cursor)

\* A read goes on from the client's cursor, in the session that issued it.
CallFollows ==
  call.phase # "idle" =>
    /\ call.boundary = walk.cursor /\ call.epoch <= session.epoch
    /\ walk.cursor = NoBoundary \/ walk.cursor.epoch = call.epoch

\* A page that waits to be answered still continues what was shown, if neither
\* its boundary nor the one before is rejected.
AnswerExact ==
  (call.phase = "answer" /\ call.next # NoBoundary) =>
    /\ Known(call.next) /\ call.next.epoch = call.epoch
    /\ (call.boundary = NoBoundary \/ Valid(call.boundary)) /\ Valid(call.next)
         => walk.shown \cup call.items = Through(call.next)

\* Only a list that is loaded ends.
EndIsTrue ==
  /\ exhausted => unloaded = {}
  /\ call.phase = "ended" /\ call.epoch = session.epoch => unloaded = {}

IInv == Typed /\ LogGood(log) /\ WalkExact /\ CallFollows /\ AnswerExact /\ EndIsTrue

-----------------------------------------------------------------------------
(***************************************************************************)
(* The log.                                                                *)
(***************************************************************************)
\* What record() keeps of the log, and what it adds.
LEMMA RecordFacts ==
  ASSUME ConstantsAssumption, NEW l, LogGood(l), NEW o \in Orders
  PROVE  /\ LogGood(record(l, o)) /\ record(l, o).version = l.version + 1 /\ record(l, o).base >= l.base
         /\ \E i \in 1..Len(record(l, o).entries) :
              record(l, o).entries[i] = [version |-> l.version + 1, order |-> o]
         /\ \A i \in 1..Len(l.entries) :
              l.entries[i].version > record(l, o).base =>
                \E j \in 1..Len(record(l, o).entries) : record(l, o).entries[j] = l.entries[i]
<1> DEFINE e == [version |-> l.version + 1, order |-> o]
<1>n. /\ l.version \in Nat /\ l.base \in Nat /\ Len(l.entries) \in Nat
      /\ l.base + Len(l.entries) = l.version
      /\ Retained \in Nat /\ Retained > 0
  BY DEF LogGood, ConstantsAssumption
<1>0. /\ l.version \in Nat /\ l.base \in Nat /\ l.entries \in Seq(Move) /\ Len(l.entries) \in Nat
      /\ l.base + Len(l.entries) = l.version /\ Len(l.entries) <= Retained
      /\ \A i \in 1..Len(l.entries) : l.entries[i].version = l.base + i
      /\ Retained \in Nat /\ Retained > 0
  BY DEF LogGood, ConstantsAssumption
<1>1. e \in Move /\ e.version = l.version + 1
  BY <1>0 DEF Move
<1>2. PICK all : all = Append(l.entries, e)
  BY Zenon
<1>3. /\ all \in Seq(Move) /\ Len(all) = Len(l.entries) + 1 /\ all[Len(l.entries) + 1] = e
      /\ \A i \in 1..Len(l.entries) : all[i] = l.entries[i]
  BY <1>0, <1>1, <1>2
<1>4. PICK r : r = record(l, o)
  BY Zenon
<1>5. r = [version |-> l.version + 1,
           base |-> IF Len(all) > Retained THEN Head(all).version ELSE l.base,
           entries |-> IF Len(all) > Retained THEN Tail(all) ELSE all]
  BY Zenon, <1>2, <1>4 DEF record
<1>6. r.version = l.version + 1
  BY Zenon, <1>5
<1> HIDE DEF e
<1>7. CASE ~(Len(all) > Retained)
  <2>1. r.base = l.base /\ r.entries = all
    BY Zenon, <1>5, <1>7
  <2>2. r \in [version : Nat, base : Nat, entries : Seq(Move)]
    BY SMTT(40), <1>0, <1>3, <1>5, <1>7
  <2>3. \A i \in 1..Len(r.entries) : r.entries[i].version = r.base + i
    <3> SUFFICES ASSUME NEW i \in 1..(Len(l.entries) + 1) PROVE all[i].version = l.base + i
      BY Zenon, <1>3, <2>1
    <3>1. CASE i = Len(l.entries) + 1
      <4>1. all[i] = e
        BY Zenon, <1>3, <3>1
      <4>2. l.base + i = l.version + 1
        BY SMTT(40), <1>n, <3>1
      <4> QED BY Zenon, <1>1, <4>1, <4>2
    <3>2. CASE i # Len(l.entries) + 1
      <4>1. i \in 1..Len(l.entries)
        BY <1>0, <3>2
      <4> QED BY Zenon, <1>0, <1>3, <4>1
    <3> QED BY Zenon, <3>1, <3>2
  <2>4. LogGood(r)
    <3>1. /\ l.base + (Len(l.entries) + 1) = l.version + 1
          /\ ~(Len(l.entries) + 1 > Retained) => Len(l.entries) + 1 <= Retained
      BY <1>n
    <3> QED BY Zenon, <1>3, <1>6, <1>7, <2>1, <2>2, <2>3, <3>1 DEF LogGood
  <2>5. Len(l.entries) + 1 \in 1..Len(r.entries) /\ r.entries[Len(l.entries) + 1] = e
    BY <1>0, <1>3, <2>1
  <2>6. \A i \in 1..Len(l.entries) : i \in 1..Len(r.entries) /\ r.entries[i] = l.entries[i]
    BY <1>0, <1>3, <2>1
  <2> QED BY SMTT(40), <1>0, <1>4, <1>6, <2>1, <2>4, <2>5, <2>6 DEF e
<1>8. CASE Len(all) > Retained
  <2>a. Len(l.entries) + 1 > Retained /\ Len(l.entries) <= Retained
    BY Zenon, <1>0, <1>3, <1>8
  <2>1. Len(l.entries) = Retained /\ Len(all) > 0 /\ 1 \in 1..Len(l.entries)
    BY <1>n, <1>8, <2>a
  <2>2. Head(all) = all[1] /\ all[1] = l.entries[1] /\ l.entries[1].version = l.base + 1
    BY SMTT(40), <1>0, <1>3, <2>1
  <2>3. /\ Tail(all) \in Seq(Move) /\ Len(Tail(all)) = Len(l.entries)
        /\ \A i \in 1..Len(l.entries) : Tail(all)[i] = all[i + 1]
    BY <1>0, <1>3, <2>1
  <2>4. r.base = l.base + 1 /\ r.entries = Tail(all)
    BY Zenon, <1>5, <1>8, <2>2
  <2>5. r \in [version : Nat, base : Nat, entries : Seq(Move)]
    <3>1. r = [version |-> l.version + 1, base |-> l.base + 1, entries |-> Tail(all)]
      BY Zenon, <1>5, <1>8, <2>2
    <3> QED BY <1>0, <2>3, <3>1
  <2>6. \A i \in 1..Len(r.entries) : r.entries[i].version = r.base + i
    <3> SUFFICES ASSUME NEW i \in 1..Len(l.entries) PROVE Tail(all)[i].version = l.base + 1 + i
      BY Zenon, <2>3, <2>4
    <3>1. CASE i = Len(l.entries)
      <4>1. Tail(all)[i] = e
        BY Zenon, <1>3, <2>3, <3>1
      <4>2. l.base + 1 + i = l.version + 1
        BY <1>n, <3>1
      <4> QED BY Zenon, <1>1, <4>1, <4>2
    <3>2. CASE i # Len(l.entries)
      <4>1. i + 1 \in 1..Len(l.entries) /\ l.base + (i + 1) = l.base + 1 + i
        BY <1>n, <3>2
      <4>2. all[i + 1].version = l.base + (i + 1)
        BY Zenon, <1>0, <1>3, <4>1
      <4>3. Tail(all)[i] = all[i + 1]
        BY Zenon, <2>3
      <4> QED BY Zenon, <4>1, <4>2, <4>3
    <3> QED BY Zenon, <3>1, <3>2
  <2>7. LogGood(r)
    BY SMTT(40), <1>0, <1>6, <2>1, <2>3, <2>4, <2>5, <2>6 DEF LogGood
  <2>8. Len(l.entries) \in 1..Len(r.entries) /\ r.entries[Len(l.entries)] = e
    <3>1. Len(l.entries) \in 1..Len(l.entries)
      BY <1>n, <2>1
    <3> QED BY Zenon, <1>3, <2>3, <2>4, <3>1
  <2>9. ASSUME NEW i \in 1..Len(l.entries), l.entries[i].version > r.base
        PROVE  \E j \in 1..Len(r.entries) : r.entries[j] = l.entries[i]
    <3>1. i # 1
      <4>1. ~(l.base + 1 > l.base + 1)
        BY <1>n
      <4> QED BY Zenon, <2>2, <2>4, <2>9, <4>1
    <3>2. i - 1 \in 1..Len(r.entries)
      BY SMTT(40), <1>0, <2>3, <2>4, <3>1
    <3>3. r.entries[i - 1] = l.entries[i]
      BY SMTT(90), <1>0, <1>3, <2>3, <2>4, <3>1
    <3> QED BY Zenon, <3>2, <3>3
  <2>10. r.base >= l.base
    BY <1>n, <2>4
  <2> QED BY Zenon, <1>4, <1>6, <2>7, <2>8, <2>9, <2>10 DEF e
<1> QED BY Zenon, <1>7, <1>8

\* The higher of two orders is an order.
LEMMA LargerFacts ==
  ASSUME ConstantsAssumption, NEW a \in Orders, NEW b \in Orders
  PROVE  Larger(a, b) \in Orders /\ a <= Larger(a, b) /\ b <= Larger(a, b)
BY DEF ConstantsAssumption, Larger

\* A boundary that a move does not disturb has the same list above it, and was
\* not disturbed before.
LEMMA MoveKeeps ==
  ASSUME ConstantsAssumption, Typed, LogGood(log), NEW c \in Ids, NEW o \in Orders,
         chats' = [chats EXCEPT ![c] = o], log' = record_order_change(chats[c], o), session' = session,
         NEW b \in Boundary, Known(b)
  PROVE  /\ LogGood(log') /\ Known(b)'
         /\ Valid(b)' => Valid(b) /\ Through(b)' = Through(b)
<1>0. /\ chats \in [Ids -> Orders] /\ chats[c] \in Orders
      /\ chats'[c] = o /\ \A d \in Ids : d # c => chats'[d] = chats[d]
  BY Zenon DEF Typed
<1>1. CASE chats[c] = o
  <2>1. log' = log
    BY Zenon, <1>1 DEF record_order_change
  <2>2. \A d \in Ids : chats'[d] = chats[d]
    BY Zenon, <1>0, <1>1
  <2>3. Known(b)' /\ disturbed(b)' = disturbed(b)
    BY Zenon, <2>1 DEF Known, disturbed
  <2>4. Through(b)' = Through(b)
    BY Zenon, <2>2 DEF Through, Below, Listed
  <2> QED BY Zenon, <2>1, <2>3, <2>4 DEF Valid
<1>2. CASE chats[c] # o
  <2>1. PICK h \in Orders : h = Larger(chats[c], o) /\ chats[c] <= h /\ o <= h
    BY Zenon, <1>0, LargerFacts
  <2>2. log' = record(log, h)
    BY Zenon, <1>2, <2>1 DEF record_order_change
  <2>3. /\ LogGood(log') /\ log'.version = log.version + 1 /\ log'.base >= log.base
        /\ \E i \in 1..Len(log'.entries) : log'.entries[i] = [version |-> log.version + 1, order |-> h]
        /\ \A i \in 1..Len(log.entries) :
              log.entries[i].version > log'.base =>
                \E j \in 1..Len(log'.entries) : log'.entries[j] = log.entries[i]
    BY SMTT(40), <2>2, RecordFacts
  <2>n. /\ log.version \in Nat /\ log.base \in Nat /\ log'.base \in Nat
        /\ b.version \in Nat /\ b.order \in Nat /\ h \in Nat /\ chats[c] \in Nat /\ o \in Nat
    <3>1. log.version \in Nat /\ log.base \in Nat
      BY Zenon DEF LogGood
    <3>2. log'.base \in Nat
      BY Zenon, <2>3 DEF LogGood
    <3>3. b.version \in Nat /\ b.order \in Orders
      BY Zenon DEF Boundary
    <3> QED BY Zenon, <1>0, <3>1, <3>2, <3>3 DEF ConstantsAssumption
  <2>4. /\ DOMAIN log.entries = 1..Len(log.entries) /\ DOMAIN log'.entries = 1..Len(log'.entries)
        /\ \A i \in 1..Len(log.entries) : log.entries[i].version \in Nat
    <3>1. log.entries \in Seq(Move) /\ log'.entries \in Seq(Move)
      BY Zenon, <2>3 DEF LogGood
    <3>2. \A i \in 1..Len(log.entries) : log.entries[i] \in Move
      BY <3>1
    <3> QED BY SMTT(40), <3>1, <3>2 DEF Move
  <2>5. Known(b)'
    BY SMTT(40), <2>3, <2>n DEF Known
  <2>6. ASSUME Valid(b)' PROVE Valid(b) /\ Through(b)' = Through(b)
    <3>1. /\ b # NoBoundary /\ b.epoch = session.epoch /\ ~(b.version < log'.base)
          /\ \A i \in 1..Len(log'.entries) : ~(log'.entries[i].version > b.version /\ log'.entries[i].order >= b.order)
      BY Zenon, <2>4, <2>6 DEF Valid, disturbed
    <3>2. b.version <= log.version
      BY Zenon, <3>1 DEF Known
    <3>3. h < b.order
      <4>1. PICK i \in 1..Len(log'.entries) : log'.entries[i] = [version |-> log.version + 1, order |-> h]
        BY Zenon, <2>3
      <4>2. log'.entries[i].version = log.version + 1 /\ log'.entries[i].order = h
        BY <4>1
      <4>3. ~(log.version + 1 > b.version /\ h >= b.order)
        BY Zenon, <3>1, <4>2
      <4> QED BY SMTT(40), <2>n, <3>2, <4>3
    <3>4. ~(b.version < log.base)
      BY SMTT(40), <2>3, <2>n, <3>1
    <3>5. ASSUME NEW i \in 1..Len(log.entries), log.entries[i].version > b.version, log.entries[i].order >= b.order
          PROVE  FALSE
      <4>1. log.entries[i].version > log'.base
        <5>1. /\ log.entries[i].version \in Nat /\ log.entries[i].version > b.version
              /\ ~(b.version < log'.base)
          BY Zenon, <2>4, <3>1, <3>5
        <5> QED BY SMTT(40), <2>n, <5>1
      <4>2. PICK j \in 1..Len(log'.entries) : log'.entries[j] = log.entries[i]
        BY Zenon, <2>3, <4>1
      <4> QED BY Zenon, <3>1, <3>5, <4>2
    <3>6. ~disturbed(b)
      BY <2>4, <3>4, <3>5 DEF disturbed
    <3>7. before_boundary(chats[c], c, b) /\ before_boundary(o, c, b)
      BY <2>1, <2>n, <3>3 DEF before_boundary
    <3>8. c \notin Through(b) /\ c \notin Through(b)'
      BY Zenon, <1>0, <3>7 DEF Through, Below, Listed
    <3>9. \A d \in Ids : d # c => (d \in Through(b) <=> d \in Through(b)')
      BY Zenon, <1>0 DEF Through, Below, Listed
    <3>10. Through(b) \subseteq Ids /\ Through(b)' \subseteq Ids
      BY Zenon DEF Through, Listed
    <3>11. Through(b)' = Through(b)
      BY <3>8, <3>9, <3>10
    <3> QED BY Zenon, <3>1, <3>6, <3>11 DEF Valid
  <2> QED BY Zenon, <2>3, <2>5, <2>6
<1> QED BY Zenon, <1>1, <1>2

-----------------------------------------------------------------------------
(***************************************************************************)
(* The steps of TDLib and of the session.                                  *)
(***************************************************************************)
\* The boundaries a call holds are typed.
LEMMA CallBoundaries ==
  ASSUME IInv
  PROVE  /\ walk.cursor \in Boundary /\ walk.shown \subseteq Ids /\ Known(walk.cursor)
         /\ session.epoch \in Nat
         /\ call.phase # "idle" => call.boundary \in Boundary /\ call.epoch \in Nat
         /\ call.phase = "answer" => call.next \in Boundary /\ call.items \subseteq Ids
<1>1. walk.cursor \in Boundary /\ walk.shown \subseteq Ids /\ Known(walk.cursor) /\ session.epoch \in Nat
  BY Zenon DEF IInv, Typed, WalkExact
<1>2. call.phase # "idle" => call.boundary \in Boundary /\ call.epoch \in Nat
  BY DEF IInv, Typed, CallTyped, Idle
<1>3. call.phase = "answer" => call.next \in Boundary /\ call.items \subseteq Ids
  BY DEF IInv, Typed, CallTyped, Idle
<1> QED BY Zenon, <1>1, <1>2, <1>3

\* A chat moves, or is announced.
LEMMA MoveStep ==
  ASSUME ConstantsAssumption, IInv, NEW c \in Ids, NEW o \in Orders,
         chats' = [chats EXCEPT ![c] = o], log' = record_order_change(chats[c], o),
         unloaded' \subseteq unloaded, UNCHANGED <<exhausted, session, call, walk>>
  PROVE  IInv'
<1>1. Typed /\ LogGood(log) /\ session' = session /\ walk' = walk /\ call' = call
  BY Zenon DEF IInv
<1>2. PICK w : w = walk.cursor
  BY Zenon
<1>3. w \in Boundary /\ Known(w)
  BY Zenon, <1>2, CallBoundaries
<1>4. LogGood(log') /\ Known(w)' /\ (Valid(w)' => Valid(w) /\ Through(w)' = Through(w))
  BY Zenon, <1>1, <1>3, MoveKeeps
<1>5. Typed'
  <2>1. chats' \in [Ids -> Orders]
    BY Zenon, <1>1 DEF Typed
  <2>2. CallTyped'
    BY Zenon, <1>1 DEF Typed, CallTyped
  <2> QED BY Zenon, <1>1, <2>1, <2>2 DEF Typed
<1>6. WalkExact'
  BY Zenon, <1>1, <1>2, <1>4 DEF WalkExact, IInv
<1>7. CallFollows'
  BY <1>1 DEF CallFollows, IInv
<1>8. AnswerExact'
  <2> SUFFICES ASSUME call.phase = "answer", call.next # NoBoundary
               PROVE  /\ Known(call.next)' /\ call.next.epoch = call.epoch
                      /\ (call.boundary = NoBoundary \/ Valid(call.boundary)') /\ Valid(call.next)'
                           => walk.shown \cup call.items = Through(call.next)'
    BY Zenon, <1>1 DEF AnswerExact
  <2>1. PICK n : n = call.next
    BY Zenon
  <2>2. n \in Boundary /\ Known(n) /\ n.epoch = call.epoch
    BY <2>1, CallBoundaries DEF IInv, AnswerExact
  <2>3. Known(n)' /\ (Valid(n)' => Valid(n) /\ Through(n)' = Through(n))
    BY Zenon, <1>1, <2>2, MoveKeeps
  <2>4. call.boundary = w
    BY Zenon, <1>2 DEF IInv, CallFollows
  <2>5. (w = NoBoundary \/ Valid(w)) /\ Valid(n) => walk.shown \cup call.items = Through(n)
    BY Zenon, <2>1, <2>4 DEF IInv, AnswerExact
  <2>6. Known(call.next)' <=> Known(n)'
    BY <1>1, <2>1
  <2>7. (Valid(call.next)' <=> Valid(n)') /\ Through(call.next)' = Through(n)' /\ (Valid(call.boundary)' <=> Valid(w)')
    BY Zenon, <1>1, <2>1, <2>4
  <2> QED BY Zenon, <1>4, <2>1, <2>2, <2>3, <2>4, <2>5, <2>6, <2>7
<1>9. EndIsTrue'
  BY <1>1 DEF EndIsTrue, IInv
<1> QED BY Zenon, <1>4, <1>5, <1>6, <1>7, <1>8, <1>9 DEF IInv

\* The session is left: no boundary of it is valid any more.
LEMMA LeaveStep ==
  ASSUME ConstantsAssumption, IInv, leave_session
  PROVE  IInv'
<1>1. /\ walk' = walk /\ call' = call /\ exhausted' = FALSE /\ unloaded' = Ids /\ log' = reset(log)
      /\ chats' = [c \in Ids |-> 0] /\ session' = [epoch |-> session.epoch + 1, ready |-> FALSE]
  BY Zenon DEF leave_session
<1>2. session.epoch \in Nat /\ session'.epoch = session.epoch + 1 /\ session' \in [epoch : Nat, ready : BOOLEAN]
  BY <1>1 DEF IInv, Typed
<1>3. log.version \in Nat /\ log'.version = log.version + 1
  BY Zenon, <1>1 DEF IInv, LogGood, reset
<1>4. LogGood(log')
  <2>1. log' = [version |-> log.version + 1, base |-> log.version + 1, entries |-> <<>>]
    BY Zenon, <1>1 DEF reset
  <2>2. log' \in [version : Nat, base : Nat, entries : Seq(Move)]
    BY <1>3, <2>1
  <2>3. Retained \in Nat
    BY Zenon DEF ConstantsAssumption
  <2> QED BY <1>3, <2>1, <2>2, <2>3 DEF LogGood
<1>5. \A b \in Boundary : Known(b) => Known(b)' /\ ~Valid(b)'
  <2> SUFFICES ASSUME NEW b \in Boundary, Known(b) PROVE Known(b)' /\ ~Valid(b)'
    BY Zenon
  <2>1. b.version \in Nat /\ b.epoch \in Nat
    BY Zenon DEF Boundary
  <2>2. CASE b = NoBoundary
    BY Zenon, <2>2 DEF Known, Valid
  <2>3. CASE b # NoBoundary
    <3>1. b.version <= log.version /\ b.epoch <= session.epoch /\ b.id # 0 /\ b.order # 0
      BY Zenon, <2>3 DEF Known
    <3>2. b.version <= log'.version /\ b.epoch <= session'.epoch /\ b.epoch # session'.epoch
      BY <1>2, <1>3, <2>1, <3>1
    <3> QED BY Zenon, <3>1, <3>2 DEF Known, Valid
  <2> QED BY Zenon, <2>2, <2>3
<1>6. Typed'
  <2>1. chats' \in [Ids -> Orders]
    BY Zenon, <1>1 DEF ConstantsAssumption
  <2>2. CallTyped'
    BY Zenon, <1>1 DEF IInv, Typed, CallTyped
  <2> QED BY Zenon, <1>1, <1>2, <2>1, <2>2 DEF IInv, Typed
<1>7. WalkExact'
  BY Zenon, <1>1, <1>5, CallBoundaries DEF WalkExact, IInv
<1>8. CallFollows'
  BY <1>1, <1>2, CallBoundaries DEF CallFollows, IInv
<1>9. AnswerExact'
  BY Zenon, <1>1, <1>5, CallBoundaries DEF AnswerExact, IInv
<1>10. EndIsTrue'
  <2>1. call.phase = "ended" => call.epoch \in Nat /\ call.epoch <= session.epoch
    BY Zenon, CallBoundaries DEF IInv, CallFollows
  <2>2. call.phase = "ended" => call.epoch # session'.epoch
    BY <1>2, <2>1
  <2> QED BY Zenon, <1>1, <2>2 DEF EndIsTrue
<1> QED BY Zenon, <1>4, <1>6, <1>7, <1>8, <1>9, <1>10 DEF IInv

\* The session is entered again.
LEMMA EnterStep ==
  ASSUME IInv, enter_session
  PROVE  IInv'
<1>1. UNCHANGED <<chats, unloaded, log, exhausted, call, walk>> /\ session' = [session EXCEPT !.ready = TRUE]
  BY Zenon DEF enter_session
<1>2. session' \in [epoch : Nat, ready : BOOLEAN] /\ session'.epoch = session.epoch
  BY Zenon, <1>1 DEF IInv, Typed
<1>3. Typed' /\ LogGood(log')
  BY Zenon, <1>1, <1>2 DEF IInv, Typed, CallTyped
<1>4. \A b : Known(b)' = Known(b) /\ Valid(b)' = Valid(b) /\ Through(b)' = Through(b)
  BY <1>1, <1>2 DEF Known, Valid, disturbed, Through, Below, Listed
<1>5. WalkExact'
  BY Zenon, <1>1, <1>4 DEF WalkExact, IInv
<1>6. CallFollows'
  BY Zenon, <1>1, <1>2 DEF CallFollows, IInv
<1>7. AnswerExact'
  BY Zenon, <1>1, <1>4 DEF AnswerExact, IInv
<1>8. EndIsTrue'
  BY Zenon, <1>1, <1>2 DEF EndIsTrue, IInv
<1> QED BY Zenon, <1>3, <1>5, <1>6, <1>7, <1>8 DEF IInv

-----------------------------------------------------------------------------
(***************************************************************************)
(* The steps of the read.                                                  *)
(***************************************************************************)
\* What PageContinues says of a step.
PageStep ==
  (call.phase = "collect" /\ call'.phase = "answer") =>
     /\ walk.shown \cap call'.items = {}
     /\ walk.shown \cup call'.items = IF call'.next = NoBoundary THEN Listed ELSE Through(call'.next)

\* The client starts over.
LEMMA ResyncStep ==
  ASSUME ConstantsAssumption, IInv, Resync
  PROVE  IInv' /\ PageStep
<1>1. UNCHANGED <<chats, unloaded, log, exhausted, session>> /\ call' = Idle /\ walk' = Fresh
  BY Zenon DEF Resync
<1>2. NoBoundary \in Boundary
  BY Zenon DEF ConstantsAssumption, NoBoundary, Boundary
<1>3. Typed' /\ LogGood(log')
  BY Zenon, <1>1, <1>2 DEF IInv, Typed, CallTyped, Fresh
<1>4. call'.phase = "idle" /\ walk'.cursor = NoBoundary /\ walk'.shown = {}
  BY Zenon, <1>1 DEF Idle, Fresh
<1>5. WalkExact'
  BY Zenon, <1>4 DEF WalkExact, Known, Valid
<1>6. CallFollows' /\ AnswerExact' /\ EndIsTrue' /\ PageStep
  BY Zenon, <1>1, <1>4 DEF CallFollows, AnswerExact, EndIsTrue, PageStep, IInv
<1> QED BY Zenon, <1>3, <1>5, <1>6 DEF IInv

\* The read goes on to another phase before its page is collected.
LEMMA GoStep ==
  ASSUME ConstantsAssumption, IInv, NEW k, Go(k),
         k \in [phase : {"check", "load", "ended", "collect"}, epoch : Nat, boundary : Boundary, loads : Nat],
         k.boundary = walk.cursor, k.epoch <= session.epoch,
         walk.cursor = NoBoundary \/ walk.cursor.epoch = k.epoch,
         k.phase = "ended" => unloaded = {}
  PROVE  IInv' /\ PageStep
<1>1. UNCHANGED <<chats, unloaded, log, exhausted, session, walk>> /\ call' = k
  BY Zenon DEF Go
<1>2. Typed' /\ LogGood(log')
  BY Zenon, <1>1 DEF IInv, Typed, CallTyped
<1>3. \A b : Known(b)' = Known(b) /\ Valid(b)' = Valid(b) /\ Through(b)' = Through(b)
  BY Zenon, <1>1 DEF Known, Valid, disturbed, Through, Below, Listed
<1>4. WalkExact'
  BY Zenon, <1>1, <1>3 DEF WalkExact, IInv
<1>5. CallFollows'
  BY Zenon, <1>1 DEF CallFollows
<1>6. call'.phase # "answer"
  BY Zenon, <1>1
<1>7. AnswerExact' /\ PageStep
  BY Zenon, <1>6 DEF AnswerExact, PageStep
<1>8. EndIsTrue'
  BY Zenon, <1>1 DEF EndIsTrue, IInv
<1> QED BY Zenon, <1>2, <1>4, <1>5, <1>7, <1>8 DEF IInv

\* A call that has begun, before it has its page.
LEMMA CallUnderWay ==
  ASSUME IInv, call.phase \in {"check", "load", "ended", "collect"}
  PROVE  /\ call \in [phase : {"check", "load", "ended", "collect"}, epoch : Nat, boundary : Boundary, loads : Nat]
         /\ call.boundary = walk.cursor /\ call.epoch <= session.epoch
         /\ walk.cursor = NoBoundary \/ walk.cursor.epoch = call.epoch
<1>1. call \in [phase : {"check", "load", "ended", "collect"}, epoch : Nat, boundary : Boundary, loads : Nat]
  BY DEF IInv, Typed, CallTyped, Idle
<1> QED BY Zenon, <1>1 DEF IInv, CallFollows

\* The steps before the page is collected.
LEMMA BeginStep ==
  ASSUME ConstantsAssumption, IInv, chats_begin
  PROVE  IInv' /\ PageStep
<1>1. CASE Resync
  BY Zenon, <1>1, ResyncStep
<1>2. CASE ~Resync
  <2>1. PICK k : k = [phase |-> "check", epoch |-> session.epoch, boundary |-> walk.cursor, loads |-> 0]
    BY Zenon
  <2>2. Go(k) /\ (walk.cursor = NoBoundary \/ walk.cursor.epoch = session.epoch)
    BY Zenon, <1>2, <2>1 DEF chats_begin
  <2>3. session.epoch \in Nat /\ walk.cursor \in Boundary
    BY Zenon, CallBoundaries
  <2>4. /\ k \in [phase : {"check", "load", "ended", "collect"}, epoch : Nat, boundary : Boundary, loads : Nat]
        /\ k.boundary = walk.cursor /\ k.epoch = session.epoch /\ k.phase = "check"
    BY Zenon, <2>1, <2>3
  <2>5. k.epoch <= session.epoch
    BY <2>3, <2>4
  <2> QED BY Zenon, <2>2, <2>4, <2>5, GoStep
<1> QED BY Zenon, <1>1, <1>2

\* A call changes its phase or counts a load.
LEMMA PhaseStep ==
  ASSUME ConstantsAssumption, IInv, call.phase \in {"check", "load", "ended", "collect"},
         NEW p \in {"check", "load", "ended", "collect"}, NEW n \in Nat,
         Go([call EXCEPT !.phase = p, !.loads = n]), p = "ended" => unloaded = {}
  PROVE  IInv' /\ PageStep
<1>1. PICK k : k = [call EXCEPT !.phase = p, !.loads = n]
  BY Zenon
<1>2. /\ call \in [phase : {"check", "load", "ended", "collect"}, epoch : Nat, boundary : Boundary, loads : Nat]
      /\ call.boundary = walk.cursor /\ call.epoch <= session.epoch
      /\ walk.cursor = NoBoundary \/ walk.cursor.epoch = call.epoch
  BY Zenon, CallUnderWay
<1>3. /\ k \in [phase : {"check", "load", "ended", "collect"}, epoch : Nat, boundary : Boundary, loads : Nat]
      /\ k.phase = p /\ k.epoch = call.epoch /\ k.boundary = call.boundary
  BY Zenon, <1>1, <1>2
<1> QED BY Zenon, <1>1, <1>2, <1>3, GoStep

\* chats_check and load_answer
LEMMA CheckStep ==
  ASSUME ConstantsAssumption, IInv, chats_check \/ load_answer
  PROVE  IInv' /\ PageStep
<1>1. CASE Resync
  BY Zenon, <1>1, ResyncStep
<1>2. CASE ~Resync
  <2>1. call.phase \in {"check", "load"}
    BY Zenon DEF chats_check, load_answer
  <2>2. call \in [phase : {"check", "load", "ended", "collect"}, epoch : Nat, boundary : Boundary, loads : Nat]
    BY Zenon, <2>1, CallUnderWay
  <2>3. call.loads \in Nat /\ call.loads + 1 \in Nat
    BY <2>2
  <2>4. \A p : [call EXCEPT !.phase = p] = [call EXCEPT !.phase = p, !.loads = call.loads]
    BY Zenon, <2>2
  <2>5. CASE Go([call EXCEPT !.phase = "collect"])
    BY Zenon, <2>1, <2>3, <2>4, <2>5, PhaseStep
  <2>6. CASE Go([call EXCEPT !.phase = "check"])
    BY Zenon, <2>1, <2>3, <2>4, <2>6, PhaseStep
  <2>7. CASE unloaded = {} /\ Go([call EXCEPT !.phase = "ended"])
    BY Zenon, <2>1, <2>3, <2>4, <2>7, PhaseStep
  <2>8. CASE Go([call EXCEPT !.phase = "load", !.loads = @ + 1])
    <3>1. PICK n \in Nat : n = call.loads + 1
      BY Zenon, <2>3
    <3>2. Go([call EXCEPT !.phase = "load", !.loads = n])
      BY Zenon, <2>8, <3>1
    <3> QED BY Zenon, <2>1, <3>2, PhaseStep
  <2> QED BY Zenon, <1>2, <2>5, <2>6, <2>7, <2>8 DEF chats_check, load_answer
<1> QED BY Zenon, <1>1, <1>2

\* load_end
LEMMA LoadEndStep ==
  ASSUME ConstantsAssumption, IInv, load_end
  PROVE  IInv' /\ PageStep
<1>1. /\ UNCHANGED <<chats, unloaded, log, session, walk>> /\ call.phase = "ended"
      /\ exhausted' = (exhausted \/ Fenced) /\ call' = [call EXCEPT !.phase = "collect"]
  BY Zenon DEF load_end
<1>2. /\ call \in [phase : {"check", "load", "ended", "collect"}, epoch : Nat, boundary : Boundary, loads : Nat]
      /\ call.boundary = walk.cursor /\ call.epoch <= session.epoch
      /\ walk.cursor = NoBoundary \/ walk.cursor.epoch = call.epoch
  BY Zenon, <1>1, CallUnderWay
<1>3. /\ call' \in [phase : {"check", "load", "ended", "collect"}, epoch : Nat, boundary : Boundary, loads : Nat]
      /\ call'.phase = "collect" /\ call'.epoch = call.epoch /\ call'.boundary = call.boundary
  BY Zenon, <1>1, <1>2
<1>4. exhausted' \in BOOLEAN
  BY Zenon, <1>1 DEF IInv, Typed, Fenced
<1>5. Typed' /\ LogGood(log')
  BY Zenon, <1>1, <1>3, <1>4 DEF IInv, Typed, CallTyped
<1>6. \A b : Known(b)' = Known(b) /\ Valid(b)' = Valid(b) /\ Through(b)' = Through(b)
  BY Zenon, <1>1 DEF Known, Valid, disturbed, Through, Below, Listed
<1>7. WalkExact'
  BY Zenon, <1>1, <1>6 DEF WalkExact, IInv
<1>8. CallFollows'
  BY Zenon, <1>1, <1>2, <1>3 DEF CallFollows
<1>9. AnswerExact' /\ PageStep
  BY Zenon, <1>1, <1>3 DEF AnswerExact, PageStep
<1>10. EndIsTrue'
  BY Zenon, <1>1, <1>3 DEF EndIsTrue, IInv, Fenced
<1> QED BY Zenon, <1>5, <1>7, <1>8, <1>9, <1>10 DEF IInv

\* What lies below a chat that lies below a boundary lies below the boundary.
LEMMA BelowShrinks ==
  ASSUME ConstantsAssumption, Typed, NEW b \in Boundary, NEW last \in Below(b), NEW n \in Boundary,
         n.order = chats[last], n.id = last
  PROVE  n # NoBoundary /\ Below(n) \subseteq Below(b)
<1>1. last \in Ids /\ last # 0 /\ last \in Nat /\ chats[last] \in Nat
  BY Zenon DEF Below, Listed, Typed, ConstantsAssumption
<1>2. n # NoBoundary
  BY <1>1 DEF NoBoundary
<1>3. ASSUME NEW c \in Below(n) PROVE c \in Below(b)
  <2>1. c \in Listed /\ c \in Nat /\ chats[c] \in Nat
    BY Zenon, <1>3 DEF Below, Listed, Typed, ConstantsAssumption
  <2>2. chats[c] < chats[last] \/ (chats[c] = chats[last] /\ c < last)
    BY Zenon, <1>2, <1>3 DEF Below, before_boundary
  <2>3. CASE b = NoBoundary
    BY Zenon, <2>1, <2>3 DEF Below
  <2>4. CASE b # NoBoundary
    <3>1. b.order \in Nat /\ b.id \in Nat
      BY Zenon DEF Boundary, ConstantsAssumption
    <3>2. chats[last] < b.order \/ (chats[last] = b.order /\ last < b.id)
      BY Zenon, <2>4 DEF Below, before_boundary
    <3>3. chats[c] < b.order \/ (chats[c] = b.order /\ c < b.id)
      BY <1>1, <2>1, <2>2, <3>1, <3>2
    <3> QED BY Zenon, <2>1, <3>3 DEF Below, before_boundary
  <2> QED BY Zenon, <2>3, <2>4
<1> QED BY Zenon, <1>2, <1>3

\* While the call's boundary stands, what was shown is the list down to it.
LEMMA ShownSoFar ==
  ASSUME IInv, call.phase # "idle", session.epoch = call.epoch, ~disturbed(call.boundary)
  PROVE  walk.shown = Through(call.boundary) /\ (call.boundary = NoBoundary \/ Valid(call.boundary))
<1>1. call.boundary = walk.cursor /\ (walk.cursor = NoBoundary \/ walk.cursor.epoch = call.epoch)
  BY Zenon DEF IInv, CallFollows
<1>2. CASE walk.cursor = NoBoundary
  <2>1. walk.shown = {}
    BY Zenon, <1>2 DEF IInv, WalkExact
  <2>2. Through(walk.cursor) = {}
    BY Zenon, <1>2 DEF Through, Below
  <2> QED BY Zenon, <1>1, <1>2, <2>1, <2>2
<1>3. CASE walk.cursor # NoBoundary
  <2>1. Valid(walk.cursor)
    BY Zenon, <1>1, <1>3 DEF Valid
  <2> QED BY Zenon, <1>1, <2>1 DEF IInv, WalkExact
<1> QED BY Zenon, <1>2, <1>3

\* The page is collected.
LEMMA AnswerStep ==
  ASSUME ConstantsAssumption, IInv, call.phase = "collect", session.epoch = call.epoch,
         ~disturbed(call.boundary), NEW items \in SUBSET Ids, NEW n \in Boundary, Answer(items, n),
         walk.shown \cap items = {},
         walk.shown \cup items = IF n = NoBoundary THEN Listed ELSE Through(n),
         n = NoBoundary \/ (Known(n) /\ n.epoch = call.epoch)
  PROVE  IInv' /\ PageStep
<1>1. /\ UNCHANGED <<chats, unloaded, log, exhausted, session, walk>>
      /\ call' = [phase |-> "answer", epoch |-> call.epoch, boundary |-> call.boundary, items |-> items, next |-> n]
  BY Zenon DEF Answer, Go
<1>2. call.boundary \in Boundary /\ call.epoch \in Nat
  BY Zenon, CallBoundaries
<1>3. /\ call' \in [phase : {"answer"}, epoch : Nat, boundary : Boundary, items : SUBSET Ids, next : Boundary]
      /\ call'.phase = "answer" /\ call'.epoch = call.epoch /\ call'.boundary = call.boundary
      /\ call'.items = items /\ call'.next = n
  BY Zenon, <1>1, <1>2
<1>4. Typed' /\ LogGood(log')
  BY Zenon, <1>1, <1>3 DEF IInv, Typed, CallTyped
<1>5. \A b : Known(b)' = Known(b) /\ Valid(b)' = Valid(b) /\ Through(b)' = Through(b)
  BY Zenon, <1>1 DEF Known, Valid, disturbed, Through, Below, Listed
<1>6. WalkExact'
  BY Zenon, <1>1, <1>5 DEF WalkExact, IInv
<1>7. CallFollows'
  BY Zenon, <1>1, <1>3 DEF CallFollows, IInv
<1>8. AnswerExact'
  <2>1. CASE n = NoBoundary
    BY Zenon, <1>3, <2>1 DEF AnswerExact
  <2>2. CASE n # NoBoundary
    <3>1. Known(n)' /\ walk'.shown \cup items = Through(n)'
      BY Zenon, <1>1, <1>5, <2>2
    <3>2. Known(call.next)' /\ Through(call.next)' = Through(n)'
      BY Zenon, <1>3, <3>1
    <3> QED BY Zenon, <1>3, <2>2, <3>1, <3>2 DEF AnswerExact
  <2> QED BY Zenon, <2>1, <2>2
<1>9. EndIsTrue'
  BY Zenon, <1>1, <1>3 DEF EndIsTrue, IInv
<1>10. PageStep
  BY Zenon, <1>3 DEF PageStep
<1> QED BY Zenon, <1>4, <1>6, <1>7, <1>8, <1>9, <1>10 DEF IInv

\* chats_collect
LEMMA CollectStep ==
  ASSUME ConstantsAssumption, IInv, chats_collect
  PROVE  IInv' /\ PageStep
<1>0. call.phase = "collect"
  BY Zenon DEF chats_collect
<1>1. CASE Resync
  BY Zenon, <1>1, ResyncStep
<1>2. CASE ~Resync
  <2>1. session.epoch = call.epoch /\ ~disturbed(call.boundary)
    BY Zenon, <1>2 DEF chats_collect, Fenced
  <2>2. PICK b : b = call.boundary
    BY Zenon
  <2>3. b \in Boundary /\ call.epoch \in Nat
    BY Zenon, <1>0, <2>2, CallBoundaries
  <2>4. walk.shown = Through(b)
    BY Zenon, <1>0, <2>1, <2>2, ShownSoFar
  <2>5. Below(b) \subseteq Listed /\ Listed \subseteq Ids
    BY Zenon DEF Below, Listed
  <2>6. CASE Answer(Below(b), NoBoundary)
    <3>1. NoBoundary \in Boundary
      BY Zenon DEF ConstantsAssumption, NoBoundary, Boundary
    <3>2. walk.shown \cap Below(b) = {} /\ walk.shown \cup Below(b) = Listed
      BY Zenon, <2>4, <2>5 DEF Through
    <3> HIDE DEF NoBoundary
    <3> QED BY Zenon, <1>0, <2>1, <2>5, <2>6, <3>1, <3>2, AnswerStep
  <2>7. ASSUME NEW last \in Below(b), NEW n,
               n = [version |-> log.version, order |-> chats[last], id |-> last, epoch |-> call.epoch],
               Answer(Below(b) \ Below(n), n)
        PROVE  IInv' /\ PageStep
    <3>1. last \in Ids /\ chats[last] \in Orders /\ chats[last] # 0 /\ last # 0 /\ log.version \in Nat
      BY Zenon, <2>5 DEF Listed, Below, IInv, Typed, LogGood, ConstantsAssumption
    <3>2. n \in Boundary /\ n.order = chats[last] /\ n.id = last /\ n.version = log.version /\ n.epoch = call.epoch
      BY Zenon, <2>3, <2>7, <3>1 DEF Boundary
    <3>3. n # NoBoundary /\ Below(n) \subseteq Below(b)
      BY Zenon, <2>3, <3>2, BelowShrinks DEF IInv
    <3>4. /\ walk.shown \cap (Below(b) \ Below(n)) = {} /\ walk.shown \cup (Below(b) \ Below(n)) = Through(n)
          /\ Below(b) \ Below(n) \in SUBSET Ids
      BY Zenon, <2>4, <2>5, <3>3 DEF Through
    <3>5. log.version <= log.version /\ call.epoch <= session.epoch
      BY <2>1, <2>3, <3>1
    <3>6. Known(n)
      BY Zenon, <3>1, <3>2, <3>5 DEF Known
    <3> QED BY <1>0, <2>1, <2>7, <3>2, <3>3, <3>4, <3>6, AnswerStep
  <2> QED BY Zenon, <1>2, <2>2, <2>6, <2>7 DEF chats_collect
<1> QED BY Zenon, <1>1, <1>2

\* chats_answer
LEMMA GiveStep ==
  ASSUME ConstantsAssumption, IInv, chats_answer
  PROVE  IInv' /\ PageStep
<1>0. call.phase = "answer"
  BY Zenon DEF chats_answer
<1>1. CASE Resync
  BY Zenon, <1>1, ResyncStep
<1>2. CASE ~Resync
  <2>1. /\ session.epoch = call.epoch /\ ~disturbed(call.boundary) /\ call' = Idle
        /\ walk' = (IF call.next = NoBoundary THEN Fresh ELSE [shown |-> walk.shown \cup call.items, cursor |-> call.next])
        /\ UNCHANGED <<chats, unloaded, log, exhausted, session>>
    BY Zenon, <1>2 DEF chats_answer, Fenced
  <2>2. CASE call.next = NoBoundary
    BY Zenon, <2>1, <2>2, ResyncStep DEF Resync
  <2>3. CASE call.next # NoBoundary
    <3>1. PICK n : n = call.next
      BY Zenon
    <3>2. n \in Boundary /\ call.items \subseteq Ids /\ walk.shown \subseteq Ids
      BY Zenon, <1>0, <3>1, CallBoundaries
    <3>3. Known(n) /\ (Valid(n) => walk.shown \cup call.items = Through(n))
      BY Zenon, <1>0, <2>1, <2>3, <3>1, ShownSoFar DEF IInv, AnswerExact
    <3>4. walk'.shown = walk.shown \cup call.items /\ walk'.cursor = n /\ walk' \in [shown : SUBSET Ids, cursor : Boundary]
      BY Zenon, <2>1, <2>3, <3>1, <3>2
    <3>5. call'.phase = "idle"
      BY Zenon, <2>1 DEF Idle
    <3>6. Typed' /\ LogGood(log')
      BY Zenon, <2>1, <3>4 DEF IInv, Typed, CallTyped
    <3>7. Known(n)' = Known(n) /\ Valid(n)' = Valid(n) /\ Through(n)' = Through(n)
      BY Zenon, <2>1 DEF Known, Valid, disturbed, Through, Below, Listed
    <3>8. WalkExact'
      BY Zenon, <2>3, <3>1, <3>3, <3>4, <3>7 DEF WalkExact
    <3>9. CallFollows' /\ AnswerExact' /\ PageStep
      BY Zenon, <3>5 DEF CallFollows, AnswerExact, PageStep
    <3>10. EndIsTrue'
      BY Zenon, <2>1, <3>5 DEF EndIsTrue, IInv
    <3> QED BY Zenon, <3>6, <3>8, <3>9, <3>10 DEF IInv
  <2> QED BY Zenon, <2>2, <2>3
<1> QED BY Zenon, <1>1, <1>2

-----------------------------------------------------------------------------
(***************************************************************************)
(* The theorems.                                                           *)
(***************************************************************************)
\* Every step keeps the invariant, and collects only a page that continues.
LEMMA NextStep ==
  ASSUME ConstantsAssumption, IInv, [Next]_vars
  PROVE  IInv' /\ PageStep
<1>1. CASE UNCHANGED vars
  <2>1. UNCHANGED <<chats, unloaded, log, exhausted, session, call, walk>>
    BY Zenon, <1>1 DEF vars
  <2>2. \A b : Known(b)' = Known(b) /\ Valid(b)' = Valid(b) /\ Through(b)' = Through(b)
    BY Zenon, <2>1 DEF Known, Valid, disturbed, Through, Below, Listed
  <2>3. Typed' /\ LogGood(log')
    BY Zenon, <2>1 DEF IInv, Typed, CallTyped
  <2>4. WalkExact' /\ CallFollows' /\ AnswerExact'
    BY Zenon, <2>1, <2>2 DEF IInv, WalkExact, CallFollows, AnswerExact
  <2> QED BY Zenon, <2>1, <2>3, <2>4 DEF IInv, EndIsTrue, PageStep
<1>2. ASSUME NEW c \in Ids, NEW o \in Orders, updatePosition(c, o) PROVE IInv' /\ PageStep
  BY Zenon, <1>2, MoveStep DEF updatePosition, PageStep
<1>3. ASSUME NEW c \in Ids, updateNewChat(c) PROVE IInv' /\ PageStep
  <2>1. Announced[c] \in Orders
    BY Zenon DEF ConstantsAssumption
  <2> QED BY Zenon, <1>3, <2>1, MoveStep DEF updateNewChat, PageStep
<1>4. CASE leave_session
  BY Zenon, <1>4, LeaveStep DEF leave_session, PageStep
<1>5. CASE enter_session
  BY Zenon, <1>5, EnterStep DEF enter_session, PageStep
<1>6. CASE restart
  BY Zenon, <1>6, ResyncStep DEF restart
<1>7. CASE chats_begin \/ chats_check \/ load_answer \/ load_end \/ chats_collect \/ chats_answer
  BY Zenon, <1>7, BeginStep, CheckStep, LoadEndStep, CollectStep, GiveStep
<1> QED BY Zenon, <1>1, <1>2, <1>3, <1>4, <1>5, <1>6, <1>7 DEF Next

\* The initial state satisfies the invariant.
LEMMA InitGood ==
  ASSUME ConstantsAssumption, Init
  PROVE  IInv
<1>1. NoBoundary \in Boundary /\ 0 \in Orders /\ Retained \in Nat
  BY Zenon DEF ConstantsAssumption, NoBoundary, Boundary
<1>2. Typed
  BY Zenon, <1>1 DEF Init, Typed, CallTyped, Fresh
<1>3. LogGood(log)
  <2>1. log.entries = <<>> /\ <<>> \in Seq(Move) /\ Len(<<>>) = 0
    BY DEF Init
  <2>2. log \in [version : Nat, base : Nat, entries : Seq(Move)] /\ log.version = 0 /\ log.base = 0
    BY DEF Init
  <2> QED BY <1>1, <2>1, <2>2 DEF LogGood
<1>4. call.phase = "idle" /\ walk.cursor = NoBoundary /\ walk.shown = {} /\ exhausted = FALSE
  BY Zenon DEF Init, Idle, Fresh
<1>5. WalkExact
  BY Zenon, <1>4 DEF WalkExact, Known, Valid
<1>6. CallFollows /\ AnswerExact /\ EndIsTrue
  BY Zenon, <1>4 DEF CallFollows, AnswerExact, EndIsTrue
<1> QED BY Zenon, <1>2, <1>3, <1>5, <1>6 DEF IInv

\* What the invariant says of the pages.
LEMMA InvariantEnough ==
  ASSUME ConstantsAssumption, IInv
  PROVE  PagesSound
<1>1. TypeOK
  <2>1. /\ log \in [version : Nat, base : Nat, entries : Seq(Move)]
        /\ log.base + Len(log.entries) = log.version /\ Len(log.entries) <= Retained
        /\ \A i \in 1..Len(log.entries) : log.entries[i].version = log.base + i
    BY Zenon DEF IInv, LogGood
  <2>2. log.base \in Nat /\ log.entries \in Seq(Move) /\ DOMAIN log.entries = 1..Len(log.entries)
    BY <2>1
  <2>3. \A i \in DOMAIN log.entries : log.entries[i] \in [version : {log.base + i}, order : Orders]
    <3> SUFFICES ASSUME NEW i \in 1..Len(log.entries) PROVE log.entries[i] \in [version : {log.base + i}, order : Orders]
      BY Zenon, <2>2
    <3>1. log.entries[i] \in Move /\ log.entries[i].version = log.base + i
      BY <2>1, <2>2
    <3> QED BY Zenon, <3>1 DEF Move
  <2>4. call.phase \in {"idle", "check", "load", "ended", "collect", "answer"}
    BY DEF IInv, Typed, CallTyped, Idle
  <2>5. /\ chats \in [Ids -> Orders] /\ unloaded \subseteq Ids /\ exhausted \in BOOLEAN
        /\ session \in [epoch : Nat, ready : BOOLEAN]
        /\ walk.shown \subseteq Ids /\ walk.cursor \in Boundary
    BY Zenon DEF IInv, Typed
  <2> QED BY Zenon, <2>1, <2>2, <2>3, <2>4, <2>5 DEF TypeOK, Boundary
<1>2. CursorExact
  BY Zenon DEF IInv, WalkExact, Valid, CursorExact
<1>3. ExhaustedIsTrue
  BY Zenon DEF IInv, EndIsTrue, ExhaustedIsTrue
<1> QED BY Zenon, <1>1, <1>2, <1>3 DEF PagesSound

\* For any number of chats, orders, moves the log retains and page limit: while the
\* order log does not reject a cursor, what the client has shown is the present list
\* down to it (ChatOrderLog::disturbed), and a list marked exhausted has ended.
THEOREM PagesStaySound ==
  ASSUME ConstantsAssumption
  PROVE  Spec => []PagesSound
<1>1. Init => IInv
  BY Zenon, InitGood
<1>2. IInv /\ [Next]_vars => IInv'
  BY Zenon, NextStep
<1>3. IInv => PagesSound
  BY Zenon, InvariantEnough
<1> QED BY <1>1, <1>2, <1>3, PTL DEF Spec

\* Every page ReadModelService::chats collects continues what was shown, without a
\* gap and without a chat twice, whatever moved since the page before.
THEOREM PagesContinue ==
  ASSUME ConstantsAssumption
  PROVE  Spec => PageContinues
<1>1. Init => IInv
  BY Zenon, InitGood
<1>2. IInv /\ [Next]_vars => IInv' /\ PageStep
  BY Zenon, NextStep
<1> QED BY <1>1, <1>2, PTL DEF Spec, PageContinues, PageStep
=============================================================================
