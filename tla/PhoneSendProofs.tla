-------------------------- MODULE PhoneSendProofs --------------------------
(***************************************************************************)
(* Proofs about PhoneSend, for any attempts, watch requests and number of  *)
(* calls in flight, keys and repetitions of a POST.                        *)
(***************************************************************************)
EXTENDS PhoneSend, WellFoundedInduction, TLAPS

(***************************************************************************)
(* The inductive invariant.                                                *)
(***************************************************************************)
\* An entry has a key, drawn for it alone, exactly while it exists; only an
\* answer gives it an operation id, which ends its dispatch.
EntryOk(e, n) ==
  /\ e.key <= n
  /\ e.state = "none" => e = NoEntry
  /\ e.state # "none" => e.key # 0
  /\ e.state = "dispatching" => ~e.op
  /\ e.waiters # {} => e.state = "dispatching"

KeysApart == \A a, b \in Attempts : entries[a].key = entries[b].key /\ entries[a].key # 0 => a = b

\* A call in flight has a key that was drawn, and speaks for its own attempt only.
\* Its entry, while it is still the one of the attempt, is dispatching exactly for
\* the call of a send, and then has the waiters; after a reset the call has them.
CallOk(x, es, n) ==
  x.at # "free" =>
    /\ x.key \in 1..n
    /\ \A a \in Attempts : es[a].key = x.key => a = x.attempt
    /\ x.at = "priming" => x.origin = "send" /\ es[x.attempt].key = x.key
    /\ es[x.attempt].key = x.key => (x.origin = "send" <=> es[x.attempt].state = "dispatching")
    /\ x.origin = "send" /\ es[x.attempt].key = x.key => x.asker = {}
    /\ x.kind = "status" => x.origin # "send"
    /\ x.at = "timer" => x.tries < PostAttempts

\* The call of a send is alone with its key.
SendsApart ==
  \A c, d \in Calls : /\ calls[c].at # "free" /\ calls[d].at # "free" /\ calls[c].key = calls[d].key
                      /\ calls[c].origin = "send" /\ calls[d].origin = "send"
                      => c = d

\* Every dispatching entry has the call of its send, and is the only one.
Dispatches ==
  \A a \in Attempts : entries[a].state = "dispatching" =>
    /\ \A b \in Attempts : entries[b].state = "dispatching" => b = a
    /\ \E c \in Calls : calls[c].at # "free" /\ calls[c].origin = "send" /\ calls[c].key = entries[a].key

\* A request that waits does so in one place.
WaitsOnce ==
  /\ \A a \in Attempts : \A q \in entries[a].waiters : watch[q] = "asked"
  /\ \A c \in Calls : \A q \in calls[c].asker : watch[q] = "asked"
  /\ \A a \in Attempts, c \in Calls : entries[a].waiters \cap calls[c].asker = {}
  /\ \A c, d \in Calls : c # d => calls[c].asker \cap calls[d].asker = {}
  /\ \A q \in Requests : watch[q] # "answered_twice"
  /\ \A c \in Calls : calls[c].at = "free" => calls[c] = Free

\* Storage holds what persist writes of the entries.
StoredIsKept == stored = Kept(entries)

\* The rows are true, and what calls and entries say comes from them.
RowTrue(k) ==
  /\ server[k].state = "none" => server[k].fate = "live"
  /\ server[k].state = "sent" => server[k].fate = "delivered"
ServerTrue ==
  /\ \A k \in 1..MaxKeys : RowTrue(k)
  /\ \A c \in Calls : calls[c].result = "sent" /\ calls[c].at # "free" => server[calls[c].key].fate = "delivered"
  /\ SentIsDelivered

EntriesOk == \A a \in Attempts : EntryOk(entries[a], keys)
CallsOk == \A c \in Calls : CallOk(calls[c], entries, keys)

IInv == /\ TypeOK /\ EntriesOk /\ KeysApart /\ CallsOk /\ SendsApart /\ Dispatches
        /\ WaitsOnce /\ StoredIsKept /\ ServerTrue

-----------------------------------------------------------------------------
(***************************************************************************)
(* The operators.                                                          *)
(***************************************************************************)
\* What persist writes of an entry.
LEMMA KeptFacts ==
  ASSUME PhoneAssumption, NEW es \in [Attempts -> Entry]
  PROVE  /\ Kept(es) \in [Attempts -> Entry]
         /\ \A a \in Attempts :
              /\ es[a].state \in {"none", "sent"} => Kept(es)[a] = NoEntry
              /\ es[a].state \notin {"none", "sent"} =>
                   /\ Kept(es)[a].state = es[a].state /\ Kept(es)[a].key = es[a].key /\ Kept(es)[a].op = es[a].op
                   /\ Kept(es)[a].checking = FALSE /\ Kept(es)[a].waiters = {}
<1>1. NoEntry \in Entry
  BY DEF NoEntry, Entry, PhoneAssumption
<1>2. \A a \in Attempts :
        Kept(es)[a] = IF es[a].state \in {"none", "sent"} THEN NoEntry
                      ELSE [state |-> es[a].state, key |-> es[a].key, op |-> es[a].op,
                            checking |-> FALSE, waiters |-> {}]
  BY Zenon DEF Kept
<1>3. ASSUME NEW e \in Entry, NEW f,
             f = [state |-> e.state, key |-> e.key, op |-> e.op, checking |-> FALSE, waiters |-> {}]
      PROVE  /\ f \in Entry /\ f.state = e.state /\ f.key = e.key
             /\ f.op = e.op /\ f.checking = FALSE /\ f.waiters = {}
  <2>1. f.state = e.state /\ f.key = e.key /\ f.waiters = {}
    BY Zenon, <1>3
  <2>2. f.op = e.op /\ f.checking = FALSE
    BY <1>3, Zenon
  <2>3. e.op \in BOOLEAN /\ e.state \in {"none", "dispatching"} \cup Open \cup Settled /\ e.key \in 0..MaxKeys
    BY Zenon DEF Entry
  <2>4. f \in Entry
    BY Zenon, <1>3, <2>3 DEF Entry
  <2> QED BY Zenon, <2>1, <2>2, <2>4
<1>5. ASSUME NEW a \in Attempts
      PROVE  /\ es[a].state \in {"none", "sent"} => Kept(es)[a] = NoEntry
             /\ es[a].state \notin {"none", "sent"} =>
                  /\ Kept(es)[a].state = es[a].state /\ Kept(es)[a].key = es[a].key /\ Kept(es)[a].op = es[a].op
                  /\ Kept(es)[a].checking = FALSE /\ Kept(es)[a].waiters = {}
             /\ Kept(es)[a] \in Entry
  <2>1. PICK e \in Entry : e = es[a]
    BY Zenon
  <2>2. PICK f : f = Kept(es)[a]
    BY Zenon
  <2>3. CASE e.state \in {"none", "sent"}
    BY Zenon, <1>1, <1>2, <2>1, <2>3
  <2>4. CASE e.state \notin {"none", "sent"}
    <3>1. f = [state |-> e.state, key |-> e.key, op |-> e.op, checking |-> FALSE, waiters |-> {}]
      BY Zenon, <1>2, <2>1, <2>2, <2>4
    <3>2. /\ f \in Entry /\ f.state = e.state /\ f.key = e.key
          /\ f.op = e.op /\ f.checking = FALSE /\ f.waiters = {}
      BY <1>3, <3>1, Zenon
    <3> QED BY <2>1, <2>2, <2>4, <3>2, Zenon
  <2> QED BY Zenon, <2>3, <2>4
<1>7. Kept(es) = [a \in Attempts |-> Kept(es)[a]]
  BY Zenon DEF Kept
<1> QED BY Zenon, <1>5, <1>7

\* Entries that agree in all that is stored are stored alike.
LEMMA KeptAlike ==
  ASSUME PhoneAssumption, NEW es \in [Attempts -> Entry], NEW fs \in [Attempts -> Entry],
         \A a \in Attempts : es[a].state = fs[a].state /\ es[a].key = fs[a].key /\ es[a].op = fs[a].op
  PROVE  Kept(es) = Kept(fs)
BY Zenon DEF Kept

\* What a response makes of the requests.
LEMMA ToldFacts ==
  ASSUME TypeOK, NEW qs
  PROVE  /\ Told(qs) \in [Requests -> {"unsent", "asked", "answered", "answered_twice", "abandoned"}]
         /\ \A q \in Requests : q \notin qs => Told(qs)[q] = watch[q]
         /\ \A q \in Requests : q \in qs /\ watch[q] \in {"unsent", "asked"} => Told(qs)[q] = "answered"
<1>1. watch \in [Requests -> {"unsent", "asked", "answered", "answered_twice", "abandoned"}]
  BY Zenon DEF TypeOK
<1>2. \A q \in Requests :
        Told(qs)[q] = IF q \notin qs THEN watch[q]
                      ELSE CASE watch[q] \in {"unsent", "asked"} -> "answered"
                             [] watch[q] = "answered" -> "answered_twice"
                             [] OTHER -> watch[q]
  BY Zenon DEF Told
<1>3. \A q \in Requests : q \notin qs => Told(qs)[q] = watch[q]
  BY Zenon, <1>2
<1>4. \A q \in Requests : q \in qs /\ watch[q] \in {"unsent", "asked"} => Told(qs)[q] = "answered"
  BY Zenon, <1>2
<1>5. \A q \in Requests : Told(qs)[q] \in {"unsent", "asked", "answered", "answered_twice", "abandoned"}
  BY Zenon, <1>1, <1>2
<1>6. Told(qs) = [q \in Requests |-> Told(qs)[q]]
  BY Zenon DEF Told
<1> QED BY Zenon, <1>3, <1>4, <1>5, <1>6

\* Requests that are answered leave the places where they waited.
LEMMA WaitsLeave ==
  ASSUME IInv, NEW qs, watch' = Told(qs), \A q \in qs : q \in Requests /\ watch[q] \in {"unsent", "asked"},
         \A a \in Attempts : entries'[a].waiters \subseteq entries[a].waiters /\ entries'[a].waiters \cap qs = {},
         \A c \in Calls : calls'[c].asker \subseteq calls[c].asker /\ calls'[c].asker \cap qs = {},
         \A c \in Calls : calls'[c].at = "free" => calls'[c] = Free
  PROVE  WaitsOnce' /\ watch' \in [Requests -> {"unsent", "asked", "answered", "answered_twice", "abandoned"}]
<1>1. TypeOK /\ WaitsOnce
  BY Zenon DEF IInv
<1>2. /\ watch' \in [Requests -> {"unsent", "asked", "answered", "answered_twice", "abandoned"}]
      /\ \A q \in Requests : q \notin qs => watch'[q] = watch[q]
      /\ \A q \in Requests : q \in qs => watch'[q] = "answered"
  BY <1>1, ToldFacts
<1>3. /\ \A a \in Attempts : entries[a].waiters \subseteq Requests
      /\ \A c \in Calls : calls[c].asker \subseteq Requests
  BY Zenon, <1>1 DEF TypeOK, Entry, Call
<1>4. \A a \in Attempts : \A q \in entries'[a].waiters : watch'[q] = "asked"
  BY <1>1, <1>2, <1>3 DEF WaitsOnce
<1>5. \A c \in Calls : \A q \in calls'[c].asker : watch'[q] = "asked"
  BY Zenon, <1>1, <1>2, <1>3 DEF WaitsOnce
<1>6. \A a \in Attempts, c \in Calls : entries'[a].waiters \cap calls'[c].asker = {}
  BY Zenon, <1>1 DEF WaitsOnce
<1>7. \A c, d \in Calls : c # d => calls'[c].asker \cap calls'[d].asker = {}
  BY Zenon, <1>1 DEF WaitsOnce
<1>8. \A q \in Requests : watch'[q] # "answered_twice"
  BY <1>1, <1>2 DEF WaitsOnce
<1> QED BY Zenon, <1>2, <1>4, <1>5, <1>6, <1>7, <1>8 DEF WaitsOnce

-----------------------------------------------------------------------------
(***************************************************************************)
(* Entries and calls that follow from earlier ones.                        *)
(***************************************************************************)
\* An entry is forgotten, or goes on under its key and does not begin to dispatch again.
Follows(e, f) ==
  \/ f = NoEntry
  \/ /\ f \in Entry /\ f.state # "none" /\ e.state # "none" /\ f.key = e.key
     /\ f.state = "dispatching" => e.state = "dispatching" /\ ~f.op
     /\ f.waiters # {} => f.state = "dispatching"
     /\ f.state = "sent" => server[f.key].fate = "delivered"

AllFollow == entries' = [a \in Attempts |-> entries'[a]] /\ \A a \in Attempts : Follows(entries[a], entries'[a])

\* The typed parts of an entry and a call.
LEMMA Parts ==
  ASSUME PhoneAssumption, TypeOK
  PROVE  /\ NoEntry \in Entry /\ NoEntry.state = "none" /\ NoEntry.key = 0 /\ NoEntry.waiters = {}
         /\ \A a \in Attempts : /\ entries[a] \in Entry /\ entries[a].key \in Nat /\ entries[a].key \in 0..MaxKeys
                                /\ entries[a].waiters \subseteq Requests
                                /\ entries[a].state \in {"none", "dispatching"} \cup Open \cup Settled
         /\ \A c \in Calls : /\ calls[c] \in Call /\ calls[c].attempt \in Attempts /\ calls[c].key \in Nat
                             /\ calls[c].asker \subseteq Requests
         /\ keys \in Nat /\ keys <= MaxKeys /\ MaxKeys \in Nat
<1>1. NoEntry \in Entry /\ NoEntry.state = "none" /\ NoEntry.key = 0 /\ NoEntry.waiters = {}
  BY DEF NoEntry, Entry, PhoneAssumption
<1>2. ASSUME NEW e \in Entry
      PROVE  /\ e.key \in Nat /\ e.key \in 0..MaxKeys /\ e.waiters \subseteq Requests
             /\ e.state \in {"none", "dispatching"} \cup Open \cup Settled
  BY DEF Entry, PhoneAssumption
<1>3. ASSUME NEW x \in Call PROVE x.attempt \in Attempts /\ x.key \in Nat /\ x.asker \subseteq Requests
  BY DEF Call, PhoneAssumption
<1>4. /\ \A a \in Attempts : entries[a] \in Entry
      /\ \A c \in Calls : calls[c] \in Call
      /\ keys \in 0..MaxKeys /\ MaxKeys \in Nat
  BY Zenon DEF TypeOK, PhoneAssumption
<1>5. keys \in Nat /\ keys <= MaxKeys
  BY <1>4
<1> QED BY Zenon, <1>1, <1>2, <1>3, <1>4, <1>5

\* An entry that did not change follows.
LEMMA FollowsItself ==
  ASSUME PhoneAssumption, IInv, NEW a \in Attempts
  PROVE  Follows(entries[a], entries[a])
<1>1. entries[a] \in Entry /\ EntryOk(entries[a], keys)
  BY Zenon, Parts DEF IInv, EntriesOk
<1>2. entries[a].state = "sent" => server[entries[a].key].fate = "delivered"
  BY Zenon DEF IInv, ServerTrue, SentIsDelivered
<1> QED BY Zenon, <1>1, <1>2 DEF Follows, EntryOk

\* What follows keeps the facts about the entries.
LEMMA EntriesFollow ==
  ASSUME PhoneAssumption, IInv, AllFollow, keys' = keys, server' = server
  PROVE  /\ entries' \in [Attempts -> Entry] /\ EntriesOk' /\ KeysApart' /\ SentIsDelivered' /\ KeysKept
         /\ \A a, b \in Attempts : entries'[a].state = "dispatching" /\ entries'[b].state = "dispatching" => a = b
         /\ \A a \in Attempts : entries'[a].state = "dispatching" =>
              entries[a].state = "dispatching" /\ entries'[a].key = entries[a].key
<1>0. TypeOK /\ EntriesOk /\ KeysApart /\ Dispatches
  BY Zenon DEF IInv
<1>1. NoEntry \in Entry /\ NoEntry.state = "none" /\ NoEntry.key = 0 /\ NoEntry.waiters = {} /\ keys \in Nat
  BY Zenon, <1>0, Parts
<1>2. ASSUME NEW a \in Attempts
      PROVE  /\ entries'[a] \in Entry /\ EntryOk(entries'[a], keys) /\ entries'[a].key \in {0, entries[a].key}
             /\ entries'[a].state = "sent" => server[entries'[a].key].fate = "delivered"
             /\ entries'[a].state = "dispatching" => entries[a].state = "dispatching" /\ entries'[a].key = entries[a].key
  <2>1. PICK e : e = entries[a]
    BY Zenon
  <2>2. PICK f : f = entries'[a]
    BY Zenon
  <2>3. Follows(e, f) /\ EntryOk(e, keys)
    BY Zenon, <1>0, <2>1, <2>2 DEF AllFollow, EntriesOk
  <2>4. CASE f = NoEntry
    <3>1. EntryOk(f, keys)
      BY <1>1, <2>4 DEF EntryOk
    <3> QED BY Zenon, <1>1, <2>2, <2>4, <3>1
  <2>5. CASE f # NoEntry
    <3>1. /\ f \in Entry /\ f.state # "none" /\ e.state # "none" /\ f.key = e.key
          /\ f.state = "dispatching" => e.state = "dispatching" /\ ~f.op
          /\ f.waiters # {} => f.state = "dispatching"
          /\ f.state = "sent" => server[f.key].fate = "delivered"
      BY Zenon, <2>3, <2>5 DEF Follows
    <3>2. EntryOk(f, keys)
      BY Zenon, <2>3, <3>1 DEF EntryOk
    <3> QED BY Zenon, <2>1, <2>2, <3>1, <3>2
  <2> QED BY Zenon, <2>4, <2>5
<1>3. entries' \in [Attempts -> Entry]
  BY Zenon, <1>2 DEF AllFollow
<1>4. EntriesOk' /\ SentIsDelivered'
  BY Zenon, <1>2 DEF EntriesOk, EntryOk, SentIsDelivered
<1>5. KeysApart' /\ KeysKept
  BY <1>0, <1>2 DEF KeysApart, KeysKept
<1>6. \A a, b \in Attempts : entries'[a].state = "dispatching" /\ entries'[b].state = "dispatching" => a = b
  BY Zenon, <1>0, <1>2 DEF Dispatches
<1> QED BY Zenon, <1>2, <1>3, <1>4, <1>5, <1>6

\* A call stays good while its own entry goes on dispatching, or not.
LEMMA CallKeeps ==
  ASSUME NEW x \in Call, NEW es, NEW fs, NEW n, CallOk(x, es, n),
         \A a \in Attempts : fs[a].key \in {0, es[a].key}, n \in Nat,
         fs[x.attempt].key = x.key =>
           (fs[x.attempt].state = "dispatching" <=> es[x.attempt].state = "dispatching"),
         x.at = "priming" => fs[x.attempt].key = es[x.attempt].key
  PROVE  CallOk(x, fs, n)
<1> SUFFICES ASSUME x.at # "free"
             PROVE  /\ x.key \in 1..n
                    /\ \A a \in Attempts : fs[a].key = x.key => a = x.attempt
                    /\ x.at = "priming" => x.origin = "send" /\ fs[x.attempt].key = x.key
                    /\ fs[x.attempt].key = x.key => (x.origin = "send" <=> fs[x.attempt].state = "dispatching")
                    /\ x.origin = "send" /\ fs[x.attempt].key = x.key => x.asker = {}
                    /\ x.kind = "status" => x.origin # "send"
                    /\ x.at = "timer" => x.tries < PostAttempts
  BY Zenon DEF CallOk
<1>1. x.key \in 1..n /\ x.attempt \in Attempts /\ x.key # 0
  BY DEF CallOk, Call
<1>2. \A a \in Attempts : fs[a].key = x.key => es[a].key = x.key
  BY Zenon, <1>1
<1> QED BY Zenon, <1>1, <1>2 DEF CallOk

-----------------------------------------------------------------------------
(***************************************************************************)
(* The watch's requests and events.                                        *)
(***************************************************************************)
\* Steps that leave the calls alone.
LEMMA QuietStep ==
  ASSUME PhoneAssumption, IInv, AllFollow, UNCHANGED <<calls, keys, server>>, draft' \in BOOLEAN,
         \A a \in Attempts : entries[a].state = "dispatching" => entries'[a].state = "dispatching",
         stored' = Kept(entries'), WaitsOnce',
         watch' \in [Requests -> {"unsent", "asked", "answered", "answered_twice", "abandoned"}]
  PROVE  IInv' /\ KeysKept
<1>0. TypeOK /\ CallsOk /\ SendsApart /\ Dispatches /\ ServerTrue
  BY Zenon DEF IInv
<1>1. /\ entries' \in [Attempts -> Entry] /\ EntriesOk' /\ KeysApart' /\ SentIsDelivered' /\ KeysKept
      /\ \A a, b \in Attempts : entries'[a].state = "dispatching" /\ entries'[b].state = "dispatching" => a = b
      /\ \A a \in Attempts : entries'[a].state = "dispatching" =>
           entries[a].state = "dispatching" /\ entries'[a].key = entries[a].key
  BY Zenon, EntriesFollow
<1>2. TypeOK'
  <2>1. stored' \in [Attempts -> Entry]
    BY Zenon, <1>1, KeptFacts
  <2> QED BY Zenon, <1>0, <1>1, <2>1 DEF TypeOK
<1>3. CallsOk'
  <2> SUFFICES ASSUME NEW c \in Calls PROVE CallOk(calls[c], entries', keys)
    BY DEF CallsOk, CallOk
  <2>1. PICK x \in Call : x = calls[c]
    BY Zenon, <1>0, Parts
  <2>2. CallOk(x, entries, keys) /\ x.attempt \in Attempts /\ keys \in Nat
    BY Zenon, <1>0, <2>1, Parts DEF CallsOk
  <2>3. \A a \in Attempts : entries'[a].key \in {0, entries[a].key}
    BY Zenon, <1>1, Parts, <1>0 DEF KeysKept, AllFollow, Follows
  <2>4. entries'[x.attempt].state = "dispatching" <=> entries[x.attempt].state = "dispatching"
    BY Zenon, <1>1, <2>2
  <2>5. ASSUME x.at = "priming" PROVE entries'[x.attempt].key = entries[x.attempt].key
    <3>1. entries[x.attempt].state = "dispatching"
      BY Zenon, <2>2, <2>5 DEF CallOk
    <3> QED BY Zenon, <1>1, <2>2, <3>1
  <2>6. PICK es : es = entries
    BY Zenon
  <2>7. PICK fs : fs = entries'
    BY Zenon
  <2>8. CallOk(x, fs, keys)
    BY Zenon, <2>2, <2>3, <2>4, <2>5, <2>6, <2>7, CallKeeps
  <2> QED BY Zenon, <2>1, <2>7, <2>8
<1>4. SendsApart'
  BY Zenon, <1>0 DEF SendsApart
<1>5. Dispatches'
  BY <1>0, <1>1 DEF Dispatches
<1>6. ServerTrue'
  BY Zenon, <1>0, <1>1 DEF ServerTrue, RowTrue
<1>7. StoredIsKept'
  BY Zenon DEF StoredIsKept, Kept
<1> QED BY Zenon, <1>1, <1>2, <1>3, <1>4, <1>5, <1>6, <1>7 DEF IInv

\* A request is answered at once.
LEMMA TellStep ==
  ASSUME PhoneAssumption, IInv, NEW q \in Requests, watch[q] = "unsent", watch' = Told({q}),
         UNCHANGED <<entries, stored, calls, keys, server>>, draft' \in BOOLEAN
  PROVE  IInv' /\ KeysKept
<1>0. TypeOK /\ WaitsOnce /\ StoredIsKept
  BY Zenon DEF IInv
<1>1. AllFollow
  <2>1. \A a \in Attempts : Follows(entries[a], entries'[a])
    BY Zenon, FollowsItself
  <2>2. entries' = [a \in Attempts |-> entries'[a]]
    BY Zenon, <1>0 DEF TypeOK
  <2> QED BY Zenon, <2>1, <2>2 DEF AllFollow
<1>2. /\ \A a \in Attempts : q \notin entries[a].waiters
      /\ \A c \in Calls : q \notin calls[c].asker
      /\ \A c \in Calls : calls[c].at = "free" => calls[c] = Free
  BY Zenon, <1>0 DEF WaitsOnce
<1>3. WaitsOnce' /\ watch' \in [Requests -> {"unsent", "asked", "answered", "answered_twice", "abandoned"}]
  <2>1. \A p \in {q} : p \in Requests /\ watch[p] \in {"unsent", "asked"}
    BY Zenon
  <2>2. \A a \in Attempts : entries'[a].waiters \subseteq entries[a].waiters /\ entries'[a].waiters \cap {q} = {}
    BY Zenon, <1>2
  <2>3. \A c \in Calls : calls'[c].asker \subseteq calls[c].asker /\ calls'[c].asker \cap {q} = {}
    BY Zenon, <1>2
  <2>4. \A c \in Calls : calls'[c].at = "free" => calls'[c] = Free
    BY Zenon, <1>2
  <2> HIDE DEF Free
  <2> QED BY Zenon, <2>1, <2>2, <2>3, <2>4, WaitsLeave
<1>4. stored' = Kept(entries')
  BY Zenon, <1>0 DEF StoredIsKept
<1> QED BY Zenon, <1>1, <1>3, <1>4, QuietStep

\* A request waits for the send that is under way.
LEMMA JoinStep ==
  ASSUME PhoneAssumption, IInv, NEW q \in Requests, NEW a \in Attempts, watch[q] = "unsent",
         entries[a].state = "dispatching", entries' = [entries EXCEPT ![a].waiters = @ \cup {q}],
         watch' = [watch EXCEPT ![q] = "asked"], UNCHANGED <<draft, stored, calls, keys, server>>
  PROVE  IInv' /\ KeysKept
<1>0. TypeOK /\ WaitsOnce /\ StoredIsKept /\ EntriesOk /\ Dispatches
  BY Zenon DEF IInv
<1>1. PICK e \in Entry : e = entries[a]
  BY Zenon, <1>0, Parts
<1>2. PICK f : f = [e EXCEPT !.waiters = @ \cup {q}]
  BY Zenon
<1>3. /\ f \in Entry /\ f.state = e.state /\ f.key = e.key /\ f.waiters = e.waiters \cup {q}
  BY Zenon, <1>2 DEF Entry
<1>4. f.op = e.op
  BY Zenon, <1>2 DEF Entry
<1>5. entries' \in [Attempts -> Entry] /\ entries'[a] = f /\ \A b \in Attempts : b # a => entries'[b] = entries[b]
  BY Zenon, <1>0, <1>1, <1>2, <1>3 DEF TypeOK
<1>6. ~e.op
  BY Zenon, <1>0, <1>1 DEF EntriesOk, EntryOk
<1>7. AllFollow
  <2>1. Follows(e, f)
    <3>1. f.state = "dispatching" /\ e.state = "dispatching"
      BY Zenon, <1>1, <1>3
    <3>2. ~f.op
      BY <1>4, <1>6, Zenon
    <3> QED BY Zenon, <1>3, <3>1, <3>2 DEF Follows
  <2>2. \A b \in Attempts : Follows(entries[b], entries'[b])
    BY Zenon, <1>1, <1>5, <2>1, FollowsItself
  <2>3. entries' = [b \in Attempts |-> entries'[b]]
    BY Zenon, <1>5
  <2> QED BY Zenon, <2>2, <2>3 DEF AllFollow
<1>8. stored' = Kept(entries')
  <2>1. \A b \in Attempts : entries'[b].state = entries[b].state /\ entries'[b].key = entries[b].key
    BY Zenon, <1>1, <1>3, <1>5
  <2>2. \A b \in Attempts : entries'[b].op = entries[b].op
    BY <1>1, <1>4, <1>5, Zenon
  <2>3. entries \in [Attempts -> Entry]
    BY Zenon, <1>0 DEF TypeOK
  <2>4. Kept(entries') = Kept(entries)
    BY Zenon, <1>5, <2>1, <2>2, <2>3, KeptAlike
  <2> QED BY Zenon, <1>0, <2>4 DEF StoredIsKept
<1>9. watch' \in [Requests -> {"unsent", "asked", "answered", "answered_twice", "abandoned"}]
  BY Zenon, <1>0 DEF TypeOK
<1>10. WaitsOnce'
  <2>1. \A p \in Requests : watch'[p] = IF p = q THEN "asked" ELSE watch[p]
    BY Zenon, <1>0 DEF TypeOK
  <2>2. /\ \A b \in Attempts : q \notin entries[b].waiters /\ entries[b].waiters \subseteq Requests
        /\ \A c \in Calls : q \notin calls[c].asker /\ calls[c].asker \subseteq Requests
    BY Zenon, <1>0, Parts DEF WaitsOnce
  <2>3. \A b \in Attempts : entries'[b].waiters \subseteq entries[b].waiters \cup {q}
    BY Zenon, <1>1, <1>3, <1>5
  <2>4. \A b \in Attempts : \A p \in entries'[b].waiters : watch'[p] = "asked"
    BY <1>0, <2>1, <2>2, <2>3 DEF WaitsOnce
  <2>5. \A c \in Calls : \A p \in calls[c].asker : watch'[p] = "asked"
    BY <1>0, <2>1, <2>2 DEF WaitsOnce
  <2>6. \A b \in Attempts, c \in Calls : entries'[b].waiters \cap calls[c].asker = {}
    BY <1>0, <2>2, <2>3 DEF WaitsOnce
  <2> QED BY <1>0, <2>1, <2>4, <2>5, <2>6 DEF WaitsOnce
<1>11. \A b \in Attempts : entries[b].state = "dispatching" => entries'[b].state = "dispatching"
  BY Zenon, <1>1, <1>3, <1>5
<1> HIDE DEF Open, Settled
<1> QED BY Zenon, <1>7, <1>8, <1>9, <1>10, <1>11, QuietStep DEF IInv, TypeOK

\* discard: settled entries are forgotten.
LEMMA DiscardStep ==
  ASSUME PhoneAssumption, IInv, NEW q \in Requests, WatchDiscard(q)
  PROVE  IInv' /\ KeysKept
<1> DEFINE es == [a \in Attempts |-> IF entries[a].state \in Settled THEN NoEntry ELSE entries[a]]
<1>0. /\ watch[q] = "unsent" /\ watch' = Told({q}) /\ UNCHANGED <<calls, server, keys>>
      /\ (IF draft THEN Persist(es) ELSE UNCHANGED <<entries, stored>>)
  BY Zenon DEF WatchDiscard
<1>1. TypeOK /\ WaitsOnce
  BY Zenon DEF IInv
<1>2. draft' \in BOOLEAN
  BY Zenon, <1>1 DEF WatchDiscard, TypeOK
<1>3. CASE ~draft
  BY Zenon, <1>0, <1>2, <1>3, TellStep
<1>4. CASE draft
  <2>1. entries' = es /\ stored' = Kept(entries')
    BY Zenon, <1>0, <1>4 DEF Persist
  <2>2. \A a \in Attempts : entries'[a] = IF entries[a].state \in Settled THEN NoEntry ELSE entries[a]
    BY Zenon, <2>1
  <2>3. AllFollow
    <3>1. \A a \in Attempts : Follows(entries[a], entries'[a])
      BY Zenon, <2>2, FollowsItself DEF Follows
    <3>2. entries' = [a \in Attempts |-> entries'[a]]
      BY Zenon, <2>1
    <3> QED BY Zenon, <3>1, <3>2 DEF AllFollow
  <2>4. \A a \in Attempts : entries[a].state = "dispatching" => entries'[a].state = "dispatching"
    BY Zenon, <2>2 DEF Settled
  <2>5. WaitsOnce' /\ watch' \in [Requests -> {"unsent", "asked", "answered", "answered_twice", "abandoned"}]
    <3>0. /\ \A a \in Attempts : q \notin entries[a].waiters
          /\ \A c \in Calls : q \notin calls[c].asker
          /\ \A c \in Calls : calls[c].at = "free" => calls[c] = Free
      BY Zenon, <1>0, <1>1 DEF WaitsOnce
    <3>1. \A p \in {q} : p \in Requests /\ watch[p] \in {"unsent", "asked"}
      BY Zenon, <1>0
    <3>2. \A a \in Attempts : entries'[a].waiters \subseteq entries[a].waiters /\ entries'[a].waiters \cap {q} = {}
      BY Zenon, <1>1, <2>2, <3>0, Parts
    <3>3. \A c \in Calls : calls'[c].asker \subseteq calls[c].asker /\ calls'[c].asker \cap {q} = {}
      BY Zenon, <1>0, <3>0
    <3>4. \A c \in Calls : calls'[c].at = "free" => calls'[c] = Free
      BY Zenon, <1>0, <3>0
    <3> HIDE DEF Free
    <3> QED BY Zenon, <1>0, <3>1, <3>2, <3>3, <3>4, WaitsLeave
  <2> QED BY Zenon, <1>0, <1>2, <2>1, <2>3, <2>4, <2>5, QuietStep
<1> QED BY Zenon, <1>1, <1>3, <1>4 DEF TypeOK

\* What apply makes of an entry.
LEMMA AppliedFacts ==
  ASSUME PhoneAssumption, NEW e \in Entry, NEW s \in Open \cup Settled, NEW f, f = Applied(e, s)
  PROVE  /\ f \in Entry /\ f.key = e.key /\ f.waiters = e.waiters
         /\ f.state = IF e.state = "sent" \/ (e.state = "failed" /\ s # "failed") THEN e.state ELSE s
<1>1. PICK t : t = IF e.state = "sent" \/ (e.state = "failed" /\ s # "failed") THEN e.state ELSE s
  BY Zenon
<1>2. t \in {"none", "dispatching"} \cup Open \cup Settled
  BY Zenon, <1>1 DEF Open, Settled
<1>3. f = [e EXCEPT !.op = TRUE, !.state = t]
  BY Zenon, <1>1 DEF Applied
<1> QED BY Zenon, <1>1, <1>2, <1>3 DEF Entry

\* An event about an operation.
LEMMA EventStep ==
  ASSUME PhoneAssumption, IInv, NEW a \in Attempts, EventArrives(a)
  PROVE  IInv' /\ KeysKept
<1>0. TypeOK /\ WaitsOnce /\ EntriesOk /\ ServerTrue
  BY Zenon DEF IInv
<1>1. PICK s \in {"pending", server[entries[a].key].state} \ {"none", "unknown"} :
        Persist([entries EXCEPT ![a] = Applied(@, s)])
  BY Zenon DEF EventArrives
<1>2. PICK e \in Entry : e = entries[a]
  BY Zenon, <1>0, Parts
<1>3. UNCHANGED <<draft, calls, watch, server, keys>> /\ e.op
  BY Zenon, <1>2 DEF EventArrives
<1>4. e.state \notin {"none", "dispatching"} /\ e.key # 0 /\ e.key \in 1..MaxKeys /\ e.waiters = {}
  <2>1. EntryOk(e, keys)
    BY Zenon, <1>0, <1>2 DEF EntriesOk
  <2>2. e # NoEntry
    <3>1. ~NoEntry.op
      BY Zenon DEF NoEntry
    <3> QED BY <1>3, <3>1, Zenon
  <2>3. e.state \notin {"none", "dispatching"}
    BY Zenon, <1>3, <2>1, <2>2 DEF EntryOk
  <2>4. e.key # 0 /\ e.waiters = {}
    BY Zenon, <2>1, <2>3 DEF EntryOk
  <2>5. e.key \in 0..MaxKeys /\ MaxKeys \in Nat
    BY Zenon, <1>0, <1>2, Parts
  <2>6. e.key \in 1..MaxKeys
    BY <2>4, <2>5
  <2> QED BY Zenon, <2>3, <2>4, <2>6
<1>5. s \in Open \cup Settled /\ (s = "sent" => server[e.key].fate = "delivered")
  <2>1. server[e.key] \in Row
    BY Zenon, <1>0, <1>4 DEF TypeOK
  <2>2. server[e.key].state \in {"none"} \cup Open \cup Settled
    BY Zenon, <2>1 DEF Row
  <2>3. RowTrue(e.key)
    BY Zenon, <1>0, <1>4 DEF ServerTrue
  <2> QED BY Zenon, <1>1, <1>2, <2>2, <2>3 DEF RowTrue, Open, Settled
<1>6. PICK f : f = Applied(e, s)
  BY Zenon
<1>7. /\ f \in Entry /\ f.key = e.key /\ f.waiters = e.waiters
      /\ f.state = IF e.state = "sent" \/ (e.state = "failed" /\ s # "failed") THEN e.state ELSE s
  BY <1>5, <1>6, AppliedFacts
<1>8. /\ entries' = [entries EXCEPT ![a] = f] /\ stored' = Kept(entries')
  BY Zenon, <1>1, <1>2, <1>6 DEF Persist
<1>9. entries'[a] = f /\ (\A b \in Attempts : b # a => entries'[b] = entries[b]) /\ entries' = [b \in Attempts |-> entries'[b]]
  BY Zenon, <1>0, <1>8 DEF TypeOK
<1>10. Follows(e, f)
  <2>1. e.state = "sent" => server[e.key].fate = "delivered"
    BY Zenon, <1>0, <1>2 DEF ServerTrue, SentIsDelivered
  <2>2. f.state \notin {"none", "dispatching"} /\ (f.state = "sent" => server[f.key].fate = "delivered")
    BY <1>4, <1>5, <1>7, <2>1 DEF Open, Settled
  <2> QED BY Zenon, <1>4, <1>7, <2>2 DEF Follows
<1>11. AllFollow
  BY Zenon, <1>2, <1>9, <1>10, FollowsItself DEF AllFollow
<1>12. \A b \in Attempts : entries[b].state = "dispatching" => entries'[b].state = "dispatching"
  BY <1>2, <1>4, <1>9
<1>13. \A b \in Attempts : entries'[b].waiters = entries[b].waiters
  BY Zenon, <1>2, <1>7, <1>9
<1>14. WaitsOnce'
  BY <1>0, <1>3, <1>13 DEF WaitsOnce
<1> QED BY Zenon, <1>0, <1>3, <1>8, <1>11, <1>12, <1>14, QuietStep DEF TypeOK

\* There is a latest attempt.
LEMMA LatestIn ==
  ASSUME PhoneAssumption, IInv
  PROVE  Latest \in Attempts
<1>0. /\ MaxKeys \in Nat /\ Attempts # {}
      /\ \A a \in Attempts : entries[a].key \in 0..MaxKeys
  BY Zenon, Parts DEF PhoneAssumption, IInv
<1>1. PICK S : S = {MaxKeys - entries[a].key : a \in Attempts}
  BY Zenon
<1>2. S \subseteq Nat /\ S # {}
  BY <1>0, <1>1
<1>3. PICK m \in S : \A x \in S : m <= x
  <2>1. \E x \in S : \A y \in S : <<y, x>> \notin OpToRel(<, Nat)
    BY Zenon, <1>2, NatLessThanWellFounded, WFMin
  <2>2. PICK x \in S : \A y \in S : <<y, x>> \notin OpToRel(<, Nat)
    BY Zenon, <2>1
  <2>3. \A y \in S : ~(y < x)
    BY Zenon, <1>2, <2>2 DEF OpToRel
  <2> QED BY <1>2, <2>3
<1>4. PICK a \in Attempts : m = MaxKeys - entries[a].key
  BY Zenon, <1>1
<1>5. \A b \in Attempts : entries[b].key <= entries[a].key
  <2> SUFFICES ASSUME NEW b \in Attempts PROVE entries[b].key <= entries[a].key
    BY Zenon
  <2>1. MaxKeys - entries[b].key \in S
    BY Zenon, <1>1
  <2>2. MaxKeys - entries[a].key <= MaxKeys - entries[b].key
    BY Zenon, <1>3, <1>4, <2>1
  <2> QED BY <1>0, <2>2
<1> QED BY Zenon, <1>5 DEF Latest

-----------------------------------------------------------------------------
(***************************************************************************)
(* Calls that begin.                                                       *)
(***************************************************************************)
\* A free slot.
LEMMA FreeFacts ==
  ASSUME PhoneAssumption
  PROVE  /\ Free \in Call /\ Free.at = "free" /\ Free.kind = "post" /\ Free.origin = "send" /\ Free.asker = {}
         /\ Free.result = "none" /\ Free.tries = 0 /\ Free.key = 0
<1>1. PICK b \in Attempts : b = CHOOSE a \in Attempts : TRUE
  BY Zenon DEF PhoneAssumption
<1>2. Free = [at |-> "free", kind |-> "post", origin |-> "send", attempt |-> b,
              key |-> 0, tries |-> 0, result |-> "none", asker |-> {}]
  BY Zenon, <1>1 DEF Free
<1> QED BY <1>2 DEF Call, Results, PhoneAssumption

\* A check, or the check of an open send after the journal was restarted, begins.
LEMMA NewCall ==
  ASSUME PhoneAssumption, IInv, AllFollow, NEW c \in Calls, calls[c] = Free, NEW x \in Call,
         calls' = [calls EXCEPT ![c] = x], NEW a \in Attempts, entries[a].state \in Open,
         x.at = "out", x.origin # "send", x.attempt = a, x.key = entries[a].key, x.result = "none",
         UNCHANGED <<draft, server, keys>>, stored' = Kept(entries'), WaitsOnce',
         \A b \in Attempts : entries[b].state = "dispatching" => entries'[b].state = "dispatching",
         watch' \in [Requests -> {"unsent", "asked", "answered", "answered_twice", "abandoned"}]
  PROVE  IInv' /\ KeysKept
<1>0. TypeOK /\ EntriesOk /\ KeysApart /\ CallsOk /\ SendsApart /\ Dispatches /\ ServerTrue
  BY Zenon DEF IInv
<1>1. /\ entries' \in [Attempts -> Entry] /\ EntriesOk' /\ KeysApart' /\ SentIsDelivered' /\ KeysKept
      /\ \A b, d \in Attempts : entries'[b].state = "dispatching" /\ entries'[d].state = "dispatching" => b = d
      /\ \A b \in Attempts : entries'[b].state = "dispatching" =>
           entries[b].state = "dispatching" /\ entries'[b].key = entries[b].key
  BY Zenon, EntriesFollow
<1>2. calls' \in [Calls -> Call] /\ calls'[c] = x /\ \A d \in Calls : d # c => calls'[d] = calls[d]
  BY Zenon, <1>0 DEF TypeOK
<1>3. TypeOK'
  <2>1. stored' \in [Attempts -> Entry]
    BY Zenon, <1>1, KeptFacts
  <2> QED BY Zenon, <1>0, <1>1, <1>2, <2>1 DEF TypeOK
<1>4. \A b \in Attempts : entries'[b].key \in {0, entries[b].key}
  BY Zenon, <1>0, <1>1, Parts DEF KeysKept, AllFollow, Follows
<1>5. /\ x.key \in 1..keys /\ x.key # 0 /\ keys \in Nat /\ entries[a].state # "dispatching"
      /\ \A b \in Attempts : entries'[b].key = x.key => b = a
  <2>1. entries[a].key \in Nat /\ keys \in Nat
    BY Zenon, <1>0, Parts
  <2>2. EntryOk(entries[a], keys)
    BY Zenon, <1>0 DEF EntriesOk
  <2>3. entries[a].key # 0 /\ entries[a].key <= keys /\ entries[a].state # "dispatching"
    BY Zenon, <2>2 DEF EntryOk, Open
  <2>4. x.key \in 1..keys /\ x.key # 0
    BY <2>1, <2>3
  <2> QED BY <1>0, <1>4, <2>1, <2>3, <2>4 DEF KeysApart
<1>6. CallsOk'
  <2> SUFFICES ASSUME NEW d \in Calls PROVE CallOk(calls'[d], entries', keys)
    BY DEF CallsOk, CallOk
  <2>1. CASE d = c
    <3>1. entries'[a].state # "dispatching"
      BY Zenon, <1>1, <1>5
    <3> QED BY Zenon, <1>2, <1>5, <2>1, <3>1 DEF CallOk
  <2>2. CASE d # c
    <3>1. PICK y \in Call : y = calls[d]
      BY Zenon, <1>0, Parts
    <3>2. CallOk(y, entries, keys) /\ y.attempt \in Attempts
      BY Zenon, <1>0, <3>1, Parts DEF CallsOk
    <3>3. entries'[y.attempt].state = "dispatching" <=> entries[y.attempt].state = "dispatching"
      BY Zenon, <1>1, <3>2
    <3>4. ASSUME y.at = "priming" PROVE entries'[y.attempt].key = entries[y.attempt].key
      <4>1. entries[y.attempt].state = "dispatching"
        BY Zenon, <3>2, <3>4 DEF CallOk
      <4> QED BY Zenon, <1>1, <3>2, <4>1
    <3>5. PICK es : es = entries
      BY Zenon
    <3>6. PICK fs : fs = entries'
      BY Zenon
    <3>7. CallOk(y, fs, keys)
      BY Zenon, <1>4, <1>5, <3>2, <3>3, <3>4, <3>5, <3>6, CallKeeps
    <3> QED BY Zenon, <1>2, <2>2, <3>1, <3>6, <3>7
  <2> QED BY Zenon, <2>1, <2>2
<1>7. SendsApart'
  BY <1>0, <1>2 DEF SendsApart
<1>8. Dispatches'
  <2>1. ASSUME NEW b \in Attempts, entries'[b].state = "dispatching"
        PROVE  \E d \in Calls : calls'[d].at # "free" /\ calls'[d].origin = "send" /\ calls'[d].key = entries'[b].key
    <3>1. PICK d \in Calls : calls[d].at # "free" /\ calls[d].origin = "send" /\ calls[d].key = entries[b].key
      BY Zenon, <1>0, <1>1, <2>1 DEF Dispatches
    <3>2. d # c
      BY Zenon, <3>1, FreeFacts
    <3> QED BY <1>1, <1>2, <2>1, <3>1, <3>2
  <2> QED BY <1>1, <2>1 DEF Dispatches
<1>9. ServerTrue'
  <2>1. \A d \in Calls : calls'[d].result = "sent" /\ calls'[d].at # "free" => server[calls'[d].key].fate = "delivered"
    BY Zenon, <1>0, <1>2 DEF ServerTrue
  <2> QED BY <1>0, <1>1, <2>1 DEF ServerTrue, RowTrue
<1>10. StoredIsKept'
  BY Zenon DEF StoredIsKept, Kept
<1> QED BY Zenon, <1>1, <1>3, <1>6, <1>7, <1>8, <1>9, <1>10 DEF IInv

\* sendCheck
LEMMA CheckStep ==
  ASSUME PhoneAssumption, IInv, NEW q \in Requests, WatchCheck(q)
  PROVE  IInv' /\ KeysKept
<1>0. TypeOK /\ WaitsOnce /\ StoredIsKept
  BY Zenon DEF IInv
<1>1. PICK a \in Attempts : a = Latest
  BY Zenon, LatestIn
<1>2. watch[q] = "unsent" /\ UNCHANGED <<draft, stored, server, keys>>
  BY Zenon DEF WatchCheck
<1>3. CASE watch' = Told({q}) /\ UNCHANGED <<entries, calls>>
  BY Zenon, <1>0, <1>2, <1>3, TellStep DEF TypeOK
<1>4. CASE /\ entries[a].state = "dispatching" /\ entries' = [entries EXCEPT ![a].waiters = @ \cup {q}]
           /\ watch' = [watch EXCEPT ![q] = "asked"] /\ UNCHANGED calls
  BY Zenon, <1>2, <1>4, JoinStep
<1>5. ASSUME entries[a].state \in Open, watch' = [watch EXCEPT ![q] = "asked"], UNCHANGED entries, NEW c \in Calls,
             calls[c] = Free,
             calls' = [calls EXCEPT ![c] = [Free EXCEPT !.at = "out", !.kind = IF entries[a].op THEN "status" ELSE "post",
                                              !.origin = "check", !.attempt = a, !.key = entries[a].key, !.tries = 1,
                                              !.asker = {q}]]
      PROVE  IInv' /\ KeysKept
  <2>1. PICK kind \in {"post", "status"} : kind = IF entries[a].op THEN "status" ELSE "post"
    BY Zenon
  <2>2. PICK k : k = entries[a].key
    BY Zenon
  <2>3. PICK x : x = [Free EXCEPT !.at = "out", !.kind = kind, !.origin = "check", !.attempt = a, !.key = k,
                                  !.tries = 1, !.asker = {q}]
    BY Zenon
  <2>4. calls' = [calls EXCEPT ![c] = x]
    BY Zenon, <1>5, <2>1, <2>2, <2>3
  <2>5. k \in 0..MaxKeys /\ 1 \in 0..PostAttempts
    BY <1>0, <2>2, Parts DEF PhoneAssumption
  <2>6. /\ x \in Call /\ x.at = "out" /\ x.origin = "check" /\ x.attempt = a /\ x.key = k
        /\ x.result = "none" /\ x.asker = {q}
    BY Zenon, <2>3, <2>5, FreeFacts DEF Call
  <2>7. AllFollow
    <3>1. entries' = [b \in Attempts |-> entries'[b]]
      BY Zenon, <1>0, <1>5 DEF TypeOK
    <3> QED BY Zenon, <1>5, <3>1, FollowsItself DEF AllFollow
  <2>8. WaitsOnce'
    <3>1. \A p \in Requests : watch'[p] = IF p = q THEN "asked" ELSE watch[p]
      BY Zenon, <1>0, <1>5 DEF TypeOK
    <3>2. /\ \A b \in Attempts : q \notin entries[b].waiters /\ entries[b].waiters \subseteq Requests
          /\ \A d \in Calls : q \notin calls[d].asker /\ calls[d].asker \subseteq Requests
      BY Zenon, <1>0, <1>2, Parts DEF WaitsOnce
    <3>3. calls'[c] = x /\ \A d \in Calls : d # c => calls'[d] = calls[d]
      BY Zenon, <1>0, <2>4 DEF TypeOK
    <3>4. calls[c].asker = {}
      BY Zenon, <1>5, FreeFacts
    <3>5. \A d \in Calls : calls'[d].asker = IF d = c THEN {q} ELSE calls[d].asker
      BY Zenon, <2>6, <3>3
    <3>6. \A b \in Attempts : \A p \in entries[b].waiters : watch'[p] = "asked"
      BY Zenon, <1>0, <3>1, <3>2 DEF WaitsOnce
    <3>7. \A d \in Calls : \A p \in calls'[d].asker : watch'[p] = "asked"
      BY <1>0, <3>1, <3>2, <3>5 DEF WaitsOnce
    <3>8. \A b \in Attempts, d \in Calls : entries[b].waiters \cap calls'[d].asker = {}
      BY <1>0, <3>2, <3>5 DEF WaitsOnce
    <3>9. \A d, e \in Calls : d # e => calls'[d].asker \cap calls'[e].asker = {}
      BY <1>0, <3>2, <3>5 DEF WaitsOnce
    <3>10. \A d \in Calls : calls'[d].at = "free" => calls'[d] = Free
      BY <1>0, <2>6, <3>3 DEF WaitsOnce
    <3> QED BY <1>0, <1>5, <3>1, <3>6, <3>7, <3>8, <3>9, <3>10 DEF WaitsOnce
  <2>9. watch' \in [Requests -> {"unsent", "asked", "answered", "answered_twice", "abandoned"}]
    BY Zenon, <1>0, <1>5 DEF TypeOK
  <2>10. stored' = Kept(entries')
    BY Zenon, <1>0, <1>2, <1>5 DEF StoredIsKept
  <2> HIDE DEF Free
  <2> QED BY Zenon, <1>2, <1>5, <2>2, <2>4, <2>6, <2>7, <2>8, <2>9, <2>10, NewCall
<1> QED BY Zenon, <1>1, <1>3, <1>4, <1>5 DEF WatchCheck, Start

\* The journal was restarted: an open send is checked.
LEMMA ResyncedStep ==
  ASSUME PhoneAssumption, IInv, NEW a \in Attempts, Resynced(a)
  PROVE  IInv' /\ KeysKept
<1>0. TypeOK /\ WaitsOnce /\ EntriesOk
  BY Zenon DEF IInv
<1>1. /\ entries[a].state \in Open /\ Persist([entries EXCEPT ![a].checking = TRUE])
      /\ UNCHANGED <<draft, watch, server, keys>>
  BY Zenon DEF Resynced
<1>2. PICK c \in Calls : /\ calls[c] = Free
                         /\ calls' = [calls EXCEPT ![c] = [Free EXCEPT !.at = "out", !.kind = "status", !.origin = "resync",
                                                             !.attempt = a, !.key = entries[a].key]]
  BY Zenon DEF Resynced, Start
<1>3. PICK k \in 0..MaxKeys : k = entries[a].key
  BY Zenon, <1>0, Parts
<1>4. PICK x : x = [Free EXCEPT !.at = "out", !.kind = "status", !.origin = "resync", !.attempt = a, !.key = k]
  BY Zenon
<1>5. /\ x \in Call /\ x.at = "out" /\ x.origin = "resync" /\ x.attempt = a /\ x.key = k
      /\ x.result = "none" /\ x.asker = {}
  BY Zenon, <1>4, FreeFacts DEF Call
<1>6. calls' = [calls EXCEPT ![c] = x]
  BY Zenon, <1>2, <1>3, <1>4
<1>7. PICK e \in Entry : e = entries[a]
  BY Zenon, <1>0, Parts
<1>8. PICK f : f = [e EXCEPT !.checking = TRUE]
  BY Zenon
<1>9. f \in Entry /\ f.state = e.state /\ f.key = e.key /\ f.waiters = e.waiters
  BY Zenon, <1>8 DEF Entry
<1>10. entries' = [entries EXCEPT ![a] = f] /\ stored' = Kept(entries')
  BY Zenon, <1>1, <1>7, <1>8 DEF Persist
<1>11. entries'[a] = f /\ (\A b \in Attempts : b # a => entries'[b] = entries[b]) /\ entries' = [b \in Attempts |-> entries'[b]]
  BY Zenon, <1>0, <1>10 DEF TypeOK
<1>12. Follows(e, f)
  <2>1. e.state \in Open /\ EntryOk(e, keys)
    BY Zenon, <1>0, <1>1, <1>7 DEF EntriesOk
  <2>2. e.state \notin {"none", "dispatching", "sent"} /\ e.waiters = {}
    BY Zenon, <2>1 DEF Open, EntryOk
  <2> QED BY Zenon, <1>9, <2>2 DEF Follows
<1>13. AllFollow
  BY Zenon, <1>7, <1>11, <1>12, FollowsItself DEF AllFollow
<1>14. /\ \A b \in Attempts : entries'[b].waiters = entries[b].waiters
       /\ \A b \in Attempts : entries[b].state = "dispatching" => entries'[b].state = "dispatching"
  BY <1>7, <1>9, <1>11
<1>15. WaitsOnce'
  <2>1. calls'[c] = x /\ \A d \in Calls : d # c => calls'[d] = calls[d]
    BY Zenon, <1>0, <1>6 DEF TypeOK
  <2>2. \A d \in Calls : calls'[d].asker = calls[d].asker
    BY Zenon, <1>2, <1>5, <2>1, FreeFacts
  <2>3. \A d \in Calls : calls'[d].at = "free" => calls'[d] = Free
    BY <1>0, <1>5, <2>1 DEF WaitsOnce
  <2> QED BY <1>0, <1>1, <1>14, <2>2, <2>3 DEF WaitsOnce
<1> HIDE DEF Free
<1> QED BY ZenonT(40), <1>0, <1>1, <1>2, <1>3, <1>5, <1>6, <1>10, <1>13, <1>14, <1>15, NewCall DEF TypeOK

\* A new attempt is stored and its message posted.
LEMMA NewSend ==
  ASSUME PhoneAssumption, IInv, NEW q \in Requests, NEW a \in Attempts, watch[q] = "unsent", ~Exists(a), ~Busy,
         keys < MaxKeys, keys' = keys + 1,
         Persist([entries EXCEPT ![a] = [NoEntry EXCEPT !.state = "dispatching", !.key = keys + 1, !.waiters = {q}]]),
         watch' = [watch EXCEPT ![q] = "asked"], NEW c \in Calls, NEW at \in {"priming", "out"}, calls[c] = Free,
         Start(c, [Free EXCEPT !.at = at, !.attempt = a, !.key = keys + 1, !.tries = 1]),
         UNCHANGED <<draft, server>>
  PROVE  IInv' /\ KeysKept
<1>0. TypeOK /\ EntriesOk /\ KeysApart /\ CallsOk /\ SendsApart /\ Dispatches /\ WaitsOnce /\ ServerTrue
  BY Zenon DEF IInv
<1>1. keys \in Nat /\ MaxKeys \in Nat /\ PostAttempts \in Nat /\ PostAttempts > 0
  BY <1>0, Parts DEF PhoneAssumption
<1>2. PICK k : k = keys + 1
  BY Zenon
<1>3. k \in 1..MaxKeys /\ k \in 0..MaxKeys /\ k # 0 /\ k \in Nat /\ k > keys /\ k \in 1..k /\ 1 \in 0..PostAttempts
  BY <1>1, <1>2
<1>4. PICK f : f = [NoEntry EXCEPT !.state = "dispatching", !.key = k, !.waiters = {q}]
  BY Zenon
<1>5. f \in Entry /\ f.state = "dispatching" /\ f.key = k /\ f.waiters = {q}
  BY Zenon, <1>3, <1>4 DEF NoEntry, Entry
<1>6. ~f.op
  <2>1. f.op = NoEntry.op
    BY Zenon, <1>4 DEF NoEntry
  <2>2. ~NoEntry.op
    BY Zenon DEF NoEntry
  <2> QED BY <2>1, <2>2, Zenon
<1>7. PICK x : x = [Free EXCEPT !.at = at, !.attempt = a, !.key = k, !.tries = 1]
  OBVIOUS
<1>8. /\ x \in Call /\ x.at = at /\ x.attempt = a /\ x.key = k /\ x.origin = "send" /\ x.kind = "post"
      /\ x.result = "none" /\ x.asker = {}
  BY ZenonT(40), <1>3, <1>7, FreeFacts DEF Call
<1>9. keys' = k /\ entries' = [entries EXCEPT ![a] = f] /\ stored' = Kept(entries') /\ calls' = [calls EXCEPT ![c] = x]
  BY Zenon, <1>2, <1>4, <1>7 DEF Persist, Start
<1>10. entries' \in [Attempts -> Entry] /\ entries'[a] = f /\ \A b \in Attempts : b # a => entries'[b] = entries[b]
  BY Zenon, <1>0, <1>5, <1>9 DEF TypeOK
<1>11. calls' \in [Calls -> Call] /\ calls'[c] = x /\ \A d \in Calls : d # c => calls'[d] = calls[d]
  BY Zenon, <1>0, <1>8, <1>9 DEF TypeOK
<1>12. /\ entries[a] = NoEntry /\ entries[a].key = 0 /\ entries[a].waiters = {}
       /\ \A b \in Attempts : /\ entries[b].state # "dispatching" /\ entries[b].key \in Nat /\ entries[b].key <= keys
                              /\ entries[b].waiters = {} /\ EntryOk(entries[b], keys)
  <2>1. entries[a].state = "none" /\ \A b \in Attempts : entries[b].state # "dispatching"
    BY Zenon DEF Exists, Busy
  <2>2. \A b \in Attempts : EntryOk(entries[b], keys) /\ entries[b].key \in Nat
    BY Zenon, <1>0, Parts DEF EntriesOk
  <2>3. entries[a] = NoEntry
    BY Zenon, <2>1, <2>2 DEF EntryOk
  <2> QED BY Zenon, <1>0, <2>1, <2>2, <2>3, Parts DEF EntryOk
<1>13. watch' \in [Requests -> {"unsent", "asked", "answered", "answered_twice", "abandoned"}]
  BY <1>0 DEF TypeOK
<1>14. TypeOK'
  <2>1. stored' \in [Attempts -> Entry]
    BY Zenon, <1>9, <1>10, KeptFacts
  <2> QED BY Zenon, <1>0, <1>3, <1>9, <1>10, <1>11, <1>13, <2>1 DEF TypeOK
<1>15. EntriesOk'
  <2> SUFFICES ASSUME NEW b \in Attempts PROVE EntryOk(entries'[b], k)
    BY Zenon, <1>9 DEF EntriesOk, EntryOk
  <2>1. CASE b = a
    BY <1>3, <1>5, <1>6, <1>10, <2>1 DEF EntryOk
  <2>2. CASE b # a
    <3>1. entries[b].key <= k
      BY SMTT(40), <1>1, <1>3, <1>12
    <3> QED BY Zenon, <1>10, <1>12, <2>2, <3>1 DEF EntryOk
  <2> QED BY Zenon, <2>1, <2>2
<1>16. \A b \in Attempts : b # a => entries[b].key # k
  BY SMTT(40), <1>1, <1>3, <1>12
<1>17. KeysApart' /\ KeysKept
  BY <1>0, <1>5, <1>10, <1>12, <1>16 DEF KeysApart, KeysKept
<1>18. CallsOk'
  <2> SUFFICES ASSUME NEW d \in Calls PROVE CallOk(calls'[d], entries', k)
    BY <1>9 DEF CallsOk, CallOk
  <2>1. CASE d = c
    BY <1>3, <1>5, <1>8, <1>10, <1>11, <1>16, <2>1 DEF CallOk
  <2>2. CASE d # c
    <3>1. PICK y \in Call : y = calls[d]
      BY <1>0, Parts
    <3>2. CallOk(y, entries, keys) /\ y.attempt \in Attempts
      BY Zenon, <1>0, <3>1, Parts DEF CallsOk
    <3> SUFFICES ASSUME y.at # "free" PROVE CallOk(y, entries', k)
      BY <1>11, <2>2, <3>1 DEF CallOk
    <3>3. y.key \in 1..keys /\ y.key \in 1..k /\ y.key # k
      <4>1. y.key \in 1..keys
        BY Zenon, <3>2 DEF CallOk
      <4> QED BY <1>1, <1>2, <4>1
    <3>4. \A b \in Attempts : entries'[b].key = y.key => b # a /\ entries[b].key = y.key /\ entries'[b] = entries[b]
      BY Zenon, <1>5, <1>10, <3>3
    <3>5. y.at # "priming"
      BY Zenon, <1>12, <3>2 DEF CallOk
    <3> QED BY Zenon, <3>2, <3>3, <3>4, <3>5 DEF CallOk
  <2> QED BY Zenon, <2>1, <2>2
<1>19. SendsApart'
  <2>1. \A d \in Calls : calls[d].at # "free" => calls[d].key # k
    BY <1>0, <1>1, <1>2 DEF CallsOk, CallOk
  <2> QED BY SMTT(40), <1>0, <1>8, <1>11, <2>1 DEF SendsApart
<1>20. Dispatches'
  <2>1. \A b \in Attempts : entries'[b].state = "dispatching" => b = a
    BY Zenon, <1>10, <1>12
  <2>2. calls'[c].at # "free" /\ calls'[c].origin = "send" /\ calls'[c].key = entries'[a].key
    BY SMTT(40), <1>5, <1>8, <1>10, <1>11
  <2> QED BY Zenon, <2>1, <2>2 DEF Dispatches
<1>21. WaitsOnce'
  <2>1. \A p \in Requests : watch'[p] = IF p = q THEN "asked" ELSE watch[p]
    BY Zenon, <1>0 DEF TypeOK
  <2>2. \A d \in Calls : q \notin calls[d].asker /\ calls[d].asker \subseteq Requests
    BY Zenon, <1>0, Parts DEF WaitsOnce
  <2>3. \A b \in Attempts : entries'[b].waiters = IF b = a THEN {q} ELSE {}
    BY Zenon, <1>5, <1>10, <1>12
  <2>4. \A d \in Calls : calls'[d].asker = calls[d].asker
    BY Zenon, <1>8, <1>11, FreeFacts
  <2>5. \A d \in Calls : \A p \in calls[d].asker : watch'[p] = "asked"
    BY <1>0, <2>1, <2>2 DEF WaitsOnce
  <2>6. \A d \in Calls : calls'[d].at = "free" => calls'[d] = Free
    BY <1>0, <1>8, <1>11 DEF WaitsOnce
  <2>7. \A b \in Attempts : \A p \in entries'[b].waiters : watch'[p] = "asked"
    BY <2>1, <2>3
  <2>8. \A b \in Attempts, d \in Calls : entries'[b].waiters \cap calls'[d].asker = {}
    BY Zenon, <2>2, <2>3, <2>4
  <2> QED BY SMTT(40), <1>0, <2>1, <2>4, <2>5, <2>6, <2>7, <2>8 DEF WaitsOnce
<1>22. ServerTrue'
  <2>1. \A d \in Calls : calls'[d].result = "sent" /\ calls'[d].at # "free" => server[calls'[d].key].fate = "delivered"
    BY <1>0, <1>8, <1>11 DEF ServerTrue
  <2>2. \A b \in Attempts : entries'[b].state = "sent" => server[entries'[b].key].fate = "delivered"
    BY Zenon, <1>0, <1>5, <1>10 DEF ServerTrue, SentIsDelivered
  <2> QED BY <1>0, <2>1, <2>2 DEF ServerTrue, RowTrue, SentIsDelivered
<1>23. StoredIsKept'
  BY <1>9 DEF StoredIsKept, Kept
<1> QED BY Zenon, <1>14, <1>15, <1>17, <1>18, <1>19, <1>20, <1>21, <1>22, <1>23 DEF IInv

\* send
LEMMA SendStep ==
  ASSUME PhoneAssumption, IInv, NEW q \in Requests, NEW a \in Attempts, WatchSend(q, a)
  PROVE  IInv' /\ KeysKept
<1>0. watch[q] = "unsent" /\ UNCHANGED <<draft, server>> /\ draft \in BOOLEAN
  BY Zenon DEF WatchSend, IInv, TypeOK
<1>1. CASE watch' = Told({q}) /\ UNCHANGED <<entries, stored, calls, keys>>
  BY Zenon, <1>0, <1>1, TellStep
<1>2. CASE /\ entries[a].state = "dispatching" /\ entries' = [entries EXCEPT ![a].waiters = @ \cup {q}]
           /\ watch' = [watch EXCEPT ![q] = "asked"] /\ UNCHANGED <<stored, calls, keys>>
  BY Zenon, <1>0, <1>2, JoinStep
<1>3. CASE /\ ~Exists(a) /\ ~Busy /\ keys < MaxKeys /\ keys' = keys + 1
           /\ Persist([entries EXCEPT ![a] = [NoEntry EXCEPT !.state = "dispatching", !.key = keys + 1, !.waiters = {q}]])
           /\ watch' = [watch EXCEPT ![q] = "asked"]
           /\ \E c \in Calls, at \in {"priming", "out"} :
                /\ calls[c] = Free
                /\ Start(c, [Free EXCEPT !.at = at, !.attempt = a, !.key = keys + 1, !.tries = 1])
  BY Zenon, <1>0, <1>3, NewSend
<1> QED BY Zenon, <1>1, <1>2, <1>3 DEF WatchSend

-----------------------------------------------------------------------------
(***************************************************************************)
(* Calls under way, and calls that end.                                    *)
(***************************************************************************)
\* A call goes on, and backend-api may serve it.
LEMMA CallStep ==
  ASSUME PhoneAssumption, IInv, NEW c \in Calls, calls[c].at # "free", NEW y \in Call,
         calls' = [calls EXCEPT ![c] = y], y.at \notin {"free", "priming"}, y.key = calls[c].key,
         y.attempt = calls[c].attempt, y.origin = calls[c].origin, y.kind = calls[c].kind, y.asker = calls[c].asker,
         y.at = "timer" => y.tries < PostAttempts,
         UNCHANGED <<draft, entries, stored, watch, keys>>,
         server' \in [1..MaxKeys -> Row], \A k \in 1..MaxKeys : RowTrue(k)',
         \A k \in 1..MaxKeys : server[k].fate = "delivered" => server'[k].fate = "delivered",
         y.result = "sent" => server'[y.key].fate = "delivered"
  PROVE  IInv' /\ KeysKept
<1>0. TypeOK /\ EntriesOk /\ KeysApart /\ CallsOk /\ SendsApart /\ Dispatches /\ WaitsOnce /\ ServerTrue /\ StoredIsKept
  BY Zenon DEF IInv
<1>1. calls' \in [Calls -> Call] /\ calls'[c] = y /\ \A d \in Calls : d # c => calls'[d] = calls[d]
  BY Zenon, <1>0 DEF TypeOK
<1>2. TypeOK'
  BY Zenon, <1>0, <1>1 DEF TypeOK
<1>3. EntriesOk' /\ KeysApart' /\ StoredIsKept' /\ KeysKept
  BY Zenon, <1>0 DEF EntriesOk, EntryOk, KeysApart, StoredIsKept, Kept, KeysKept
<1>4. CallsOk'
  <2> SUFFICES ASSUME NEW d \in Calls PROVE CallOk(calls'[d], entries, keys)
    BY DEF CallsOk, CallOk
  <2>1. CallOk(calls[c], entries, keys) /\ CallOk(calls[d], entries, keys)
    BY Zenon, <1>0 DEF CallsOk
  <2>2. CASE d = c
    BY <1>1, <2>1, <2>2 DEF CallOk
  <2>3. CASE d # c
    BY Zenon, <1>1, <2>1, <2>3
  <2> QED BY Zenon, <2>2, <2>3
<1>5. SendsApart'
  <2>1. \A d \in Calls : /\ calls'[d].at # "free" <=> calls[d].at # "free"
                         /\ calls'[d].key = calls[d].key /\ calls'[d].origin = calls[d].origin
    BY Zenon, <1>1
  <2> QED BY <1>0, <2>1 DEF SendsApart
<1>6. Dispatches'
  <2>1. \A d \in Calls : /\ calls'[d].at # "free" <=> calls[d].at # "free"
                         /\ calls'[d].key = calls[d].key /\ calls'[d].origin = calls[d].origin
    BY Zenon, <1>1
  <2> QED BY SMTT(40), <1>0, <2>1 DEF Dispatches
<1>7. WaitsOnce'
  <2>1. \A d \in Calls : calls'[d].asker = calls[d].asker /\ (calls'[d].at = "free" => calls'[d] = Free)
    BY <1>0, <1>1 DEF WaitsOnce
  <2> QED BY SMTT(40), <1>0, <2>1 DEF WaitsOnce
<1>8. ServerTrue'
  <2>0. \A d \in Calls : calls[d].at # "free" => calls[d].key \in 1..MaxKeys
    <3> SUFFICES ASSUME NEW d \in Calls, calls[d].at # "free" PROVE calls[d].key \in 1..MaxKeys
      BY Zenon
    <3>1. calls[d].key \in 1..keys
      BY Zenon, <1>0 DEF CallsOk, CallOk
    <3>2. keys \in Nat /\ keys <= MaxKeys /\ MaxKeys \in Nat
      BY Zenon, <1>0, Parts
    <3> QED BY <3>1, <3>2
  <2>1. \A d \in Calls : calls'[d].result = "sent" /\ calls'[d].at # "free" => server'[calls'[d].key].fate = "delivered"
    BY <1>0, <1>1, <2>0 DEF ServerTrue
  <2>2. ASSUME NEW a \in Attempts, entries[a].state = "sent" PROVE server'[entries[a].key].fate = "delivered"
    <3>1. entries[a].key \in 0..MaxKeys /\ entries[a].key # 0 /\ MaxKeys \in Nat
      BY SMTT(40), <1>0, <2>2, Parts DEF EntriesOk, EntryOk
    <3>2. entries[a].key \in 1..MaxKeys
      BY <3>1
    <3> QED BY Zenon, <1>0, <2>2, <3>2 DEF ServerTrue, SentIsDelivered
  <2> QED BY Zenon, <2>1, <2>2 DEF ServerTrue, SentIsDelivered
<1> QED BY <1>2, <1>3, <1>4, <1>5, <1>6, <1>7, <1>8 DEF IInv

\* What a call in flight has.
LEMMA InFlight ==
  ASSUME PhoneAssumption, IInv, NEW c \in Calls, calls[c].at # "free"
  PROVE  /\ calls[c] \in Call /\ calls[c].key \in 1..MaxKeys /\ server[calls[c].key] \in Row
         /\ CallOk(calls[c], entries, keys) /\ RowTrue(calls[c].key)
<1>0. TypeOK /\ CallsOk /\ ServerTrue
  BY Zenon DEF IInv
<1>1. calls[c] \in Call /\ CallOk(calls[c], entries, keys)
  BY Zenon, <1>0, Parts DEF CallsOk
<1>2. calls[c].key \in 1..keys
  BY Zenon, <1>1 DEF CallOk
<1>3. keys \in Nat /\ keys <= MaxKeys /\ MaxKeys \in Nat
  BY Zenon, <1>0, Parts
<1>4. calls[c].key \in 1..MaxKeys
  BY <1>2, <1>3
<1> QED BY Zenon, <1>0, <1>1, <1>4 DEF TypeOK, ServerTrue

\* A call comes back with a result.
LEMMA BackStep ==
  ASSUME PhoneAssumption, IInv, NEW c \in Calls, calls[c].at # "free", NEW r \in Results,
         Start(c, [calls[c] EXCEPT !.at = "back", !.result = r]),
         UNCHANGED <<draft, entries, stored, watch, keys>>,
         server' \in [1..MaxKeys -> Row], \A k \in 1..MaxKeys : RowTrue(k)',
         \A k \in 1..MaxKeys : server[k].fate = "delivered" => server'[k].fate = "delivered",
         r = "sent" => server'[calls[c].key].fate = "delivered"
  PROVE  IInv' /\ KeysKept
<1>1. PICK x \in Call : x = calls[c]
  BY Zenon, InFlight
<1>2. PICK y : y = [x EXCEPT !.at = "back", !.result = r]
  BY Zenon
<1>3. /\ y \in Call /\ y.at = "back" /\ y.result = r /\ y.key = x.key /\ y.attempt = x.attempt
      /\ y.origin = x.origin /\ y.kind = x.kind /\ y.asker = x.asker
  BY Zenon, <1>2 DEF Call
<1>4. calls' = [calls EXCEPT ![c] = y]
  BY <1>1, <1>2 DEF Start
<1> QED BY Zenon, <1>1, <1>3, <1>4, CallStep

\* backend-api refuses or loses a call.
LEMMA RefuseStep ==
  ASSUME PhoneAssumption, IInv, NEW c \in Calls, ApiRefuses(c) \/ ApiLoses(c)
  PROVE  IInv' /\ KeysKept
<1>1. calls[c].at # "free" /\ UNCHANGED <<draft, entries, stored, watch, keys, server>>
  BY Zenon DEF ApiRefuses, ApiLoses
<1>2. PICK r \in {"limited", "fatal", "refused", "missing", "lost"} :
        Start(c, [calls[c] EXCEPT !.at = "back", !.result = r])
  BY Zenon DEF ApiRefuses, ApiLoses
<1>3. r \in Results /\ r # "sent"
  BY Zenon DEF Results
<1>4. server' \in [1..MaxKeys -> Row] /\ \A k \in 1..MaxKeys : RowTrue(k)'
  BY Zenon, <1>1 DEF IInv, TypeOK, ServerTrue, RowTrue
<1> QED BY Zenon, <1>1, <1>2, <1>3, <1>4, BackStep

\* backend-api serves a call.
LEMMA ServeStep ==
  ASSUME PhoneAssumption, IInv, NEW c \in Calls, ApiServes(c)
  PROVE  IInv' /\ KeysKept
<1>0. TypeOK /\ ServerTrue /\ calls[c].at # "free" /\ UNCHANGED <<draft, entries, stored, watch, keys>>
  BY Zenon DEF IInv, ApiServes
<1>1. PICK k \in 1..MaxKeys : k = calls[c].key
  BY Zenon, <1>0, InFlight
<1>2. server \in [1..MaxKeys -> Row] /\ server[k] \in Row /\ \A i \in 1..MaxKeys : RowTrue(i)
  BY Zenon, <1>0 DEF TypeOK, ServerTrue
<1>3. CASE calls[c].kind = "post" /\ server[k].state = "none"
  <2>1. PICK s \in Open \cup Settled :
          /\ server' = [server EXCEPT ![k] = [state |-> s,
                             fate |-> CASE s = "sent" -> "delivered" [] s = "failed" -> "dead"
                                        [] OTHER -> "live"]]
          /\ Start(c, [calls[c] EXCEPT !.at = "back", !.result = s])
    BY Zenon, <1>1, <1>3 DEF ApiServes
  <2>2. PICK f \in {"live", "delivered", "dead"} : f = CASE s = "sent" -> "delivered" [] s = "failed" -> "dead" [] OTHER -> "live"
    BY Zenon
  <2>3. s = "sent" => f = "delivered"
    BY Zenon, <2>2
  <2>4. server' = [server EXCEPT ![k] = [state |-> s, fate |-> f]] /\ [state |-> s, fate |-> f] \in Row
    BY Zenon, <2>1, <2>2 DEF Row
  <2>5. /\ server' \in [1..MaxKeys -> Row] /\ server'[k].state = s /\ server'[k].fate = f
        /\ \A i \in 1..MaxKeys : i # k => server'[i] = server[i]
    BY Zenon, <1>2, <2>4
  <2>6. s \in Results /\ s # "none"
    BY Zenon DEF Results, Open, Settled
  <2>7. \A i \in 1..MaxKeys : RowTrue(i)'
    BY Zenon, <1>2, <2>3, <2>5, <2>6 DEF RowTrue
  <2>8. server[k].fate = "live"
    BY Zenon, <1>2, <1>3 DEF RowTrue
  <2>9. \A i \in 1..MaxKeys : server[i].fate = "delivered" => server'[i].fate = "delivered"
    BY Zenon, <2>5, <2>8
  <2> QED BY Zenon, <1>0, <1>1, <2>1, <2>3, <2>5, <2>6, <2>7, <2>9, BackStep
<1>4. CASE ~(calls[c].kind = "post" /\ server[k].state = "none")
  <2>1. server' = server /\ Start(c, [calls[c] EXCEPT !.at = "back", !.result = server[k].state])
    BY Zenon, <1>1, <1>4 DEF ApiServes
  <2>2. PICK s \in Results : s = server[k].state
    BY Zenon, <1>2 DEF Row, Results, Open
  <2>3. s = "sent" => server[k].fate = "delivered"
    BY Zenon, <1>2, <2>2 DEF RowTrue
  <2>4. \A i \in 1..MaxKeys : RowTrue(i)'
    BY <1>2, <2>1 DEF RowTrue
  <2> QED BY Zenon, <1>0, <1>1, <1>2, <2>1, <2>2, <2>3, <2>4, BackStep
<1> QED BY Zenon, <1>3, <1>4

\* The row is settled, or the message delivered unnoticed.
LEMMA SettleStep ==
  ASSUME PhoneAssumption, IInv, NEW k \in 1..keys, ApiSettles(k)
  PROVE  IInv' /\ KeysKept
<1>0. TypeOK /\ ServerTrue /\ UNCHANGED <<draft, entries, stored, calls, watch, keys>>
  BY Zenon DEF IInv, ApiSettles
<1>1. k \in 1..MaxKeys /\ server \in [1..MaxKeys -> Row] /\ server[k] \in Row
  <2>1. keys \in Nat /\ keys <= MaxKeys /\ MaxKeys \in Nat
    BY Zenon, <1>0, Parts
  <2>2. k \in 1..MaxKeys
    BY <2>1
  <2> QED BY Zenon, <1>0, <2>2 DEF TypeOK
<1>2. PICK y \in Row : /\ server' = [server EXCEPT ![k] = y] /\ y.state # "none"
                       /\ y.state = "sent" => y.fate = "delivered"
                       /\ server[k].fate = "delivered" => y.fate = "delivered"
  <2>1. CASE /\ server[k].fate = "live"
             /\ \E fate \in {"delivered", "dead"} : server' = [server EXCEPT ![k].fate = fate]
    <3>1. PICK fate \in {"delivered", "dead"} : server' = [server EXCEPT ![k].fate = fate]
      BY Zenon, <2>1
    <3>2. PICK y : y = [server[k] EXCEPT !.fate = fate]
      BY Zenon
    <3>3. y \in Row /\ y.state = server[k].state /\ y.fate = fate
      BY Zenon, <1>1, <3>2 DEF Row
    <3>4. server[k].state \in Open
      BY Zenon DEF ApiSettles
    <3> QED BY Zenon, <2>1, <3>1, <3>2, <3>3, <3>4 DEF Open
  <2>2. CASE /\ server[k].fate # "live"
             /\ server' = [server EXCEPT ![k].state = IF server[k].fate = "delivered" THEN "sent" ELSE "failed"]
    <3>1. PICK s \in Settled : s = IF server[k].fate = "delivered" THEN "sent" ELSE "failed"
      BY Zenon DEF Settled
    <3>2. PICK y : y = [server[k] EXCEPT !.state = s]
      BY Zenon
    <3>3. y \in Row /\ y.state = s /\ y.fate = server[k].fate
      BY Zenon, <1>1, <3>2 DEF Row
    <3> QED BY Zenon, <2>2, <3>1, <3>2, <3>3 DEF Settled
  <2> QED BY Zenon, <2>1, <2>2 DEF ApiSettles
<1>3. server' \in [1..MaxKeys -> Row] /\ server'[k] = y /\ \A i \in 1..MaxKeys : i # k => server'[i] = server[i]
  BY Zenon, <1>1, <1>2
<1>4. /\ \A i \in 1..MaxKeys : RowTrue(i)'
      /\ \A i \in 1..MaxKeys : server[i].fate = "delivered" => server'[i].fate = "delivered"
  BY Zenon, <1>0, <1>2, <1>3 DEF RowTrue, ServerTrue
<1>5. TypeOK'
  BY Zenon, <1>0, <1>3 DEF TypeOK
<1>6. ServerTrue'
  <2>1. ASSUME NEW c \in Calls, calls[c].result = "sent", calls[c].at # "free"
        PROVE  server'[calls[c].key].fate = "delivered"
    BY Zenon, <1>0, <1>4, <2>1, InFlight DEF ServerTrue
  <2>2. ASSUME NEW a \in Attempts, entries[a].state = "sent" PROVE server'[entries[a].key].fate = "delivered"
    <3>1. entries[a].key \in 0..MaxKeys /\ entries[a].key # 0 /\ MaxKeys \in Nat
      BY Zenon, <1>0, <2>2, Parts DEF EntriesOk, EntryOk, IInv
    <3>2. entries[a].key \in 1..MaxKeys
      BY <3>1
    <3> QED BY Zenon, <1>0, <1>4, <2>2, <3>2 DEF ServerTrue, SentIsDelivered
  <2> QED BY Zenon, <1>0, <1>4, <2>1, <2>2 DEF ServerTrue, SentIsDelivered
<1>7. EntriesOk' /\ KeysApart' /\ StoredIsKept' /\ KeysKept
  BY Zenon, <1>0 DEF EntriesOk, EntryOk, KeysApart, StoredIsKept, Kept, KeysKept, IInv
<1>8. CallsOk' /\ SendsApart' /\ Dispatches' /\ WaitsOnce'
  BY <1>0 DEF CallsOk, CallOk, SendsApart, Dispatches, WaitsOnce, IInv
<1> QED BY Zenon, <1>5, <1>6, <1>7, <1>8 DEF IInv

\* A call ends: only its own entry changes, and that no longer dispatches.
LEMMA EndStep ==
  ASSUME PhoneAssumption, IInv, AllFollow, NEW c \in Calls, calls[c].at # "free",
         calls' = [calls EXCEPT ![c] = Free], UNCHANGED <<draft, server, keys>>, stored' = Kept(entries'), WaitsOnce',
         watch' \in [Requests -> {"unsent", "asked", "answered", "answered_twice", "abandoned"}],
         \A b \in Attempts : b # calls[c].attempt \/ ~Current(c) => entries'[b] = entries[b],
         Current(c) => entries'[calls[c].attempt].state # "dispatching"
  PROVE  IInv' /\ KeysKept
<1>0. TypeOK /\ EntriesOk /\ KeysApart /\ CallsOk /\ SendsApart /\ Dispatches /\ ServerTrue
  BY Zenon DEF IInv
<1>1. /\ entries' \in [Attempts -> Entry] /\ EntriesOk' /\ KeysApart' /\ SentIsDelivered' /\ KeysKept
      /\ \A b, d \in Attempts : entries'[b].state = "dispatching" /\ entries'[d].state = "dispatching" => b = d
      /\ \A b \in Attempts : entries'[b].state = "dispatching" =>
           entries[b].state = "dispatching" /\ entries'[b].key = entries[b].key
  BY Zenon, EntriesFollow
<1>2. calls' \in [Calls -> Call] /\ calls'[c] = Free /\ \A d \in Calls : d # c => calls'[d] = calls[d]
  BY Zenon, <1>0, FreeFacts DEF TypeOK
<1>3. TypeOK'
  <2>1. stored' \in [Attempts -> Entry]
    BY Zenon, <1>1, KeptFacts
  <2> QED BY Zenon, <1>0, <1>1, <1>2, <2>1 DEF TypeOK
<1>4. \A b \in Attempts : entries'[b].key \in {0, entries[b].key}
  BY Zenon, <1>0, <1>1, Parts DEF KeysKept, AllFollow, Follows
<1>5. PICK x \in Call : x = calls[c] /\ x.attempt \in Attempts
  BY Zenon, <1>0, Parts
<1>6. CallOk(x, entries, keys) /\ keys \in Nat /\ x.at # "free"
  BY Zenon, <1>0, <1>5, Parts DEF CallsOk
<1>7. CallsOk'
  <2> SUFFICES ASSUME NEW d \in Calls PROVE CallOk(calls'[d], entries', keys)
    BY DEF CallsOk, CallOk
  <2>1. CASE d = c
    BY Zenon, <1>2, <2>1, FreeFacts DEF CallOk
  <2>2. CASE d # c
    <3>1. PICK y \in Call : y = calls[d] /\ y.attempt \in Attempts
      BY Zenon, <1>0, Parts
    <3>2. CallOk(y, entries, keys)
      BY Zenon, <1>0, <3>1 DEF CallsOk
    <3> SUFFICES ASSUME y.at # "free" PROVE CallOk(y, entries', keys)
      BY Zenon, <1>2, <2>2, <3>1 DEF CallOk
    <3>3. PICK es : es = entries
      BY Zenon
    <3>4. PICK fs : fs = entries'
      BY Zenon
    <3>5. \A b \in Attempts : fs[b].key \in {0, es[b].key}
      BY SMTT(40), <1>4, <3>3, <3>4
    <3>6. CASE y.attempt # x.attempt \/ ~Current(c)
      <4>1. fs[y.attempt] = es[y.attempt]
        BY Zenon, <1>5, <3>1, <3>3, <3>4, <3>6
      <4> QED BY <1>6, <3>2, <3>3, <3>4, <3>5, <4>1, CallKeeps
    <3>7. CASE y.attempt = x.attempt /\ Current(c)
      <4>1. es[x.attempt].key = x.key
        BY Zenon, <1>5, <3>3, <3>7 DEF Current
      <4>2. fs[x.attempt].state # "dispatching"
        BY Zenon, <1>5, <3>4, <3>7
      <4>3. y.key = x.key => es[x.attempt].state # "dispatching"
        <5> SUFFICES ASSUME y.key = x.key, es[x.attempt].state = "dispatching" PROVE FALSE
          BY Zenon
        <5>1. x.origin = "send" /\ y.origin = "send"
          BY Zenon, <1>6, <3>2, <3>3, <3>7, <4>1 DEF CallOk
        <5> QED BY Zenon, <1>0, <1>5, <1>6, <2>2, <3>1, <5>1 DEF SendsApart
      <4>4. y.key # 0
        BY <3>2 DEF CallOk
      <4>5. fs[y.attempt].key = y.key => es[y.attempt].state # "dispatching" /\ fs[y.attempt].state # "dispatching"
        BY Zenon, <3>1, <3>5, <3>7, <4>1, <4>2, <4>3, <4>4
      <4>6. y.at # "priming"
        <5> SUFFICES ASSUME y.at = "priming" PROVE FALSE
          BY Zenon
        <5>1. y.origin = "send" /\ es[y.attempt].key = y.key /\ es[y.attempt].state = "dispatching"
          BY Zenon, <3>2, <3>3 DEF CallOk
        <5> QED BY Zenon, <3>7, <4>1, <4>3, <5>1
      <4> QED BY SMTT(40), <1>6, <3>2, <3>3, <3>4, <3>5, <4>5, <4>6, CallKeeps
    <3> QED BY Zenon, <3>6, <3>7
  <2> QED BY Zenon, <2>1, <2>2
<1>8. SendsApart'
  BY <1>0, <1>2, FreeFacts DEF SendsApart
<1>9. Dispatches'
  <2>1. ASSUME NEW b \in Attempts, entries'[b].state = "dispatching"
        PROVE  \E d \in Calls : calls'[d].at # "free" /\ calls'[d].origin = "send" /\ calls'[d].key = entries'[b].key
    <3>1. PICK d \in Calls : calls[d].at # "free" /\ calls[d].origin = "send" /\ calls[d].key = entries[b].key
      BY Zenon, <1>0, <1>1, <2>1 DEF Dispatches
    <3>2. d # c
      <4> SUFFICES ASSUME d = c PROVE FALSE
        BY Zenon
      <4>1. entries[b].key = x.key
        BY Zenon, <1>5, <3>1
      <4>2. b = x.attempt
        BY Zenon, <1>6, <4>1 DEF CallOk
      <4> QED BY Zenon, <1>5, <2>1, <4>1, <4>2 DEF Current
    <3> QED BY <1>1, <1>2, <2>1, <3>1, <3>2
  <2> QED BY Zenon, <1>1, <2>1 DEF Dispatches
<1>10. ServerTrue'
  <2>1. \A d \in Calls : calls'[d].result = "sent" /\ calls'[d].at # "free" => server[calls'[d].key].fate = "delivered"
    BY Zenon, <1>0, <1>2, FreeFacts DEF ServerTrue
  <2> QED BY Zenon, <1>0, <1>1, <2>1 DEF ServerTrue, RowTrue
<1>11. StoredIsKept'
  BY Zenon DEF StoredIsKept, Kept
<1> QED BY Zenon, <1>1, <1>3, <1>7, <1>8, <1>9, <1>10, <1>11 DEF IInv

\* The waiters of the call's entry and its asker wait nowhere else.
LEMMA WaitersApart ==
  ASSUME PhoneAssumption, IInv, NEW c \in Calls, NEW a \in Attempts
  PROVE  /\ \A b \in Attempts : b # a => entries[b].waiters \cap entries[a].waiters = {}
         /\ \A q \in entries[a].waiters \cup calls[c].asker : q \in Requests /\ watch[q] = "asked"
<1>1. TypeOK /\ EntriesOk /\ Dispatches /\ WaitsOnce
  BY Zenon DEF IInv
<1>2. \A b \in Attempts : entries[b].waiters # {} => entries[b].state = "dispatching"
  BY Zenon, <1>1 DEF EntriesOk, EntryOk
<1>3. \A b \in Attempts : b # a => entries[b].waiters \cap entries[a].waiters = {}
  BY Zenon, <1>1, <1>2 DEF Dispatches
<1>4. entries[a].waiters \subseteq Requests /\ calls[c].asker \subseteq Requests
  BY Zenon, <1>1, Parts
<1> QED BY Zenon, <1>1, <1>3, <1>4 DEF WaitsOnce

\* A call ends and answers the requests qs, who waited for it.
LEMMA AnswersStep ==
  ASSUME PhoneAssumption, IInv, NEW c \in Calls, calls[c].at # "free", NEW a \in Attempts, a = calls[c].attempt,
         NEW qs, qs \subseteq entries[a].waiters \cup calls[c].asker, watch' = Told(qs),
         calls' = [calls EXCEPT ![c] = Free], AllFollow,
         \A b \in Attempts : b # a => entries'[b] = entries[b], entries'[a].waiters \subseteq entries[a].waiters \ qs
  PROVE  WaitsOnce' /\ watch' \in [Requests -> {"unsent", "asked", "answered", "answered_twice", "abandoned"}]
<1>0. TypeOK /\ WaitsOnce
  BY Zenon DEF IInv
<1>1. /\ \A b \in Attempts : b # a => entries[b].waiters \cap entries[a].waiters = {}
      /\ \A q \in entries[a].waiters \cup calls[c].asker : q \in Requests /\ watch[q] = "asked"
  BY Zenon, WaitersApart
<1>2. calls'[c] = Free /\ \A d \in Calls : d # c => calls'[d] = calls[d]
  BY Zenon, <1>0, FreeFacts DEF TypeOK
<1>3. \A q \in qs : q \in Requests /\ watch[q] \in {"unsent", "asked"}
  BY Zenon, <1>1
<1>4. \A b \in Attempts : entries'[b].waiters \subseteq entries[b].waiters /\ entries'[b].waiters \cap qs = {}
  <2> SUFFICES ASSUME NEW b \in Attempts
               PROVE  entries'[b].waiters \subseteq entries[b].waiters /\ entries'[b].waiters \cap qs = {}
    BY Zenon
  <2>1. CASE b = a
    BY Zenon, <2>1
  <2>2. CASE b # a
    <3>1. entries[b].waiters \cap calls[c].asker = {}
      BY Zenon, <1>0 DEF WaitsOnce
    <3> QED BY Zenon, <1>1, <2>2, <3>1
  <2> QED BY Zenon, <2>1, <2>2
<1>5. \A d \in Calls : calls'[d].asker \subseteq calls[d].asker /\ calls'[d].asker \cap qs = {}
  <2> SUFFICES ASSUME NEW d \in Calls
               PROVE  calls'[d].asker \subseteq calls[d].asker /\ calls'[d].asker \cap qs = {}
    BY Zenon
  <2>1. CASE d = c
    BY Zenon, <1>2, <2>1, FreeFacts
  <2>2. CASE d # c
    <3>1. calls[d].asker \cap calls[c].asker = {} /\ entries[a].waiters \cap calls[d].asker = {}
      BY Zenon, <1>0, <2>2 DEF WaitsOnce
    <3> QED BY Zenon, <1>2, <2>2, <3>1
  <2> QED BY Zenon, <2>1, <2>2
<1>6. \A d \in Calls : calls'[d].at = "free" => calls'[d] = Free
  BY Zenon, <1>0, <1>2 DEF WaitsOnce
<1> HIDE DEF Free
<1> QED BY Zenon, <1>3, <1>4, <1>5, <1>6, WaitsLeave

\* Finished: the entry is saved and those who wait are answered.
LEMMA FinishedStep ==
  ASSUME PhoneAssumption, IInv, NEW c \in Calls, calls[c].at # "free", NEW g, Finished(c, g),
         UNCHANGED <<draft, server, keys>>,
         Current(c) => /\ g \in Entry /\ g.key = Mine(c).key /\ g.waiters = Mine(c).waiters
                       /\ g.state \notin {"none", "dispatching"}
                       /\ g.state = "sent" => server[g.key].fate = "delivered"
  PROVE  IInv' /\ KeysKept
<1>0. TypeOK /\ EntriesOk /\ WaitsOnce
  BY Zenon DEF IInv
<1>1. PICK x \in Call : x = calls[c] /\ x.attempt \in Attempts
  BY Zenon, <1>0, Parts
<1>2. PICK a \in Attempts : a = x.attempt
  BY Zenon, <1>1
<1>3. CallOk(x, entries, keys)
  BY Zenon, <1>1, InFlight
<1>4. calls' = [calls EXCEPT ![c] = Free] /\ stored' = Kept(entries')
  BY Zenon DEF Finished, Start, Persist
<1>5. CASE ~Current(c)
  <2>1. entries' = [entries EXCEPT ![a] = entries[a]] /\ watch' = Told(calls[c].asker \cup {})
    BY Zenon, <1>1, <1>2, <1>5 DEF Finished, Persist, Changed
  <2>2. entries' = entries
    BY Zenon, <1>0, <2>1 DEF TypeOK
  <2>3. watch' = Told(calls[c].asker)
    <3>1. calls[c].asker \cup {} = calls[c].asker
      BY Zenon
    <3> QED BY Zenon, <2>1, <3>1
  <2>4. AllFollow
    <3>1. entries' = [b \in Attempts |-> entries'[b]]
      BY Zenon, <1>0, <2>2 DEF TypeOK
    <3> QED BY Zenon, <2>2, <3>1, FollowsItself DEF AllFollow
  <2>5. entries[a].waiters \cap calls[c].asker = {}
    BY Zenon, <1>0 DEF WaitsOnce
  <2>6. WaitsOnce' /\ watch' \in [Requests -> {"unsent", "asked", "answered", "answered_twice", "abandoned"}]
    BY Zenon, <1>1, <1>2, <1>4, <2>2, <2>3, <2>4, <2>5, AnswersStep
  <2> QED BY Zenon, <1>4, <1>5, <2>2, <2>4, <2>6, EndStep
<1>6. CASE Current(c)
  <2>1. PICK e \in Entry : e = entries[a]
    BY Zenon, <1>0, Parts
  <2>2. /\ g \in Entry /\ g.key = e.key /\ g.waiters = e.waiters /\ g.state \notin {"none", "dispatching"}
        /\ g.state = "sent" => server[g.key].fate = "delivered"
    BY Zenon, <1>1, <1>2, <1>6, <2>1 DEF Mine
  <2>3. PICK w : w = IF x.origin = "send" THEN {} ELSE g.waiters
    BY Zenon
  <2>4. PICK ch \in BOOLEAN : ch = IF x.origin = "resync" THEN FALSE ELSE g.checking
    BY Zenon, <2>2 DEF Entry
  <2>5. e.key = x.key /\ EntryOk(e, keys) /\ (x.origin = "send" <=> e.state = "dispatching")
    BY Zenon, <1>0, <1>1, <1>2, <1>3, <1>6, <2>1 DEF EntriesOk, Current, CallOk
  <2>6. w = {} /\ (x.origin # "send" => e.waiters = {}) /\ (x.origin = "send" => x.asker = {})
    BY Zenon, <1>1, <1>2, <1>3, <2>1, <2>2, <2>3, <2>5 DEF EntryOk, CallOk
  <2>7. PICK f : f = [g EXCEPT !.waiters = w, !.checking = ch]
    BY Zenon
  <2>8. f \in Entry /\ f.state = g.state /\ f.key = g.key /\ f.waiters = {}
    BY Zenon, <2>2, <2>6, <2>7 DEF Entry
  <2>9. entries' = [entries EXCEPT ![a] = f]
    BY Zenon, <1>1, <1>2, <1>6, <2>3, <2>4, <2>7 DEF Finished, Persist, Changed
  <2>10. entries'[a] = f /\ (\A b \in Attempts : b # a => entries'[b] = entries[b]) /\ entries' = [b \in Attempts |-> entries'[b]]
    BY Zenon, <1>0, <2>9 DEF TypeOK
  <2>11. Follows(e, f)
    <3>1. e.state # "none"
      BY SMTT(40), <1>3, <1>1, <1>2, <2>1, <2>5 DEF EntryOk, CallOk, NoEntry
    <3> QED BY Zenon, <2>2, <2>8, <3>1 DEF Follows
  <2>12. AllFollow
    BY Zenon, <2>1, <2>10, <2>11, FollowsItself DEF AllFollow
  <2>13. watch' = Told(calls[c].asker \cup IF x.origin = "send" THEN g.waiters ELSE {})
    BY Zenon, <1>1, <1>6 DEF Finished
  <2>14. PICK qs : qs = calls[c].asker \cup IF x.origin = "send" THEN g.waiters ELSE {}
    BY Zenon
  <2>15. qs \subseteq entries[a].waiters \cup calls[c].asker /\ entries'[a].waiters \subseteq entries[a].waiters \ qs
    BY Zenon, <2>1, <2>2, <2>8, <2>10, <2>14
  <2>16. watch' = Told(qs) /\ a = calls[c].attempt
    BY Zenon, <1>1, <1>2, <2>13, <2>14
  <2>17. \A b \in Attempts : b # a => entries'[b] = entries[b]
    BY Zenon, <2>10
  <2> HIDE DEF Free
  <2>18. WaitsOnce' /\ watch' \in [Requests -> {"unsent", "asked", "answered", "answered_twice", "abandoned"}]
    BY ONLY Zenon, PhoneAssumption, IInv, c \in Calls, calls[c].at # "free", a \in Attempts,
            <1>4, <2>12, <2>15, <2>16, <2>17, AnswersStep
  <2>19. entries'[calls[c].attempt].state # "dispatching"
    BY Zenon, <1>1, <1>2, <2>2, <2>8, <2>10
  <2>20. \A b \in Attempts : b # calls[c].attempt \/ ~Current(c) => entries'[b] = entries[b]
    BY Zenon, <1>6, <2>16, <2>17
  <2> QED BY ONLY Zenon, PhoneAssumption, IInv, c \in Calls, calls[c].at # "free", UNCHANGED <<draft, server, keys>>,
                  <1>4, <2>12, <2>18, <2>19, <2>20, EndStep
<1> QED BY Zenon, <1>5, <1>6

-----------------------------------------------------------------------------
(***************************************************************************)
(* Callbacks.                                                              *)
(***************************************************************************)
\* The entry of a call that ends, while it is still the one of its attempt.
LEMMA MineFacts ==
  ASSUME PhoneAssumption, IInv, NEW c \in Calls, calls[c].at # "free", Current(c)
  PROVE  /\ Mine(c) \in Entry /\ Mine(c).state # "none" /\ Mine(c).key = calls[c].key
         /\ calls[c].origin = "send" <=> Mine(c).state = "dispatching"
         /\ Mine(c).state = "sent" => server[Mine(c).key].fate = "delivered"
         /\ calls[c].result = "sent" => server[Mine(c).key].fate = "delivered"
<1>0. TypeOK /\ EntriesOk /\ ServerTrue
  BY Zenon DEF IInv
<1>1. calls[c].attempt \in Attempts /\ CallOk(calls[c], entries, keys) /\ calls[c].key # 0
  BY <1>0, Parts, InFlight
<1>2. PICK a \in Attempts : a = calls[c].attempt
  BY Zenon, <1>1
<1>3. entries[a] \in Entry /\ entries[a].key = calls[c].key /\ EntryOk(entries[a], keys)
  BY Zenon, <1>0, <1>2, Parts DEF EntriesOk, Current
<1>4. entries[a].state # "none"
  BY <1>1, <1>3 DEF EntryOk, NoEntry
<1>5. calls[c].origin = "send" <=> entries[a].state = "dispatching"
  BY Zenon, <1>1, <1>2, <1>3 DEF CallOk
<1>6. /\ entries[a].state = "sent" => server[entries[a].key].fate = "delivered"
      /\ calls[c].result = "sent" => server[calls[c].key].fate = "delivered"
  BY Zenon, <1>0 DEF ServerTrue, SentIsDelivered
<1> QED BY Zenon, <1>2, <1>3, <1>4, <1>5, <1>6 DEF Mine

\* A call ends with a state that backend-api answered.
LEMMA AppliedStep ==
  ASSUME PhoneAssumption, IInv, NEW c \in Calls, calls[c].at # "free", calls[c].result \in Open \cup Settled,
         Finished(c, Applied(Mine(c), calls[c].result)), UNCHANGED <<draft, server, keys>>
  PROVE  IInv' /\ KeysKept
<1>1. PICK s \in Open \cup Settled : s = calls[c].result
  BY Zenon
<1>2. PICK g : g = Applied(Mine(c), s)
  BY Zenon
<1>3. ASSUME Current(c)
      PROVE  /\ g \in Entry /\ g.key = Mine(c).key /\ g.waiters = Mine(c).waiters
             /\ g.state \notin {"none", "dispatching"}
             /\ g.state = "sent" => server[g.key].fate = "delivered"
  <2>1. PICK e : e = Mine(c)
    BY Zenon
  <2>2. /\ e \in Entry /\ e.state # "none"
        /\ e.state = "sent" => server[e.key].fate = "delivered"
        /\ s = "sent" => server[e.key].fate = "delivered"
    BY Zenon, <1>1, <1>3, <2>1, MineFacts
  <2>3. /\ g \in Entry /\ g.key = e.key /\ g.waiters = e.waiters
        /\ g.state = IF e.state = "sent" \/ (e.state = "failed" /\ s # "failed") THEN e.state ELSE s
    BY <1>2, <2>1, <2>2, AppliedFacts
  <2> QED BY Zenon, <2>1, <2>2, <2>3 DEF Open, Settled
<1>4. Finished(c, g)
  BY Zenon, <1>1, <1>2
<1> QED BY Zenon, <1>3, <1>4, FinishedStep

\* A call ends without an answer, or refused.
LEMMA GivenUpStep ==
  ASSUME PhoneAssumption, IInv, NEW c \in Calls, calls[c].at # "free", NEW s \in {"unknown", "failed"},
         Finished(c, [Mine(c) EXCEPT !.state = s]), UNCHANGED <<draft, server, keys>>
  PROVE  IInv' /\ KeysKept
<1>1. PICK g : g = [Mine(c) EXCEPT !.state = s]
  BY Zenon
<1>2. ASSUME Current(c)
      PROVE  /\ g \in Entry /\ g.key = Mine(c).key /\ g.waiters = Mine(c).waiters
             /\ g.state \notin {"none", "dispatching"}
             /\ g.state = "sent" => server[g.key].fate = "delivered"
  <2>1. PICK e \in Entry : e = Mine(c)
    BY Zenon, <1>2, MineFacts
  <2>2. g \in Entry /\ g.key = e.key /\ g.waiters = e.waiters /\ g.state = s
    BY Zenon, <1>1, <2>1 DEF Entry, Open, Settled
  <2> QED BY Zenon, <2>1, <2>2
<1> QED BY Zenon, <1>1, <1>2, FinishedStep

\* A fatal error ends a send: its entry is forgotten.
LEMMA FatalStep ==
  ASSUME PhoneAssumption, IInv, NEW c \in Calls, calls[c].at # "free", calls[c].origin = "send", Current(c),
         Persist([entries EXCEPT ![calls[c].attempt] = NoEntry]), watch' = Told(Mine(c).waiters), Start(c, Free),
         UNCHANGED <<draft, server, keys>>
  PROVE  IInv' /\ KeysKept
<1>0. TypeOK
  BY Zenon DEF IInv
<1>1. PICK a \in Attempts : a = calls[c].attempt
  BY Zenon, <1>0, Parts
<1>2. entries' = [entries EXCEPT ![a] = NoEntry] /\ stored' = Kept(entries') /\ calls' = [calls EXCEPT ![c] = Free]
  BY Zenon, <1>1 DEF Persist, Start
<1>3. /\ entries'[a] = NoEntry /\ (\A b \in Attempts : b # a => entries'[b] = entries[b])
      /\ entries' = [b \in Attempts |-> entries'[b]]
  BY Zenon, <1>0, <1>2 DEF TypeOK
<1>4. AllFollow
  <2>1. Follows(entries[a], NoEntry)
    BY Zenon DEF Follows
  <2> QED BY Zenon, <1>3, <2>1, FollowsItself DEF AllFollow
<1>5. NoEntry.waiters = {} /\ NoEntry.state = "none"
  BY <1>0, Parts
<1>6. WaitsOnce' /\ watch' \in [Requests -> {"unsent", "asked", "answered", "answered_twice", "abandoned"}]
  <2>1. PICK qs : qs = entries[a].waiters
    BY Zenon
  <2>2. watch' = Told(qs) /\ qs \subseteq entries[a].waiters \cup calls[c].asker /\ entries'[a].waiters \subseteq entries[a].waiters \ qs
    BY Zenon, <1>1, <1>3, <1>5, <2>1 DEF Mine
  <2> QED BY Zenon, <1>1, <1>2, <1>3, <1>4, <2>2, AnswersStep
<1>7. entries'[calls[c].attempt].state # "dispatching"
  BY Zenon, <1>1, <1>3, <1>5
<1> HIDE DEF NoEntry, Free
<1> QED BY Zenon, <1>1, <1>2, <1>3, <1>4, <1>6, <1>7, EndStep

\* dispatch: the answer to a POST.
LEMMA PostStep ==
  ASSUME PhoneAssumption, IInv, NEW c \in Calls, PostReturns(c)
  PROVE  IInv' /\ KeysKept
<1>0. calls[c].at = "back" /\ calls[c].at # "free" /\ UNCHANGED <<server, keys>>
  BY Zenon DEF PostReturns
<1>1. CASE calls[c].result \in Open \cup Settled /\ Finished(c, Applied(Mine(c), calls[c].result)) /\ UNCHANGED draft
  BY Zenon, <1>0, <1>1, AppliedStep
<1>2. CASE MayRetry(c) /\ Start(c, [calls[c] EXCEPT !.at = "timer"]) /\ UNCHANGED <<draft, entries, stored, watch>>
           /\ calls[c].result = "lost"
  <2>1. PICK x \in Call : x = calls[c]
    BY Zenon, <1>0, InFlight
  <2>2. PICK y : y = [x EXCEPT !.at = "timer"]
    BY Zenon
  <2>3. /\ y \in Call /\ y.at = "timer" /\ y.result = x.result /\ y.key = x.key /\ y.attempt = x.attempt
        /\ y.origin = x.origin /\ y.kind = x.kind /\ y.asker = x.asker /\ y.tries = x.tries
    BY Zenon, <2>2 DEF Call
  <2>4. calls' = [calls EXCEPT ![c] = y] /\ x.tries < PostAttempts /\ x.result = "lost"
    BY Zenon, <1>2, <2>1, <2>2 DEF Start, MayRetry
  <2>5. server' \in [1..MaxKeys -> Row] /\ \A k \in 1..MaxKeys : RowTrue(k)'
    BY Zenon, <1>0 DEF IInv, TypeOK, ServerTrue, RowTrue
  <2> QED BY Zenon, <1>0, <1>2, <2>1, <2>3, <2>4, <2>5, CallStep
<1>3. CASE Finished(c, Unknown(Mine(c))) /\ UNCHANGED draft
  BY Zenon, <1>0, <1>3, GivenUpStep DEF Unknown
<1>4. CASE Finished(c, [Mine(c) EXCEPT !.state = "failed"]) /\ UNCHANGED draft
  BY Zenon, <1>0, <1>4, GivenUpStep
<1>5. CASE /\ calls[c].origin = "send" /\ Current(c) /\ Persist([entries EXCEPT ![calls[c].attempt] = NoEntry])
           /\ watch' = Told(Mine(c).waiters) /\ Start(c, Free) /\ UNCHANGED draft
  BY Zenon, <1>0, <1>5, FatalStep
<1> QED BY Zenon, <1>1, <1>2, <1>3, <1>4, <1>5 DEF PostReturns

\* check: the answer to a status request.
LEMMA StatusStep ==
  ASSUME PhoneAssumption, IInv, NEW c \in Calls, StatusReturns(c)
  PROVE  IInv' /\ KeysKept
<1>0. calls[c].at # "free" /\ calls[c].kind = "status" /\ UNCHANGED <<draft, server, keys>>
  BY Zenon DEF StatusReturns
<1>1. CASE calls[c].result \in Open \cup Settled
  <2>1. Finished(c, Applied(Mine(c), calls[c].result))
    BY Zenon, <1>1 DEF StatusReturns, Open, Settled
  <2> QED BY Zenon, <1>0, <1>1, <2>1, AppliedStep
<1>2. CASE calls[c].result \notin Open \cup Settled
  <2>1. CASE calls[c].result = "missing" /\ Mine(c).state # "sent"
    <3>1. Finished(c, Unknown(Mine(c)))
      BY Zenon, <1>2, <2>1 DEF StatusReturns
    <3> QED BY Zenon, <1>0, <3>1, GivenUpStep DEF Unknown
  <2>2. CASE ~(calls[c].result = "missing" /\ Mine(c).state # "sent")
    <3>1. Finished(c, Mine(c))
      BY Zenon, <1>2, <2>2 DEF StatusReturns
    <3>2. calls[c].origin # "send"
      BY Zenon, <1>0, InFlight DEF CallOk
    <3>3. ASSUME Current(c)
          PROVE  /\ Mine(c) \in Entry /\ Mine(c).state \notin {"none", "dispatching"}
                 /\ Mine(c).state = "sent" => server[Mine(c).key].fate = "delivered"
      BY Zenon, <1>0, <3>2, <3>3, MineFacts
    <3> QED BY Zenon, <1>0, <3>1, <3>3, FinishedStep
  <2> QED BY Zenon, <2>1, <2>2
<1> QED BY Zenon, <1>1, <1>2

\* The first poll is over, or the retry timer has run.
LEMMA PostAgainStep ==
  ASSUME PhoneAssumption, IInv, NEW c \in Calls, Primed(c) \/ Retry(c)
  PROVE  IInv' /\ KeysKept
<1>0. calls[c].at \in {"priming", "timer"} /\ UNCHANGED <<draft, entries, stored, watch, server, keys>>
  BY Zenon DEF Primed, Retry
<1>1. PICK x \in Call : x = calls[c]
  BY Zenon, <1>0, InFlight
<1>2. server' \in [1..MaxKeys -> Row] /\ \A k \in 1..MaxKeys : RowTrue(k)'
  BY Zenon, <1>0 DEF IInv, TypeOK, ServerTrue, RowTrue
<1>3. CASE Primed(c)
  <2>1. PICK y : y = [x EXCEPT !.at = "out"]
    BY Zenon
  <2>2. /\ y \in Call /\ y.at = "out" /\ y.result = x.result /\ y.key = x.key /\ y.attempt = x.attempt
        /\ y.origin = x.origin /\ y.kind = x.kind /\ y.asker = x.asker
    BY Zenon, <2>1 DEF Call
  <2>3. calls' = [calls EXCEPT ![c] = y]
    BY Zenon, <1>1, <1>3, <2>1 DEF Primed, Start
  <2>4. x.result = "sent" => server'[x.key].fate = "delivered"
    BY Zenon, <1>0, <1>1 DEF IInv, ServerTrue
  <2> QED BY Zenon, <1>0, <1>1, <1>2, <2>2, <2>3, <2>4, CallStep
<1>4. CASE Retry(c)
  <2>1. x.at = "timer" /\ x.tries < PostAttempts /\ PostAttempts \in Nat /\ x.tries \in 0..PostAttempts
    BY Zenon, <1>1, <1>4, InFlight DEF Retry, CallOk, Call, PhoneAssumption
  <2>2. PICK n \in 0..PostAttempts : n = x.tries + 1
    BY <2>1
  <2>3. PICK y : y = [x EXCEPT !.at = "out", !.result = "none", !.tries = n]
    BY Zenon
  <2>4. /\ y \in Call /\ y.at = "out" /\ y.result = "none" /\ y.key = x.key /\ y.attempt = x.attempt
        /\ y.origin = x.origin /\ y.kind = x.kind /\ y.asker = x.asker
    BY Zenon, <2>3 DEF Call, Results
  <2>5. calls' = [calls EXCEPT ![c] = y]
    BY Zenon, <1>1, <1>4, <2>2, <2>3 DEF Retry, Start
  <2> QED BY Zenon, <1>0, <1>1, <1>2, <2>4, <2>5, CallStep
<1> QED BY Zenon, <1>3, <1>4

-----------------------------------------------------------------------------
(***************************************************************************)
(* A restart of the phone app, and a change of the settings.               *)
(***************************************************************************)
LEMMA RestartStep ==
  ASSUME PhoneAssumption, IInv, Restart
  PROVE  IInv' /\ KeysKept
<1> DEFINE es == [a \in Attempts |-> IF stored[a].state = "dispatching"
                                     THEN [stored[a] EXCEPT !.state = "unknown"] ELSE stored[a]]
<1>0. TypeOK /\ EntriesOk /\ WaitsOnce /\ ServerTrue /\ StoredIsKept
  BY Zenon DEF IInv
<1>1. entries' = es /\ stored' = Kept(entries') /\ calls' = [c \in Calls |-> Free] /\ draft' \in BOOLEAN
      /\ UNCHANGED <<server, keys>>
  BY Zenon DEF Restart, Persist
<1>2. watch' = [q \in Requests |-> IF watch[q] = "asked" THEN "abandoned" ELSE watch[q]]
  BY Zenon DEF Restart
<1>3. ASSUME NEW a \in Attempts
      PROVE  Follows(entries[a], es[a]) /\ es[a].state # "dispatching"
  <2>1. PICK e \in Entry : e = entries[a]
    BY Zenon, <1>0, Parts
  <2>2. PICK s : s = stored[a]
    BY Zenon
  <2>3. /\ e.state \in {"none", "sent"} => s = NoEntry
        /\ e.state \notin {"none", "sent"} => s.state = e.state /\ s.key = e.key /\ s.waiters = {}
        /\ s \in Entry
    BY ZenonT(40), <1>0, <2>1, <2>2, KeptFacts DEF StoredIsKept, TypeOK
  <2>4. es[a] = IF s.state = "dispatching" THEN [s EXCEPT !.state = "unknown"] ELSE s
    BY Zenon, <2>2
  <2>5. CASE e.state \in {"none", "sent"}
    BY Zenon, <1>0, <2>3, <2>4, <2>5, Parts DEF Follows
  <2>6. CASE e.state \notin {"none", "sent"}
    <3>1. PICK f : f = es[a]
      BY Zenon
    <3>2. f \in Entry /\ f.key = e.key /\ f.waiters = {} /\ f.state \notin {"none", "dispatching", "sent"}
      <4>1. CASE s.state = "dispatching"
        <5>1. f = [s EXCEPT !.state = "unknown"]
          BY Zenon, <2>4, <3>1, <4>1
        <5> QED BY Zenon, <2>3, <2>6, <5>1 DEF Entry, Open, Settled
      <4>2. CASE s.state # "dispatching"
        BY Zenon, <2>3, <2>4, <2>6, <3>1, <4>2
      <4> QED BY Zenon, <4>1, <4>2
    <3> QED BY Zenon, <2>1, <2>6, <3>1, <3>2 DEF Follows
  <2> QED BY Zenon, <2>5, <2>6
<1>4. entries' = [a \in Attempts |-> entries'[a]] /\ \A a \in Attempts : entries'[a] = es[a]
  BY Zenon, <1>1
<1> HIDE DEF es
<1>5. AllFollow /\ \A a \in Attempts : entries'[a].state # "dispatching"
  BY Zenon, <1>3, <1>4 DEF AllFollow
<1>6. entries' \in [Attempts -> Entry] /\ EntriesOk' /\ KeysApart' /\ SentIsDelivered' /\ KeysKept
  BY Zenon, <1>1, <1>5, EntriesFollow
<1>7. \A c \in Calls : calls'[c] = Free
  BY Zenon, <1>1
<1>8. \A c \in Calls : calls'[c].at = "free" /\ calls'[c].asker = {}
  BY Zenon, <1>7, FreeFacts
<1>9. TypeOK'
  <2>1. calls' \in [Calls -> Call]
    BY Zenon, <1>1, FreeFacts
  <2>2. stored' \in [Attempts -> Entry]
    BY Zenon, <1>1, <1>6, KeptFacts
  <2>3. watch' \in [Requests -> {"unsent", "asked", "answered", "answered_twice", "abandoned"}]
    BY Zenon, <1>0, <1>2 DEF TypeOK
  <2> QED BY Zenon, <1>0, <1>1, <1>6, <2>1, <2>2, <2>3 DEF TypeOK
<1>10. CallsOk' /\ SendsApart' /\ Dispatches'
  BY Zenon, <1>5, <1>8 DEF CallsOk, CallOk, SendsApart, Dispatches
<1>11. WaitsOnce'
  <2>1. \A a \in Attempts : entries'[a].waiters = {}
    BY Zenon, <1>5, <1>6 DEF EntriesOk, EntryOk
  <2>2. \A q \in Requests : watch'[q] # "answered_twice"
    BY Zenon, <1>0, <1>2 DEF WaitsOnce
  <2> HIDE DEF Free
  <2> QED BY Zenon, <1>7, <1>8, <2>1, <2>2 DEF WaitsOnce
<1>12. StoredIsKept'
  BY Zenon, <1>1 DEF StoredIsKept, Kept
<1>13. ServerTrue'
  BY Zenon, <1>0, <1>1, <1>6, <1>8 DEF ServerTrue, RowTrue
<1> QED BY Zenon, <1>6, <1>9, <1>10, <1>11, <1>12, <1>13 DEF IInv

\* What a reset makes of a call: a poll of the updates is gone, and a send takes
\* over the waiters of its entry.
LEMMA ResetCall ==
  ASSUME PhoneAssumption, IInv, Reset, NEW c \in Calls
  PROVE  /\ calls'[c] \in Call
         /\ \/ calls'[c] = Free
            \/ /\ calls[c].at \notin {"free", "priming"} /\ calls'[c].at = calls[c].at
               /\ calls'[c].key = calls[c].key /\ calls'[c].origin = calls[c].origin /\ calls'[c].kind = calls[c].kind
               /\ calls'[c].tries = calls[c].tries /\ calls'[c].result = calls[c].result
               /\ \/ calls'[c].asker = calls[c].asker
                  \/ Current(c) /\ calls[c].origin = "send" /\ calls'[c].asker = Mine(c).waiters
<1>0. TypeOK /\ WaitsOnce
  BY Zenon DEF IInv
<1>1. PICK x \in Call : x = calls[c]
  BY Zenon, <1>0, Parts
<1>2. PICK w \in SUBSET Requests : w = Mine(c).waiters
  BY Zenon, <1>0, Parts DEF Mine
<1>3. calls'[c] = CASE x.at = "priming" -> Free
                    [] x.at \in {"out", "back", "timer"} /\ x.origin = "send" /\ Current(c) -> [x EXCEPT !.asker = w]
                    [] OTHER -> x
  BY Zenon, <1>1, <1>2 DEF Reset
<1>4. CASE x.at = "priming"
  <2>1. calls'[c] = Free
    BY Zenon, <1>3, <1>4
  <2> QED BY Zenon, <2>1, FreeFacts
<1>5. CASE x.at # "priming" /\ x.at \in {"out", "back", "timer"} /\ x.origin = "send" /\ Current(c)
  <2>1. PICK y : y = [x EXCEPT !.asker = w]
    BY Zenon
  <2>2. /\ y \in Call /\ y.at = x.at /\ y.result = x.result /\ y.key = x.key /\ y.tries = x.tries
        /\ y.origin = x.origin /\ y.kind = x.kind /\ y.asker = w
    BY Zenon, <2>1 DEF Call
  <2>3. calls'[c] = y
    BY Zenon, <1>3, <1>5, <2>1
  <2> QED BY Zenon, <1>1, <1>2, <1>5, <2>2, <2>3
<1>6. CASE x.at # "priming" /\ ~(x.at \in {"out", "back", "timer"} /\ x.origin = "send" /\ Current(c))
  <2>1. calls'[c] = x
    BY Zenon, <1>3, <1>6
  <2>2. CASE x.at = "free"
    BY Zenon, <1>0, <1>1, <2>1, <2>2 DEF WaitsOnce
  <2>3. CASE x.at # "free"
    BY Zenon, <1>1, <1>6, <2>1, <2>3
  <2> QED BY Zenon, <2>2, <2>3
<1> QED BY Zenon, <1>4, <1>5, <1>6

\* Two sends whose entries share a waiter are one.
LEMMA SharedWaiter ==
  ASSUME PhoneAssumption, IInv, NEW c \in Calls, NEW d \in Calls, calls[c].at # "free", calls[d].at # "free",
         calls[c].origin = "send", calls[d].origin = "send", Current(c), Current(d),
         NEW q \in Mine(c).waiters, q \in Mine(d).waiters
  PROVE  c = d
<1>0. TypeOK /\ SendsApart
  BY Zenon DEF IInv
<1>1. PICK a \in Attempts : a = calls[c].attempt
  BY Zenon, <1>0, Parts
<1>2. PICK b \in Attempts : b = calls[d].attempt
  BY Zenon, <1>0, Parts
<1>3. a = b
  <2>1. \A i \in Attempts : i # a => entries[i].waiters \cap entries[a].waiters = {}
    BY Zenon, WaitersApart
  <2> QED BY Zenon, <1>1, <1>2, <2>1 DEF Mine
<1>4. calls[c].key = calls[d].key
  BY Zenon, <1>1, <1>2, <1>3 DEF Current
<1> QED BY Zenon, <1>0, <1>4 DEF SendsApart

LEMMA ResetStep ==
  ASSUME PhoneAssumption, IInv, Reset
  PROVE  IInv' /\ KeysKept
<1>0. TypeOK /\ EntriesOk /\ CallsOk /\ SendsApart /\ WaitsOnce /\ ServerTrue
  BY Zenon DEF IInv
<1>1. /\ entries' = [a \in Attempts |-> NoEntry] /\ stored' = [a \in Attempts |-> NoEntry] /\ draft' = FALSE
      /\ server' = server /\ keys' = keys
      /\ watch' = [q \in Requests |-> IF \E c \in Calls : calls[c].at = "priming" /\ q \in Mine(c).waiters
                                      THEN "abandoned" ELSE watch[q]]
      /\ calls' = [c \in Calls |-> calls'[c]]
  BY Zenon DEF Reset
<1>2. /\ \A a \in Attempts : entries'[a] = NoEntry
      /\ NoEntry \in Entry /\ NoEntry.state = "none" /\ NoEntry.key = 0 /\ NoEntry.waiters = {}
  BY Zenon, <1>0, <1>1, Parts
<1>3. AllFollow
  BY Zenon, <1>1, <1>2 DEF AllFollow, Follows
<1>4. entries' \in [Attempts -> Entry] /\ EntriesOk' /\ KeysApart' /\ SentIsDelivered' /\ KeysKept
  BY Zenon, <1>1, <1>3, EntriesFollow
<1>5. StoredIsKept'
  <2>1. Kept(entries') = [a \in Attempts |-> NoEntry]
    BY Zenon, <1>2 DEF Kept
  <2> QED BY Zenon, <1>1, <2>1 DEF StoredIsKept, Kept
<1>6. TypeOK'
  <2>1. calls' \in [Calls -> Call]
    BY Zenon, <1>1, ResetCall
  <2>2. watch' \in [Requests -> {"unsent", "asked", "answered", "answered_twice", "abandoned"}]
    BY Zenon, <1>0, <1>1 DEF TypeOK
  <2>3. stored' \in [Attempts -> Entry] /\ draft' \in BOOLEAN
    BY Zenon, <1>1, <1>2
  <2> QED BY Zenon, <1>0, <1>1, <1>4, <2>1, <2>2, <2>3 DEF TypeOK
<1>7. CallsOk'
  <2> SUFFICES ASSUME NEW c \in Calls, calls'[c].at # "free" PROVE CallOk(calls'[c], entries', keys)
    BY Zenon, <1>1 DEF CallsOk, CallOk
  <2>1. PICK x : x = calls[c]
    BY Zenon
  <2>2. PICK y \in Call : y = calls'[c]
    BY ResetCall
  <2>3. x.at \notin {"free", "priming"} /\ y.at = x.at /\ y.key = x.key /\ y.origin = x.origin /\ y.kind = x.kind /\ y.tries = x.tries
    BY Zenon, <2>1, <2>2, ResetCall, FreeFacts
  <2>4. CallOk(x, entries, keys) /\ keys \in Nat /\ y.attempt \in Attempts
    BY Zenon, <1>0, <2>1, <2>2, Parts DEF CallsOk, Call
  <2>5. y.key # 0
    BY SMTT(40), <2>3, <2>4 DEF CallOk
  <2>6. PICK fs : fs = entries'
    BY Zenon
  <2>7. \A a \in Attempts : fs[a].key = 0
    BY Zenon, <1>2, <2>6
  <2> QED BY SMTT(40), <2>2, <2>3, <2>4, <2>5, <2>6, <2>7 DEF CallOk
<1>8. SendsApart'
  <2>1. \A c \in Calls : calls'[c].at # "free" =>
          calls[c].at # "free" /\ calls'[c].key = calls[c].key /\ calls'[c].origin = calls[c].origin
    BY Zenon, ResetCall, FreeFacts
  <2> QED BY <1>0, <2>1 DEF SendsApart
<1>9. Dispatches'
  BY Zenon, <1>2 DEF Dispatches
<1>10. WaitsOnce'
  <2>1. \A c \in Calls : calls'[c].at = "free" => calls'[c] = Free
    BY Zenon, ResetCall
  <2>2. \A q \in Requests : watch'[q] # "answered_twice"
    BY Zenon, <1>0, <1>1 DEF WaitsOnce
  <2>3. ASSUME NEW c \in Calls, NEW q \in calls'[c].asker
        PROVE  /\ calls[c].at \notin {"free", "priming"}
               /\ q \in calls[c].asker \/ (Current(c) /\ calls[c].origin = "send" /\ q \in Mine(c).waiters)
    BY Zenon, <2>3, ResetCall, FreeFacts
  <2>4. ASSUME NEW c \in Calls, NEW q \in Mine(c).waiters
        PROVE  /\ watch[q] = "asked" /\ q \in Requests
               /\ \A d \in Calls : q \notin calls[d].asker
    <3>1. PICK a \in Attempts : a = calls[c].attempt
      BY <1>0, Parts
    <3>2. q \in entries[a].waiters /\ q \in Requests
      BY Zenon, <1>0, <2>4, <3>1, Parts DEF Mine
    <3> QED BY Zenon, <1>0, <3>2 DEF WaitsOnce
  <2>5. ASSUME NEW c \in Calls, NEW q \in calls'[c].asker
        PROVE  watch'[q] = "asked"
    <3>1. watch[q] = "asked" /\ q \in Requests
      BY SMTT(40), <1>0, <2>3, <2>4, <2>5, Parts DEF WaitsOnce
    <3>2. ASSUME NEW d \in Calls, calls[d].at = "priming", q \in Mine(d).waiters PROVE FALSE
      <4>1. Current(d) /\ calls[d].origin = "send"
        BY Zenon, <1>0, <3>2 DEF CallsOk, CallOk, Current
      <4>2. Current(c) /\ calls[c].origin = "send" /\ q \in Mine(c).waiters /\ calls[c].at \notin {"free", "priming"}
        BY Zenon, <2>3, <2>4, <2>5, <3>2
      <4>3. c = d
        BY Zenon, <3>2, <4>1, <4>2, SharedWaiter
      <4> QED BY Zenon, <3>2, <4>2, <4>3
    <3> QED BY SMTT(40), <1>1, <3>1, <3>2
  <2>6. ASSUME NEW c \in Calls, NEW d \in Calls, NEW q \in calls'[c].asker, q \in calls'[d].asker PROVE c = d
    <3>1. calls[c].at # "free" /\ calls[d].at # "free"
      BY Zenon, <2>3, <2>6
    <3>2. CASE q \in calls[c].asker /\ q \in calls[d].asker
      BY Zenon, <1>0, <3>2 DEF WaitsOnce
    <3>3. CASE q \notin calls[c].asker \/ q \notin calls[d].asker
      <4>1. /\ Current(c) /\ calls[c].origin = "send" /\ q \in Mine(c).waiters
            /\ Current(d) /\ calls[d].origin = "send" /\ q \in Mine(d).waiters
        BY Zenon, <2>3, <2>4, <2>6, <3>3
      <4> QED BY Zenon, <3>1, <4>1, SharedWaiter
    <3> QED BY Zenon, <3>2, <3>3
  <2>7. \A a \in Attempts : entries'[a].waiters = {}
    BY Zenon, <1>2
  <2> HIDE DEF Free
  <2> QED BY Zenon, <2>1, <2>2, <2>5, <2>6, <2>7 DEF WaitsOnce
<1>11. ServerTrue'
  <2>1. \A c \in Calls : calls'[c].at # "free" =>
          calls[c].at # "free" /\ calls'[c].key = calls[c].key /\ calls'[c].result = calls[c].result
    BY Zenon, ResetCall, FreeFacts
  <2> QED BY Zenon, <1>0, <1>1, <1>4, <2>1 DEF ServerTrue, RowTrue
<1> QED BY Zenon, <1>4, <1>5, <1>6, <1>7, <1>8, <1>9, <1>10, <1>11 DEF IInv

-----------------------------------------------------------------------------
(***************************************************************************)
(* The theorems.                                                           *)
(***************************************************************************)
LEMMA StartsGood ==
  ASSUME PhoneAssumption, Init
  PROVE  IInv
<1>1. /\ \A a \in Attempts : entries[a] = NoEntry
      /\ \A c \in Calls : calls[c] = Free
      /\ NoEntry \in Entry /\ NoEntry.state = "none" /\ NoEntry.key = 0 /\ NoEntry.waiters = {}
      /\ Free \in Call /\ Free.at = "free" /\ Free.asker = {}
  BY FreeFacts DEF Init, NoEntry, Entry, PhoneAssumption
<1>2. TypeOK
  <2>1. entries \in [Attempts -> Entry] /\ stored \in [Attempts -> Entry] /\ calls \in [Calls -> Call]
    BY Zenon, <1>1 DEF Init
  <2>2. server \in [1..MaxKeys -> Row]
    BY Zenon DEF Init, Row
  <2>3. keys \in 0..MaxKeys /\ draft \in BOOLEAN
    BY DEF Init, PhoneAssumption
  <2>4. watch \in [Requests -> {"unsent", "asked", "answered", "answered_twice", "abandoned"}]
    BY Zenon DEF Init
  <2> QED BY Zenon, <2>1, <2>2, <2>3, <2>4 DEF TypeOK
<1>3. EntriesOk /\ KeysApart
  BY <1>1 DEF EntriesOk, EntryOk, KeysApart, Init
<1>4. CallsOk /\ SendsApart /\ Dispatches
  BY Zenon, <1>1 DEF CallsOk, CallOk, SendsApart, Dispatches
<1>5. WaitsOnce
  <2>1. \A q \in Requests : watch[q] = "unsent"
    BY Zenon DEF Init
  <2> HIDE DEF Free, NoEntry
  <2> QED BY Zenon, <1>1, <2>1 DEF WaitsOnce
<1>6. StoredIsKept
  <2>1. Kept(entries) = [a \in Attempts |-> NoEntry]
    BY Zenon, <1>1 DEF Kept
  <2> QED BY Zenon, <2>1 DEF StoredIsKept, Init
<1>7. ServerTrue
  BY Zenon, <1>1 DEF ServerTrue, RowTrue, SentIsDelivered, Init
<1> QED BY SMTT(40), <1>2, <1>3, <1>4, <1>5, <1>6, <1>7 DEF IInv

LEMMA StepKeeps ==
  ASSUME PhoneAssumption, IInv, [Next]_vars
  PROVE  IInv' /\ KeysKept
<1>1. CASE UNCHANGED vars
  <2>1. IInv'
    BY <1>1 DEF vars, IInv, TypeOK, EntriesOk, EntryOk, KeysApart, CallsOk, CallOk, SendsApart, Dispatches,
                WaitsOnce, StoredIsKept, Kept, ServerTrue, RowTrue, SentIsDelivered
  <2> QED BY SMTT(40), <1>1, <2>1 DEF vars, KeysKept
<1>2. CASE \E q \in Requests, a \in Attempts : WatchSend(q, a)
  BY Zenon, <1>2, SendStep
<1>3. CASE \E q \in Requests : WatchCheck(q) \/ WatchDiscard(q)
  BY Zenon, <1>3, CheckStep, DiscardStep
<1>4. CASE \E c \in Calls : ApiServes(c) \/ ApiRefuses(c) \/ ApiLoses(c)
  BY Zenon, <1>4, ServeStep, RefuseStep
<1>5. CASE \E c \in Calls : Callback(c)
  BY Zenon, <1>5, PostAgainStep, PostStep, StatusStep DEF Callback
<1>6. CASE \E k \in 1..keys : ApiSettles(k)
  BY Zenon, <1>6, SettleStep
<1>7. CASE \E a \in Attempts : EventArrives(a) \/ Resynced(a)
  BY Zenon, <1>7, EventStep, ResyncedStep
<1>8. CASE Restart
  BY Zenon, <1>8, RestartStep
<1>9. CASE Reset
  BY Zenon, <1>9, ResetStep
<1> QED BY Zenon, <1>1, <1>2, <1>3, <1>4, <1>5, <1>6, <1>7, <1>8, <1>9 DEF Next

\* The inductive invariant says what the runs check.
LEMMA InvImplies ==
  ASSUME PhoneAssumption, IInv
  PROVE  JournalSound /\ SentIsDelivered
<1>0. TypeOK /\ EntriesOk /\ Dispatches /\ WaitsOnce /\ StoredIsKept /\ ServerTrue
  BY Zenon DEF IInv
<1>1. AnsweredOnce
  BY Zenon, <1>0 DEF AnsweredOnce, WaitsOnce
<1>2. DispatchUnderWay
  BY Zenon, <1>0 DEF DispatchUnderWay, Dispatches
<1>3. OpenSendsAreStored
  <2> SUFFICES ASSUME NEW a \in Attempts
               PROVE  /\ entries[a].state \in {"dispatching"} \cup Open => stored[a].key = entries[a].key
                      /\ stored[a].state # "none" => stored[a].key = entries[a].key
    BY Zenon DEF OpenSendsAreStored
  <2>1. /\ entries[a].state \in {"none", "sent"} => stored[a] = NoEntry
        /\ entries[a].state \notin {"none", "sent"} => stored[a].key = entries[a].key
    BY Zenon, <1>0, KeptFacts DEF StoredIsKept, TypeOK
  <2>2. NoEntry.state = "none"
    BY Zenon, <1>0, Parts
  <2> QED BY Zenon, <2>1, <2>2 DEF Open
<1>4. SentIsDelivered
  BY Zenon, <1>0 DEF ServerTrue
<1> QED BY Zenon, <1>0, <1>1, <1>2, <1>3, <1>4 DEF JournalSound

\* Whatever the watch asks, however the POSTs end, and whenever the phone app is
\* killed or its settings change: every watch request is answered at most once,
\* one dispatch at a time is under way with a call that will end it, and each
\* message whose outcome is open is in local storage under its key (dispatch,
\* check, persist, load and reset of compose.js).
THEOREM JournalStaysSound == ASSUME PhoneAssumption PROVE Spec => []JournalSound
<1>1. Init => IInv
  BY Zenon, StartsGood
<1>2. IInv /\ [Next]_vars => IInv'
  BY StepKeeps
<1>3. IInv => JournalSound
  BY Zenon, InvImplies
<1> QED BY <1>1, <1>2, <1>3, PTL DEF Spec

\* compose.js shows "sent" only for a message that Telegram accepted.
THEOREM SentIsTrue == ASSUME PhoneAssumption PROVE Spec => []SentIsDelivered
<1>1. Init => IInv
  BY Zenon, StartsGood
<1>2. IInv /\ [Next]_vars => IInv'
  BY Zenon, StepKeeps
<1>3. IInv => SentIsDelivered
  BY Zenon, InvImplies
<1> QED BY <1>1, <1>2, <1>3, PTL DEF Spec

\* No step of compose.js gives a remembered attempt another key: every retry,
\* check and repeated request is the same send to backend-api.
THEOREM KeysStay == ASSUME PhoneAssumption PROVE Spec => KeyStays
<1>1. Init => IInv
  BY Zenon, StartsGood
<1>2. IInv /\ [Next]_vars => IInv'
  BY Zenon, StepKeeps
<1>3. IInv /\ [Next]_vars => [KeysKept]_vars
  BY Zenon, StepKeeps
<1> QED BY <1>1, <1>2, <1>3, PTL DEF Spec, KeyStays
=============================================================================
