----------------------------- MODULE AccountStore -----------------------------
(***************************************************************************)
(* The cache of projections of all accounts: messages, the indices by age  *)
(* and by chat that say which to evict, the names of senders, and the      *)
(* counters the budgets are compared with.  Source: account_store.hpp; all *)
(* of it runs under the store's mutex, so each operation is one step.      *)
(*                                                                         *)
(* A message is its key (chat, id), the size of its projection and its     *)
(* date, which an edit does not change.  The text itself is left out.      *)
(***************************************************************************)
EXTENDS Integers, Sequences, FiniteSets, SequencesExt, FiniteSetsExt

CONSTANTS Accounts,     \* numbers: the index by age orders accounts by address
          Keys,         \* pairs <<chat, id>>
          Date,         \* date of a message
          Sizes,        \* sizes of a projection, or of a sender's name with its key
          Senders,      \* senders an account may hear of
          Watched,      \* chats of an account a client may look at
          PerChat, PerAccount, PerProcess,   \* cache_messages_per_chat, _per_account, _per_process
          Bytes,        \* cache_projection_bytes
          Scan          \* eviction_scan

ConstantsAssumption ==
  /\ Accounts \subseteq Nat /\ Sizes \subseteq Nat \ {0} /\ Date \in [Keys -> Nat]
  /\ Senders \in [Accounts -> SUBSET Nat] /\ Watched \in [Accounts -> SUBSET {k[1] : k \in Keys}]
  /\ {PerChat, PerAccount, PerProcess, Bytes, Scan} \subseteq Nat \ {0}

VARIABLES accounts,   \* of each account: its messages, their age, counts per chat, bytes, names, interest
          store       \* age_index_, total_messages_, total_bytes_
vars == <<accounts, store>>

Empty == [x \in {} |-> 0]
Set(f, x, v) == [y \in DOMAIN f \cup {x} |-> IF y = x THEN v ELSE f[y]]
Without(f, x) == [y \in DOMAIN f \ {x} |-> f[y]]
Sum(f) == MapThenSumSet(LAMBDA x : f[x], DOMAIN f)
Age(k) == <<Date[k], k[1], k[2]>>
AgeKey(a, k) == <<Date[k], a, k[1], k[2]>>

NewAccount == [messages |-> Empty, age |-> {}, counts |-> Empty, bytes |-> 0,
               names |-> Empty, order |-> <<>>, sender_bytes |-> 0, interests |-> {}]

Init == accounts = [a \in Accounts |-> NewAccount]
        /\ store = [age |-> {}, messages |-> 0, bytes |-> 0]

-----------------------------------------------------------------------------
(* Operations on s, the pair [accounts, store] *)

erase_message_KeepsCount(s, a, k) ==
  LET acc == s.accounts[a] IN
  IF k \notin DOMAIN acc.messages THEN s
  ELSE [accounts |-> [s.accounts EXCEPT ![a] =
          [acc EXCEPT !.messages = Without(@, k), !.age = @ \ {Age(k)}, !.bytes = @ - acc.messages[k]]],
        store |-> [age |-> s.store.age \ {AgeKey(a, k)}, messages |-> s.store.messages - 1,
                   bytes |-> s.store.bytes - acc.messages[k]]]

erase_message(s, a, k) ==
  LET acc == s.accounts[a]
      left == acc.counts[k[1]] - 1
  IN
  IF k \notin DOMAIN acc.messages THEN s
  ELSE [accounts |-> [s.accounts EXCEPT ![a] =
          [acc EXCEPT !.messages = Without(@, k), !.age = @ \ {Age(k)}, !.bytes = @ - acc.messages[k],
                      !.counts = IF left = 0 THEN Without(@, k[1]) ELSE Set(@, k[1], left)]],
        store |-> [age |-> s.store.age \ {AgeKey(a, k)}, messages |-> s.store.messages - 1,
                   bytes |-> s.store.bytes - acc.messages[k]]]

active_chat(s, a, chat) == chat \in s.accounts[a].interests

Lex(x, y) == \E i \in DOMAIN x : x[i] < y[i] /\ \A j \in 1 .. i - 1 : x[j] = y[j]
First(S) == CHOOSE x \in S : \A y \in S \ {x} : Lex(x, y)

\* Among the Scan oldest, the oldest of an inactive chat; else the oldest of all
Victim(S, inactive) ==
  LET idle == {x \in inactive : Cardinality({y \in S : Lex(y, x)}) < Scan}
  IN  First(IF idle = {} THEN S ELSE idle)

evict_of(s, a) ==
  LET S == s.accounts[a].age
      v == Victim(S, {x \in S : ~active_chat(s, a, x[2])})
  IN  erase_message(s, a, <<v[2], v[3]>>)

evict_any(s) ==
  LET S == s.store.age
      v == Victim(S, {x \in S : ~active_chat(s, x[2], x[3])})
  IN  erase_message(s, v[2], <<v[3], v[4]>>)

\* while (Over(s)) s = Step(s), each step taking a message away
While(s, Over(_), Step(_)) ==
  FoldLeft(LAMBDA acc, i : IF Over(acc) THEN Step(acc) ELSE acc, s, [i \in 1 .. s.store.messages |-> i])

enforce_process_budget(s) ==
  While(s, LAMBDA x : /\ x.store.messages > PerProcess \/ x.store.bytes > Bytes
                      /\ x.store.age # {},
           evict_any)

Oldest(s, a, chat) == CHOOSE k \in DOMAIN s.accounts[a].messages :
  k[1] = chat /\ \A l \in DOMAIN s.accounts[a].messages : l[1] = chat => k[2] <= l[2]

Inserted(s, a, k, bytes) ==
  LET acc == s.accounts[a]
      n == IF k[1] \in DOMAIN acc.counts THEN acc.counts[k[1]] + 1 ELSE 1
  IN  [accounts |-> [s.accounts EXCEPT ![a] =
         [acc EXCEPT !.messages = Set(@, k, bytes), !.age = @ \cup {Age(k)},
                     !.bytes = @ + bytes, !.counts = Set(@, k[1], n)]],
       store |-> [age |-> s.store.age \cup {AgeKey(a, k)}, messages |-> s.store.messages + 1,
                  bytes |-> s.store.bytes + bytes]]

\* put_message: replace it, then trim the chat, the account and the process
put(s, a, k, bytes) ==
  LET new == Inserted(erase_message(s, a, k), a, k, bytes)
      chat == While(new, LAMBDA x : x.accounts[a].counts[k[1]] > PerChat,
                    LAMBDA x : erase_message(x, a, Oldest(x, a, k[1])))
      account == While(chat, LAMBDA x : Cardinality(DOMAIN x.accounts[a].messages) > PerAccount,
                       LAMBDA x : evict_of(x, a))
  IN  enforce_process_budget(account)

State == [accounts |-> accounts, store |-> store]
Becomes(s) == accounts' = s.accounts /\ store' = s.store

put_message(a, k, bytes) == Becomes(put(State, a, k, bytes))

erase(a, k) == k \in DOMAIN accounts[a].messages /\ Becomes(erase_message(State, a, k))

\* put_sender_name: a new name may push out the one heard of first; names are never evicted for bytes
put_sender_name(a, n, bytes) ==
  LET acc == accounts[a]
      known == n \in DOMAIN acc.names
      old == IF known THEN acc.names[n] ELSE 0
      order == IF known THEN acc.order ELSE Append(acc.order, n)
      names == Set(acc.names, n, bytes)
      full == Cardinality(DOMAIN names) > PerAccount
      out == IF full THEN names[Head(order)] ELSE 0
      change == bytes - old - out
  IN
  /\ n \in Senders[a]
  /\ Becomes(enforce_process_budget(
       [accounts |-> [accounts EXCEPT ![a] =
          [acc EXCEPT !.names = IF full THEN Without(names, Head(order)) ELSE names,
                      !.order = IF full THEN Tail(order) ELSE order,
                      !.sender_bytes = @ + change]],
        store |-> [store EXCEPT !.bytes = @ + change]]))

\* reset_session: clear_messages, clear_sender_names and the interests
reset_session(a) ==
  /\ accounts[a] # NewAccount
  /\ accounts' = [accounts EXCEPT ![a] = NewAccount]
  /\ store' = [age |-> store.age \ {<<x[1], a, x[2], x[3]>> : x \in accounts[a].age},
               messages |-> store.messages - Cardinality(DOMAIN accounts[a].messages),
               bytes |-> store.bytes - accounts[a].bytes - accounts[a].sender_bytes]

\* A chat becomes active or stops being so (module InterestLeases)
interest(a, chat) ==
  /\ accounts' = [accounts EXCEPT ![a].interests = IF chat \in @ THEN @ \ {chat} ELSE @ \cup {chat}]
  /\ UNCHANGED store

Next ==
  \E a \in Accounts :
    \/ \E k \in Keys : erase(a, k) \/ \E b \in Sizes : put_message(a, k, b)
    \/ \E n \in Senders[a], b \in Sizes : put_sender_name(a, n, b)
    \/ \E c \in Watched[a] : interest(a, c)
    \/ reset_session(a)

Spec == Init /\ [][Next]_vars

-----------------------------------------------------------------------------
(* Properties *)

\* AccountStore::consistent: the index by age, the counts per chat, the bytes of an account and
\* the totals all say what the messages and names say, after any eviction inside an operation.
TypeOK ==
  /\ \A a \in Accounts : LET acc == accounts[a] IN
       /\ acc.age = {Age(k) : k \in DOMAIN acc.messages}
       /\ acc.bytes = Sum(acc.messages) /\ acc.sender_bytes = Sum(acc.names)
       /\ acc.counts = [c \in {k[1] : k \in DOMAIN acc.messages} |->
                          Cardinality({k \in DOMAIN acc.messages : k[1] = c})]
       /\ ToSet(acc.order) = DOMAIN acc.names /\ IsInjective(acc.order)
  /\ store.age = UNION {{AgeKey(a, k) : k \in DOMAIN accounts[a].messages} : a \in Accounts}
  /\ store.messages = Cardinality(store.age)
  /\ store.bytes = MapThenSumSet(LAMBDA a : accounts[a].bytes + accounts[a].sender_bytes, Accounts)

\* No limit is exceeded once an operation is over: the evictions of put_message and
\* put_sender_name end only when they have made room, or there is no message left to evict.
BudgetsHeld ==
  /\ store.messages <= PerProcess
  /\ store.bytes <= Bytes \/ store.messages = 0
  /\ \A a \in Accounts :
       /\ Cardinality(DOMAIN accounts[a].messages) <= PerAccount
       /\ Cardinality(DOMAIN accounts[a].names) <= PerAccount
       /\ \A c \in DOMAIN accounts[a].counts : accounts[a].counts[c] <= PerChat

\* After every operation the indices agree and every budget is kept.
CacheSound == TypeOK /\ BudgetsHeld

=============================================================================
