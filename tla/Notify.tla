------------------------------- MODULE Notify -------------------------------
(***************************************************************************)
(* The banner queue of the watch (notify.c).  There are as many places as  *)
(* sources, so a source always has its own place and the branch that       *)
(* evicts the weakest item is never taken: the queue is a function from    *)
(* sources to items.  Only information items expire.                       *)
(***************************************************************************)
EXTENDS Integers, FiniteSets

Sources == {"connection", "chats", "send"}
Info == 0
Warning == 1
Error == 2

NoItem == [level |-> Info - 1, action |-> "none", about |-> 0, serial |-> 0]

Posted(queue) == {source \in Sources : queue[source] # NoItem}

tb_notify_reset == [source \in Sources |-> NoItem]

\* Serials only order the items: the newest gets the highest rank.
Rank(queue, source) ==
    IF source \notin Posted(queue) THEN 0
    ELSE 1 + Cardinality({other \in Posted(queue) : queue[other].serial < queue[source].serial})

Ranked(queue) == [source \in Sources |-> IF source \in Posted(queue)
                                         THEN [queue[source] EXCEPT !.serial = Rank(queue, source)]
                                         ELSE NoItem]

\* The same text posted again keeps its place in the order and its serial.
tb_notify_post(queue, source, level, action, about) ==
    LET item == [level |-> level, action |-> action, about |-> about, serial |-> Cardinality(Sources) + 1]
    IN  IF [queue[source] EXCEPT !.serial = 0] = [item EXCEPT !.serial = 0] THEN queue
        ELSE Ranked([queue EXCEPT ![source] = item])

tb_notify_clear(queue, source) == Ranked([queue EXCEPT ![source] = NoItem])

\* The item on show: the highest level, the newest of them.
IsTop(queue, source) ==
    /\ source \in Posted(queue)
    /\ \A other \in Posted(queue) :
           \/ queue[other].level < queue[source].level
           \/ queue[other].level = queue[source].level /\ queue[other].serial <= queue[source].serial

tb_notify_dismiss(queue) ==
    Ranked([source \in Sources |-> IF IsTop(queue, source) THEN NoItem ELSE queue[source]])

\* tb_notify_timer for one item whose time is over.
Expired(queue, source) == tb_notify_clear(queue, source)

Expiring(queue) == {source \in Posted(queue) : queue[source].level = Info}
=============================================================================
