----------------------------- MODULE RefreshQueue -----------------------------
(***************************************************************************)
(* The background queue of the read service: refreshes asked for by reads  *)
(* and file evictions asked for by previews, of all accounts, run by one   *)
(* thread that serves the accounts in rotation.  Source: the queue of      *)
(* read_model_service.cpp, queue_job of media_sources.cpp; all of it is    *)
(* guarded by refresh_mutex_, which the thread releases while a job runs.  *)
(***************************************************************************)
EXTENDS Integers, Sequences, SequencesExt

CONSTANTS Accounts,
          Reads,        \* refresh jobs the reads of an account may ask for
          QueueLimit,   \* refresh_queue_per_account
          MaxQueue      \* bound: jobs of an account, evictions included

ConstantsAssumption == QueueLimit \in Nat \ {0} /\ MaxQueue \in Nat \ {0}

VARIABLES queues, rotation, keys,   \* refresh_queues_, refresh_rotation_, refresh_keys_
          running                   \* the job the refresh thread is running
vars == <<queues, rotation, keys, running>>

Refresh(a, n) == [kind |-> "refresh", uuid |-> a, read |-> n]
Evict(a) == [kind |-> "evict", uuid |-> a]
None == [kind |-> "none"]

Init ==
  /\ queues = [a \in Accounts |-> <<>>] /\ rotation = <<>> /\ keys = {}
  /\ running = None

\* An account that gets its first job joins the rotation
queue_job(job) ==
  /\ rotation' = IF queues[job.uuid] = <<>> THEN Append(rotation, job.uuid) ELSE rotation
  /\ queues' = [queues EXCEPT ![job.uuid] = Append(@, job)]

\* A read queues its refresh, unless it is pending, was done within the cooldown (a matter of time,
\* so of when this step is taken), or the account's queue is full
enqueue_refresh(a, n) ==
  /\ Refresh(a, n) \notin keys /\ Len(queues[a]) < QueueLimit
  /\ queue_job(Refresh(a, n))
  /\ keys' = keys \cup {Refresh(a, n)}
  /\ UNCHANGED running

\* A preview is evicted (trim_media_entries, reserve_media): no key, no limit
queue_eviction(a) ==
  /\ Len(queues[a]) < MaxQueue
  /\ queue_job(Evict(a))
  /\ UNCHANGED <<keys, running>>

refresh_take_StaysFirst ==
  LET a == Head(rotation) IN
  /\ running = None /\ rotation # <<>>
  /\ running' = Head(queues[a])
  /\ queues' = [queues EXCEPT ![a] = Tail(@)]
  /\ rotation' = IF Len(queues[a]) > 1 THEN rotation ELSE Tail(rotation)
  /\ UNCHANGED keys

\* refresh_once, first holding of the lock: the next account's first job; the account goes to the
\* back of the rotation while it has more
refresh_take ==
  LET a == Head(rotation) IN
  /\ running = None /\ rotation # <<>>
  /\ running' = Head(queues[a])
  /\ queues' = [queues EXCEPT ![a] = Tail(@)]
  /\ rotation' = IF Len(queues[a]) > 1 THEN Append(Tail(rotation), a) ELSE Tail(rotation)
  /\ UNCHANGED keys

\* refresh_once, second holding: the job is done or has failed, and its key is free again
refresh_done ==
  /\ running # None
  /\ keys' = keys \ {running}
  /\ running' = None
  /\ UNCHANGED <<queues, rotation>>

cancel_account_KeepsKeys(a) ==
  /\ queues[a] # <<>>
  /\ queues' = [queues EXCEPT ![a] = <<>>]
  /\ rotation' = SelectSeq(rotation, LAMBDA x : x # a)
  /\ UNCHANGED <<keys, running>>

\* cancel_account, after a logout or a removal; the running job is left to finish
cancel_account(a) ==
  /\ queues[a] # <<>>
  /\ keys' = keys \ ToSet(queues[a])
  /\ queues' = [queues EXCEPT ![a] = <<>>]
  /\ rotation' = SelectSeq(rotation, LAMBDA x : x # a)
  /\ UNCHANGED running

Next ==
  \/ \E a \in Accounts : \/ \E n \in Reads : enqueue_refresh(a, n)
                         \/ queue_eviction(a) \/ cancel_account(a)
  \/ refresh_take \/ refresh_done

\* The refresh thread runs whenever it has a job: it is notified of each, and what a job asks of
\* TDLib has a deadline
Fairness == WF_vars(refresh_take) /\ WF_vars(refresh_done)

Spec == Init /\ [][Next]_vars /\ Fairness

-----------------------------------------------------------------------------
(* Properties *)

\* Every variable keeps its shape.
TypeOK ==
  /\ rotation \in Seq(Accounts)
  /\ \A a \in Accounts : \A i \in DOMAIN queues[a] :
       queues[a][i] \in {Evict(a)} \cup {Refresh(a, n) : n \in Reads}
  /\ keys \subseteq {Refresh(a, n) : a \in Accounts, n \in Reads}

\* An account is in the rotation exactly when it has jobs, and once: refresh_once takes the
\* front of a queue it never finds empty, and no account gets two turns (enqueue_refresh,
\* queue_job, refresh_once, cancel_account).
RotationMatches ==
  ToSet(rotation) = {a \in Accounts : queues[a] # <<>>} /\ IsInjective(rotation)

\* A refresh key stands for a queued or running job, and a job is queued once: a key left
\* behind would answer "pending" for ever and never be refreshed again (enqueue_refresh,
\* refresh_once, cancel_account).
KeysAreJobs ==
  /\ keys = {job \in {running} \cup UNION {ToSet(queues[a]) : a \in Accounts} : job.kind = "refresh"}
  /\ \A a \in Accounts : \A i, j \in DOMAIN queues[a] :
       queues[a][i] = queues[a][j] /\ queues[a][i].kind = "refresh" => i = j

\* Queues, rotation and keys are typed and agree.
QueuesAgree == TypeOK /\ RotationMatches /\ KeysAreJobs

\* Every refresh that is pending is done or cancelled, however many jobs the other accounts
\* keep asking for (the rotation of refresh_once).
JobDone(a, n) == Refresh(a, n) \in keys ~> Refresh(a, n) \notin keys
RefreshDone == \A a \in Accounts, n \in Reads : JobDone(a, n)
=============================================================================
