----------------------------- MODULE AccountOps -----------------------------
(***************************************************************************)
(* The life of one Telegram account between the API's database (api), the  *)
(* runtime's memory (mem), the manifest it keeps on disk (disk, dir) and   *)
(* the TDLib client it drives (td, session): reconciliation, logout, proxy *)
(* change, removal and authorization, each a handler that writes its       *)
(* intent, talks to TDLib and writes its completion, with the receive      *)
(* thread, the generation-persisting thread, crashes and restarts between  *)
(* any two of its steps.                                                   *)
(*                                                                         *)
(* A handler holds the account's mutex only at its beginning and around    *)
(* single reads and writes of the account, so it is a list of steps        *)
(* (op.todo) and every other actor may run between two of them.  Each      *)
(* desired revision belongs to one configuration: the fingerprint of a     *)
(* command is, for a given revision, whether it carries a                  *)
(* logout_operation_id.  Operation ids are the revision that created them, *)
(* 0 is none.                                                              *)
(***************************************************************************)
EXTENDS Integers, Sequences

CONSTANTS Proxies,     \* proxy configurations; "inherit" is the default one
          Creds,       \* telegram_api_id/hash pairs of the instance
          MaxRev,      \* bound on the desired revision
          MaxAuth,     \* bound on the authorization generation
          Faults,      \* what may fail: "write", "refused", "unknown", "stall"
          MaxFaults,   \* bound on the number of failures
          MaxCrashes   \* bound on the number of crashes of the runtime

VARIABLES api,         \* the row of the account in the API's database
          delayed,     \* a command the API gave up on that may still arrive
          mem,         \* AccountState, "down" fields included
          op,          \* the handler in progress
          jobs,        \* authorization_queue_
          disk,        \* the manifest, or NoManifest
          dir,         \* the account's directory exists
          td,          \* the TDLib client
          session,     \* TDLib's database holds a logged-in session
          faults, crashes

vars == <<api, delayed, mem, op, jobs, disk, dir, td, session, faults, crashes>>

max(a, b) == IF a >= b THEN a ELSE b

NoOp == [kind |-> "none"]
NoCall == [kind |-> "none"]
Spent == [kind |-> "spent"]
NoManifest == [revision |-> 0, applied |-> 0, auth |-> 0, lifecycle |-> "none", op |-> 0,
               phase |-> "", fp |-> "none", proxy |-> "inherit", tombstone |-> FALSE]
NoClient == [phase |-> "none", asked |-> "no", proxy |-> "none", cred |-> 0, late |-> "none"]

NewAccount == [revision |-> 0, applied |-> 0, auth |-> 1, ready_generation |-> 0,
               lifecycle |-> "provisioning", op |-> 0, phase |-> "", fp |-> "none",
               proxy |-> "inherit", cred |-> 0, cid |-> 0,
               applied_proxy |-> "none", applied_cred |-> 0,
               reconciled |-> FALSE, closed |-> FALSE, closing |-> FALSE, tombstone |-> FALSE,
               busy |-> FALSE, client |-> FALSE, unpersisted |-> FALSE, stalled |-> FALSE,
               state |-> "awaiting_reconciliation", orphan |-> FALSE]

snapshot_manifest(m) ==
    [revision |-> m.revision, applied |-> m.applied, auth |-> m.auth,
     lifecycle |-> m.lifecycle, op |-> m.op, phase |-> m.phase, fp |-> m.fp,
     proxy |-> m.proxy, tombstone |-> FALSE]

-----------------------------------------------------------------------------
(* The API: what the user asks for, the commands that say so, the replies. *)

command(a, kind) ==
    [kind |-> kind, revision |-> a.rev, auth |-> a.auth, lifecycle |-> a.lifecycle,
     op |-> IF kind = "logout" THEN a.lop ELSE a.op,
     restore |-> a.lifecycle = "active", proxy |-> a.proxy, cred |-> a.cred, cid |-> a.cid]

fingerprint(c) == IF c.kind = "logout" THEN "logout" ELSE "plain"

\* The commands the API sends in its present state.
Kinds(a) == CASE a.lifecycle = "provisioning"   -> {"reconcile", "authorize"}
              [] a.lifecycle = "active"         -> {"reconcile", "update_proxy", "authorize"}
              [] a.lifecycle = "logout_pending" -> {"logout"}
              [] a.lifecycle = "removing"       -> {"remove", "authorize"}
              [] a.lifecycle = "removed"        -> {}

applySnapshot(a, m) ==
    LET current == m.applied = a.rev /\ m.cid = a.cid
    IN [a EXCEPT !.auth = max(@, m.auth),
                 !.applied = IF current THEN m.applied ELSE @,
                 !.op = IF current /\ m.op = 0 THEN 0 ELSE @]

\* AccountStatePolicy::confirm: b is the row after the reply's snapshot, if
\* the reply has one, and a the row as it is.
confirm(a, c, b, applied, completed) ==
    LET r == [b EXCEPT !.applied = IF applied = c.revision THEN applied ELSE @]
    IN IF a.lifecycle = "removed" \/ a.rev # c.revision THEN a
       ELSE IF completed /\ a.lifecycle = "removing"
            THEN [r EXCEPT !.lifecycle = "removed", !.op = 0]
       ELSE IF \/ completed /\ a.lifecycle = "logout_pending"
               \/ a.lifecycle = "provisioning" /\ r.applied = a.rev
            THEN [r EXCEPT !.lifecycle = "active", !.op = 0]
       ELSE IF completed /\ a.lifecycle = "active" THEN [r EXCEPT !.op = 0] ELSE r

\* A reply that carries account_json(m), and one that does not, for c.
Snapshotted(m, c, completed) == confirm(api, c, applySnapshot(api, m), m.applied, completed)
Acknowledged(applied, c, completed) == confirm(api, c, api, applied, completed)

\* The reply reaches the API and is recorded, or is lost on the way.
Reply(a) == api' \in {api, a}

Desire(a) == /\ api.rev < MaxRev
             /\ api' = [a EXCEPT !.rev = @ + 1]
             /\ UNCHANGED <<delayed, mem, op, jobs, disk, dir, td, session, faults, crashes>>

\* AccountStatePolicy::logout, remove, updateProxy; SettingsRepository::update.
logout_wanted == /\ api.lifecycle \in {"provisioning", "active"}
                 /\ api.auth < MaxAuth
                 /\ Desire([api EXCEPT !.lifecycle = "logout_pending", !.auth = @ + 1,
                                       !.lop = api.rev + 1, !.op = api.rev + 1])
remove_wanted == /\ api.lifecycle \in {"provisioning", "active", "logout_pending"}
                 /\ Desire([api EXCEPT !.lifecycle = "removing", !.op = api.rev + 1])
proxy_wanted == /\ api.lifecycle \in {"provisioning", "active"}
                /\ \E p \in Proxies \ {api.proxy} :
                      Desire([api EXCEPT !.proxy = p, !.cid = api.rev + 1, !.op = api.rev + 1])
settings_updated == /\ api.lifecycle # "removed"
                    /\ \E k \in Creds \ {api.cred} :
                          Desire([api EXCEPT !.cred = k, !.cid = api.rev + 1, !.op = api.rev + 1])

\* TelegramAccountService::find with refresh: a snapshot read at any time.
refresh == /\ api' = applySnapshot(api, mem)
           /\ api' # api
           /\ UNCHANGED <<delayed, mem, op, jobs, disk, dir, td, session, faults, crashes>>

-----------------------------------------------------------------------------
(* The beginning of each handler, under the account's mutex.               *)

validated_account(m, c) ==
    /\ ~(m.orphan /\ c.lifecycle # "provisioning")
    /\ c.revision >= m.revision
    /\ c.auth >= m.auth
    /\ ~m.tombstone

SameIntent(m, c) == c.revision = m.revision /\ m.fp # "none" => m.fp = fingerprint(c)

Live(m) == m.client /\ ~m.closed

Start(c, m, todo) ==
    /\ op' = [kind |-> c.kind, c |-> c, todo |-> todo,
              man |-> [snapshot_manifest(m) EXCEPT !.phase = IF c.kind \in {"reconcile", "update_proxy"}
                                                            THEN "" ELSE @]]
    /\ mem' = [m EXCEPT !.busy = TRUE]
    /\ UNCHANGED <<api, jobs, disk, dir, td, session, faults, crashes>>

Answer(a) == Reply(a) /\ UNCHANGED <<mem, op, jobs, disk, dir, td, session, faults, crashes>>

\* Compared against what TDLib is actually running with.
Reconfigured_Desired(m, c) == m.proxy # c.proxy
Reconfigured(m, c) == m.applied_proxy # c.proxy

settled(m, c) == /\ Live(m) /\ m.reconciled /\ m.op = 0 /\ m.applied = c.revision
                 /\ m.applied_proxy = c.proxy /\ m.applied_cred = c.cred

reconcile(c) ==
    /\ c.kind = "reconcile"
    /\ ~mem.busy /\ validated_account(mem, c) /\ SameIntent(mem, c)
    /\ c.restore => dir
    /\ IF c.revision = mem.revision /\ mem.fp # "none" /\ settled(mem, c)
       THEN Answer(Snapshotted(mem, c, TRUE))
       ELSE LET recreate == Live(mem) /\ mem.applied_cred # c.cred
                existing == Live(mem) /\ ~recreate /\ Reconfigured(mem, c)
            IN Start(c, [mem EXCEPT !.auth = c.auth, !.revision = c.revision, !.cid = c.cid,
                                    !.cred = c.cred, !.lifecycle = c.lifecycle, !.proxy = c.proxy,
                                    !.op = c.op, !.fp = fingerprint(c)],
                     <<"dirs", "record">>
                     \o (IF recreate THEN <<"close", "closed">> ELSE << >>)
                     \o <<"activate">>
                     \o (IF existing THEN <<"proxy">> ELSE << >>)
                     \o <<"complete", "record", "finish">>)

update_proxy(c) ==
    LET same == c.revision = mem.revision /\ mem.fp # "none"
    IN /\ c.kind = "update_proxy"
       /\ ~mem.busy /\ validated_account(mem, c) /\ SameIntent(mem, c)
       /\ same => mem.proxy = c.proxy
       /\ IF same /\ mem.op = 0 /\ Live(mem) /\ mem.applied_proxy = mem.proxy
          THEN Answer(Snapshotted(mem, c, TRUE))
          ELSE Start(c, [mem EXCEPT !.auth = c.auth, !.revision = c.revision, !.cid = c.cid,
                                    !.proxy = c.proxy, !.op = c.op, !.fp = fingerprint(c)],
                     <<"record", "switch", "complete", "record", "finish">>)

logout(c) ==
    LET resuming == c.revision = mem.revision /\ mem.lifecycle = "logout_pending"
    IN /\ c.kind = "logout"
       /\ ~mem.busy /\ validated_account(mem, c) /\ SameIntent(mem, c)
       /\ resuming => mem.op = c.op
       /\ Start(c, [mem EXCEPT !.auth = c.auth, !.revision = c.revision, !.op = c.op,
                               !.lifecycle = "logout_pending", !.fp = fingerprint(c),
                               !.phase = IF ~resuming \/ @ = "" THEN "intent" ELSE @,
                               !.reconciled = FALSE],
                IF resuming THEN <<"decide">> ELSE <<"intent", "decide">>)

RemovalSteps_TombstoneFirst == <<"closing", "record", "destroy", "closed", "tombstone", "record",
                                 "rmdir", "removed">>
RemovalSteps == <<"closing", "record", "destroy", "closed", "rmdir", "tombstone", "record",
                  "removed">>

remove(c) ==
    LET resuming == c.revision = mem.revision /\ mem.lifecycle = "removing"
    IN /\ c.kind = "remove"
       /\ IF mem.tombstone
          THEN Answer(Acknowledged(c.revision, c, TRUE))   \* completed, or account.gone taken as such
          ELSE /\ ~mem.busy /\ validated_account(mem, c) /\ SameIntent(mem, c)
               /\ resuming => mem.op = c.op
               /\ (c.revision = mem.revision /\ mem.fp # "none") => resuming
               /\ Start(c, [mem EXCEPT !.auth = c.auth, !.revision = c.revision, !.op = c.op,
                                       !.lifecycle = "removing", !.fp = fingerprint(c),
                                       !.phase = IF ~resuming \/ @ = "" THEN "intent" ELSE @,
                                       !.reconciled = FALSE],
                        (IF resuming THEN << >> ELSE <<"record">>) \o RemovalSteps)

\* Only a client that waits for the user has actions to offer.
allowed_actions(m) == m.state = "awaiting_login"

authorization_action(c) ==
    /\ c.kind = "authorize"
    /\ validated_account(mem, c)
    /\ mem.reconciled /\ allowed_actions(mem) /\ ~mem.busy
    /\ Start(c, [mem EXCEPT !.auth = c.auth], <<"ask">>)

Handle(c) == \/ reconcile(c) \/ update_proxy(c) \/ logout(c) \/ remove(c) \/ authorization_action(c)

Submit == /\ \E k \in Kinds(api) : Handle(command(api, k))
          /\ UNCHANGED delayed

\* The API stops waiting before the handler has begun; the request may still
\* be served later, whatever has happened since.
Delay == /\ delayed = NoCall
         /\ \E k \in Kinds(api) \ {"authorize"} : delayed' = command(api, k)
         /\ UNCHANGED <<api, mem, op, jobs, disk, dir, td, session, faults, crashes>>
Arrive == /\ delayed \notin {NoCall, Spent}
          /\ Handle(delayed)
          /\ delayed' = Spent

-----------------------------------------------------------------------------
(* What the steps of a handler are made of.                                *)

At(s) == op # NoOp /\ op.todo # << >> /\ Head(op.todo) = s
Rest == [op EXCEPT !.todo = Tail(@)]

\* The catch blocks: the handler ends, the account is no longer busy.
Abort(m) == op' = NoOp /\ mem' = [m EXCEPT !.busy = FALSE]

May(kind) == kind \in Faults /\ faults < MaxFaults
Fault == faults' = faults + 1

\* Registry::write: the manifest is replaced, or the write fails before or
\* (sync_directory) after the rename.
record ==
    /\ At("record")
    /\ \/ /\ disk' = op.man
          /\ op' = Rest
          /\ mem' = [mem EXCEPT !.orphan = @ /\ op.kind # "reconcile"]
          /\ UNCHANGED faults
       \/ /\ May("write") /\ Fault
          /\ disk' \in {disk, op.man}
          /\ Abort(mem)
    /\ UNCHANGED <<api, delayed, jobs, dir, td, session, crashes>>

\* Registry::ensure_account_directories.
dirs ==
    /\ At("dirs")
    /\ \/ dir' = TRUE /\ op' = Rest /\ UNCHANGED <<mem, faults>>
       \/ May("write") /\ Fault /\ dir' \in {dir, TRUE} /\ Abort(mem)
    /\ UNCHANGED <<api, delayed, jobs, disk, td, session, crashes>>

-----------------------------------------------------------------------------
(* activate(): a new client, its parameters, its proxy, the network.       *)

activate ==
    /\ At("activate")
    /\ IF mem.client /\ mem.closing THEN Abort(mem) /\ UNCHANGED td
       ELSE IF Live(mem) THEN op' = Rest /\ UNCHANGED <<mem, td>>
       ELSE /\ mem' = [mem EXCEPT !.client = TRUE, !.closed = FALSE, !.applied_proxy = "none",
                                  !.applied_cred = 0]
            /\ td' = [NoClient EXCEPT !.phase = "new"]
            /\ op' = [op EXCEPT !.todo = <<"parameters", "proxy", "online">> \o Tail(@)]
    /\ UNCHANGED <<api, delayed, jobs, disk, dir, session, faults, crashes>>

\* The catch block of activate: the new client is told to close, the handler
\* waits for that until its deadline.
Deactivate(t) ==
    /\ mem' = [mem EXCEPT !.closing = mem.client]
    /\ td' = IF t.phase = "none" THEN t ELSE [t EXCEPT !.asked = "close"]
    /\ op' = [op EXCEPT !.todo = <<"failed">>]

failed == /\ At("failed")
          /\ \/ ~mem.client \/ mem.closed
             \/ May("unknown")
          /\ faults' = IF mem.client /\ ~mem.closed THEN faults + 1 ELSE faults
          /\ Abort(mem)
          /\ UNCHANGED <<api, delayed, jobs, disk, dir, td, session, crashes>>

Refused == (May("refused") \/ May("unknown")) /\ Fault

parameters ==
    /\ At("parameters")
    /\ \/ /\ td.phase = "new"
          /\ td' = [td EXCEPT !.phase = IF session THEN "ready" ELSE "login", !.cred = mem.cred]
          /\ mem' = [mem EXCEPT !.state = IF session THEN "ready" ELSE "awaiting_login",
                                !.ready_generation = IF session THEN mem.auth ELSE @]
          /\ op' = Rest
          /\ UNCHANGED faults
       \/ Refused /\ Deactivate(td)
    /\ UNCHANGED <<api, delayed, jobs, disk, dir, session, crashes>>

Activating == Len(op.todo) > 1 /\ op.todo[2] = "online"

\* apply_proxy: TDLib switches and says so; it refuses; or the answer does
\* not come in time and the switch may still happen.
apply_proxy ==
    /\ At("proxy")
    /\ \/ /\ td.phase # "none"
          /\ td' = [td EXCEPT !.proxy = mem.proxy, !.late = "none"]
          /\ mem' = [mem EXCEPT !.applied_proxy = mem.proxy]
          /\ op' = Rest
          /\ UNCHANGED faults
       \/ /\ td.phase = "none" \/ May("refused")
          /\ faults' = IF td.phase = "none" THEN faults ELSE faults + 1
          /\ IF Activating THEN Deactivate(td) ELSE Abort(mem) /\ UNCHANGED td
       \/ /\ May("unknown") /\ Fault
          /\ td.phase # "none"
          /\ \E late \in {td.late, mem.proxy} :
                IF Activating THEN Deactivate([td EXCEPT !.late = late])
                ELSE Abort(mem) /\ td' = [td EXCEPT !.late = late]
    /\ UNCHANGED <<api, delayed, jobs, disk, dir, session, crashes>>

online ==
    /\ At("online")
    /\ \/ /\ td.phase # "none"
          /\ mem' = [mem EXCEPT !.applied_cred = mem.cred]
          /\ op' = Rest
          /\ UNCHANGED <<td, faults>>
       \/ Refused /\ Deactivate(td)
       \/ td.phase = "none" /\ Deactivate(td) /\ UNCHANGED faults
    /\ UNCHANGED <<api, delayed, jobs, disk, dir, session, crashes>>

-----------------------------------------------------------------------------
(* close_account(): close or destroy the client and wait until it is gone. *)

close ==
    /\ \/ At("close") \/ At("destroy")
    /\ \/ mem.closing /\ Abort(mem) /\ UNCHANGED <<td, faults>>   \* still so at the deadline
       \/ /\ ~mem.closing /\ ~Live(mem)
          /\ op' = [op EXCEPT !.todo = Tail(Tail(@))]
          /\ UNCHANGED <<mem, td, faults>>
       \/ /\ ~mem.closing /\ Live(mem)
          /\ td' = [td EXCEPT !.asked = Head(op.todo)]
          /\ op' = Rest
          /\ UNCHANGED <<mem, faults>>
       \/ /\ ~mem.closing /\ Live(mem) /\ Refused
          /\ td' \in {td, [td EXCEPT !.asked = Head(op.todo)]}
          /\ Abort(mem)
    /\ UNCHANGED <<api, delayed, jobs, disk, dir, session, crashes>>

closed ==
    /\ At("closed")
    /\ \/ /\ mem.closed
          /\ mem' = [mem EXCEPT !.client = FALSE, !.applied_proxy = "none", !.applied_cred = 0]
          /\ op' = Rest
          /\ UNCHANGED faults
       \/ ~mem.closed /\ May("unknown") /\ Fault /\ Abort(mem)
    /\ UNCHANGED <<api, delayed, jobs, disk, dir, td, session, crashes>>

-----------------------------------------------------------------------------
(* The ends of reconcile and update_proxy.                                 *)

\* update_proxy activates a closed client and reconfigures a live one.
switch ==
    /\ At("switch")
    /\ op' = [op EXCEPT !.todo = <<IF Live(mem) THEN "proxy" ELSE "activate">> \o Tail(@)]
    /\ UNCHANGED <<api, delayed, mem, jobs, disk, dir, td, session, faults, crashes>>

complete_NotApplied ==
    /\ At("complete")
    /\ op' = [Rest EXCEPT !.man.lifecycle = IF op.kind = "reconcile" THEN "active" ELSE @,
                          !.man.op = 0, !.man.auth = mem.auth]
    /\ UNCHANGED <<api, delayed, mem, jobs, disk, dir, td, session, faults, crashes>>
complete ==
    /\ At("complete")
    /\ op' = [Rest EXCEPT !.man.lifecycle = IF op.kind = "reconcile" THEN "active" ELSE @,
                          !.man.op = 0, !.man.applied = mem.revision, !.man.auth = mem.auth]
    /\ UNCHANGED <<api, delayed, mem, jobs, disk, dir, td, session, faults, crashes>>

finish ==
    LET m == [mem EXCEPT !.reconciled = TRUE, !.applied = mem.revision, !.op = 0, !.busy = FALSE,
                         !.lifecycle = IF op.kind = "reconcile" THEN "active" ELSE @,
                         !.unpersisted = @ /\ ~(op.kind = "reconcile" /\ mem.auth = op.man.auth)]
    IN /\ At("finish")
       /\ mem' = m
       /\ op' = NoOp
       /\ Reply(Snapshotted(m, op.c, op.kind = "update_proxy"))
       /\ UNCHANGED <<delayed, jobs, disk, dir, td, session, faults, crashes>>

-----------------------------------------------------------------------------
(* logout: its phases are persisted, so that a retry knows how far it got. *)

\* The lambda persist: the phase in memory, then a manifest made from the
\* account and written by the next step.
Persisting(s) == [p |-> IF s = "cleared" THEN "" ELSE s,
                  lifecycle |-> IF s = "cleared" THEN "active" ELSE "logout_pending"]
persist ==
    \E s \in {"intent", "executing", "confirmed", "cleared"} :
       /\ At(s)
       /\ LET m == [mem EXCEPT !.phase = Persisting(s).p]
          IN /\ mem' = m
             /\ op' = [op EXCEPT !.todo = <<"record">> \o Tail(@),
                                 !.man = [snapshot_manifest(m) EXCEPT
                                             !.lifecycle = Persisting(s).lifecycle,
                                             !.op = IF s = "cleared" THEN 0 ELSE op.c.op,
                                             !.applied = IF s = "cleared" THEN m.revision ELSE @]]
       /\ UNCHANGED <<api, delayed, jobs, disk, dir, td, session, faults, crashes>>

\* A client that closed while the logout was executing confirms it.
Decision_NoRecord(m) ==
    CASE m.phase = "confirmed" -> <<"activate", "cleared", "logged_out">>
      [] m.phase = "executing" /\ m.closed -> <<"confirmed", "activate", "cleared", "logged_out">>
      [] OTHER -> <<"activate", "log_out">>
Decision(m) ==
    CASE m.phase = "confirmed" -> <<"activate", "cleared", "logged_out">>
      [] m.phase = "executing" /\ m.closed -> <<"confirmed", "activate", "cleared", "logged_out">>
      [] OTHER -> <<"activate", "executing", "log_out">>

decide ==
    /\ At("decide")
    /\ op' = [op EXCEPT !.todo = Decision(mem)]
    /\ UNCHANGED <<api, delayed, mem, jobs, disk, dir, td, session, faults, crashes>>

log_out ==
    /\ At("log_out")
    /\ \/ /\ td.phase # "none"
          /\ td' = [td EXCEPT !.asked = "logout"]
          /\ UNCHANGED faults
          /\ Reply(Acknowledged(mem.applied, op.c, FALSE))
       \/ td.phase = "none" /\ UNCHANGED <<api, td, faults>>
       \/ May("refused") /\ Fault /\ UNCHANGED <<api, td>>
       \/ /\ May("unknown") /\ Fault
          /\ td' \in {td, [td EXCEPT !.asked = IF td.phase = "none" THEN @ ELSE "logout"]}
          /\ UNCHANGED api
    /\ Abort(mem)
    /\ UNCHANGED <<delayed, jobs, disk, dir, session, crashes>>

logged_out ==
    LET m == [mem EXCEPT !.lifecycle = "active", !.applied = mem.revision, !.op = 0, !.phase = "",
                         !.reconciled = TRUE, !.busy = FALSE]
    IN /\ At("logged_out")
       /\ mem' = m
       /\ op' = NoOp
       /\ Reply(Acknowledged(m.applied, op.c, TRUE))
       /\ UNCHANGED <<delayed, jobs, disk, dir, td, session, faults, crashes>>

-----------------------------------------------------------------------------
(* remove: the client destroyed, the directory deleted, a tombstone kept.  *)

closing ==
    /\ At("closing")
    /\ mem' = [mem EXCEPT !.phase = "closing"]
    /\ op' = [Rest EXCEPT !.man.phase = "closing"]
    /\ UNCHANGED <<api, delayed, jobs, disk, dir, td, session, faults, crashes>>

\* remove_account_directory takes TDLib's database with it.
rmdir ==
    /\ At("rmdir")
    /\ \/ dir' = FALSE /\ session' = FALSE /\ op' = Rest /\ UNCHANGED <<mem, faults>>
       \/ /\ May("write") /\ Fault /\ Abort(mem)
          /\ dir' \in {dir, FALSE} /\ session' \in {session /\ dir', FALSE}
    /\ UNCHANGED <<api, delayed, jobs, disk, td, crashes>>

tombstone ==
    /\ At("tombstone")
    /\ op' = [Rest EXCEPT !.man = [snapshot_manifest(mem) EXCEPT
                 !.lifecycle = "removed", !.tombstone = TRUE, !.phase = "confirmed",
                 !.applied = mem.revision, !.proxy = "inherit"]]
    /\ UNCHANGED <<api, delayed, mem, jobs, disk, dir, td, session, faults, crashes>>

removed ==
    /\ At("removed")
    /\ mem' = [mem EXCEPT !.closed = TRUE, !.applied = mem.revision, !.tombstone = TRUE,
                          !.reconciled = FALSE, !.busy = FALSE, !.lifecycle = "removed",
                          !.phase = "confirmed"]
    /\ op' = NoOp
    /\ Reply(Acknowledged(mem.revision, op.c, TRUE))
    /\ UNCHANGED <<delayed, jobs, disk, dir, td, session, faults, crashes>>

\* An authorization request is answered, or times out and marks the client
\* for recovery.
ask == /\ At("ask")
       /\ \/ Abort(mem) /\ UNCHANGED faults
          \/ May("stall") /\ Fault /\ Abort([mem EXCEPT !.stalled = mem.client])
       /\ td' = [td EXCEPT !.phase = IF @ = "login" THEN "code" ELSE @]
       /\ UNCHANGED <<api, delayed, jobs, disk, dir, session, crashes>>

-----------------------------------------------------------------------------
(* TDLib, and the receive thread that hears of what it does.               *)

\* handle_update, authorization states other than closed.
leave(m, state) ==
    LET leaving == m.state = "ready"
    IN [m EXCEPT !.state = state,
                 !.auth = IF leaving /\ m.auth <= m.ready_generation THEN @ + 1 ELSE @,
                 !.unpersisted = @ \/ leaving,
                 !.reconciled = @ /\ ~leaving]
enter(m) == [m EXCEPT !.state = "ready", !.ready_generation = m.auth]
client_closed(m) ==
    [m EXCEPT !.state = "closed", !.closed = TRUE, !.closing = FALSE, !.client = FALSE,
              !.stalled = FALSE, !.applied_proxy = "none", !.applied_cred = 0,
              !.reconciled = @ /\ m.lifecycle \in {"logout_pending", "removing"} /\ m.state # "ready"]

td_login ==
    /\ td.phase = "code" /\ td.asked = "no"
    /\ td' = [td EXCEPT !.phase = "ready"]
    /\ session' = TRUE
    /\ mem' = enter(mem)
    /\ UNCHANGED <<api, delayed, op, jobs, disk, dir, faults, crashes>>

queue_generation_persist(m) == Append(jobs, m.auth)

\* The session ends: asked for (logOut, destroy), or ended from elsewhere.
td_leaving ==
    /\ \/ td.asked \in {"logout", "destroy"} /\ td.phase \in {"login", "code", "ready"}
       \/ td.asked = "no" /\ td.phase = "ready"
    /\ mem' = leave(mem, "logging_out")
    /\ mem'.auth <= MaxAuth
    /\ td' = [td EXCEPT !.phase = "leaving"]
    /\ session' = FALSE
    /\ jobs' = IF mem.state = "ready" THEN queue_generation_persist(mem') ELSE jobs
    /\ UNCHANGED <<api, delayed, op, disk, dir, faults, crashes>>

td_closed ==
    /\ td.phase = "leaving" \/ td.asked = "close"
    /\ td' = NoClient
    /\ mem' = client_closed(mem)
    /\ UNCHANGED <<api, delayed, op, jobs, disk, dir, session, faults, crashes>>

\* A proxy switch whose answer was given up on takes effect; TDLib handles a
\* later switch after it.
td_late ==
    /\ td.late \in Proxies
    /\ td' = [td EXCEPT !.proxy = td.late, !.late = "came"]
    /\ UNCHANGED <<api, delayed, mem, op, jobs, disk, dir, session, faults, crashes>>

\* receive_once: a client that did not answer an authorization request is
\* told to close.
expire ==
    /\ mem.stalled
    /\ mem' = [mem EXCEPT !.stalled = FALSE, !.closing = TRUE, !.reconciled = FALSE]
    /\ td' = [td EXCEPT !.asked = "close"]
    /\ UNCHANGED <<api, delayed, op, jobs, disk, dir, session, faults, crashes>>

\* Registry::persist_authorization_generation: what the manifest becomes.
persist_authorization_generation(d, g) ==
    IF d = NoManifest \/ d.tombstone \/ d.auth >= g THEN d ELSE [d EXCEPT !.auth = g]

\* One job of the generation-persisting thread; a failed one is retried while
\* its generation is still the account's.
persist_authorizations ==
    /\ jobs # << >>
    /\ LET g == Head(jobs)
           written == persist_authorization_generation(disk, g)
       IN \/ /\ disk' = written
             /\ mem' = [mem EXCEPT !.unpersisted = @ /\ mem.auth # g]
             /\ jobs' = Tail(jobs)
             /\ UNCHANGED faults
          \/ /\ written # disk /\ May("write") /\ Fault
             /\ disk' \in {disk, written}
             /\ mem' = [mem EXCEPT !.reconciled = @ /\ mem.auth # g]
             /\ jobs' = IF mem.auth = g THEN Append(Tail(jobs), g) ELSE Tail(jobs)
    /\ UNCHANGED <<api, delayed, op, dir, td, session, crashes>>

\* A directory without a manifest, which nothing but provisioning may take over.
orphan_account_ids == disk = NoManifest /\ dir

\* RuntimeEngine::start, from the manifest found on disk.
discovered ==
    IF disk = NoManifest THEN [NewAccount EXCEPT !.orphan = orphan_account_ids]
    ELSE [NewAccount EXCEPT !.revision = disk.revision, !.applied = disk.applied,
                            !.auth = disk.auth, !.lifecycle = disk.lifecycle, !.op = disk.op,
                            !.phase = disk.phase, !.fp = disk.fp, !.proxy = disk.proxy,
                            !.tombstone = disk.tombstone, !.closed = disk.tombstone]

\* The runtime dies between two steps and is started again.  stop() is this
\* step taken once the handlers it fails have ended.  The requests it had not
\* begun to serve die with its connections.
Crash ==
    /\ crashes < MaxCrashes
    /\ crashes' = crashes + 1
    /\ mem' = discovered
    /\ op' = NoOp
    /\ jobs' = << >>
    /\ td' = NoClient
    /\ delayed' = IF delayed = NoCall THEN NoCall ELSE Spent
    /\ UNCHANGED <<api, disk, dir, session, faults>>

-----------------------------------------------------------------------------
Init == /\ LET k == CHOOSE c \in Creds : TRUE IN
              api = [lifecycle |-> "provisioning", rev |-> 1, applied |-> 0, auth |-> 1,
                     op |-> 1, lop |-> 0, proxy |-> "inherit", cred |-> k, cid |-> 1]
        /\ delayed = NoCall
        /\ mem = NewAccount
        /\ op = NoOp
        /\ jobs = << >>
        /\ disk = NoManifest
        /\ dir = FALSE
        /\ td = NoClient
        /\ session = FALSE
        /\ faults = 0
        /\ crashes = 0

Wanted == logout_wanted \/ remove_wanted \/ proxy_wanted \/ settings_updated
Steps == \/ record \/ dirs \/ activate \/ failed \/ parameters \/ apply_proxy \/ online
         \/ close \/ closed \/ switch \/ complete \/ finish
         \/ persist \/ decide \/ log_out \/ logged_out
         \/ closing \/ rmdir \/ tombstone \/ removed \/ ask
Tdlib == td_login \/ td_leaving \/ td_closed \/ td_late \/ expire

Next == \/ Wanted \/ refresh \/ Submit \/ Delay \/ Arrive
        \/ Steps \/ Tdlib \/ persist_authorizations \/ Crash

Spec == Init /\ [][Next]_vars

-----------------------------------------------------------------------------
\* The state stays within the types of AccountState and AccountManifest, a
\* handler runs exactly while the account is marked busy (so no failed
\* operation leaves the account busy for ever), and there is at most one
\* client, which the memory knows of.
TypeOK ==
    /\ mem.busy <=> op # NoOp
    /\ mem.client <=> td.phase # "none"
    /\ mem.closed => ~mem.client
    /\ api.applied <= api.rev /\ disk.applied <= disk.revision /\ mem.applied <= mem.revision
    /\ disk.revision <= mem.revision /\ mem.revision <= MaxRev

\* read_fence: the account may be read.
Readable == /\ mem.reconciled /\ ~mem.closed /\ ~mem.tombstone /\ mem.lifecycle = "active"
            /\ mem.state = "ready" /\ mem.client /\ ~mem.unpersisted

\* While an account is readable the authorization generation it is read under
\* is on disk, so a restarted runtime never serves an older generation.
ServedIsDurable == Readable => disk.auth >= mem.auth

\* When no operation is running or left to resume, a reconciled account runs
\* TDLib with the proxy its record asks for, and what the record says of the
\* credentials in use is true, whatever failed and was retried before: a
\* failed step is never taken for done.  The exception is a proxy switch that
\* TDLib makes after its answer was given up on: applied_proxy does not see it.
SettledIsActual ==
    /\ ~mem.busy /\ mem.reconciled /\ mem.op = 0 /\ Live(mem)
         => td.proxy = mem.proxy \/ td.late # "none"
    /\ mem.applied_cred # 0 => td.cred = mem.applied_cred

\* A revision the API has recorded as applied is on disk as applied: no crash
\* of the runtime takes it back.
AppliedSurvives == api.lifecycle # "removed" => api.applied <= disk.applied

\* Nothing confirmed is lost in a crash: neither the generation reads are served
\* under nor a revision the API holds for applied; and no operation leaves the
\* account busy.
ConfirmedIsDurable == TypeOK /\ ServedIsDurable /\ AppliedSurvives

\* An account the API takes as removed has a tombstone and neither directory
\* nor client, and a tombstone is for ever: no late or repeated command
\* brings the account back.
RemovedForGood ==
    /\ api.lifecycle = "removed" => disk.tombstone
    /\ disk.tombstone => ~dir /\ ~mem.client

\* TDLib is reconfigured, logged out or destroyed only when the manifest on
\* disk already says so: a crash at any point finds the intent.
WriteAhead ==
    [][/\ (td'.proxy # td.proxy /\ td'.proxy # "none" /\ op.kind \in {"reconcile", "update_proxy"})
             => disk.proxy = td'.proxy /\ disk.revision = mem.revision
       /\ (td'.asked = "logout" /\ td.asked # "logout")
             => disk.lifecycle = "logout_pending" /\ disk.phase = "executing"
       /\ (td'.asked = "destroy" /\ td.asked # "destroy")
             => disk.lifecycle = "removing" /\ disk.phase = "closing"]_vars

\* The manifest never goes back to an older revision, and a tombstone the
\* runtime has acknowledged or found at its start is never overwritten.
DiskMonotone == [][/\ disk'.revision >= disk.revision
                   /\ mem.tombstone => disk' = disk]_vars

\* The manifest leads: it is written before TDLib is changed, and never goes back.
DiskLeads == WriteAhead /\ DiskMonotone
=============================================================================
