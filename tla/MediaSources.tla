----------------------------- MODULE MediaSources -----------------------------
(***************************************************************************)
(* The preview files of the read service: the table of downloads and ready *)
(* files with the bytes they reserve and occupy, guarded by                *)
(* refresh_mutex_, and the requests that ask TDLib between two holdings of *)
(* it.  Source: media_sources.cpp.  Evictions are jobs of the refresh      *)
(* thread (module RefreshQueue); here they are the set of files to delete. *)
(*                                                                         *)
(* A preview file is its owner and a size.  What decides whether a message *)
(* has one (albums, restrictions, spoilers) comes before any state changes *)
(* and is left out.  Time is the flags of an entry: its retry is due, its  *)
(* failure is past its lifetime, its download was not asked for too long.  *)
(***************************************************************************)
EXTENDS Integers, Sequences, FiniteSets, SequencesExt, FiniteSetsExt

CONSTANTS Accounts, Files,
          Owner,          \* the account of a file
          Size,           \* its size, as declared and as downloaded
          Requests,       \* concurrent media requests
          TotalBytes,     \* preview_total_bytes
          MaxAttempts,    \* media_max_attempts
          MaxEpoch,       \* bound: sessions of an account
          MaxAsked        \* bound: media requests in all

ConstantsAssumption ==
  /\ Owner \in [Files -> Accounts] /\ Size \in [Files -> 1..TotalBytes]
  /\ {TotalBytes, MaxAttempts, MaxEpoch, MaxAsked} \subseteq Nat \ {0}

VARIABLES epoch,      \* current session of each account
          files,      \* TDLib's files: absent, active, complete
          media,      \* media_entries_ by key, their order of use and the two byte counters
          evictions,  \* files an eviction job is queued for
          requests,   \* media requests
          asked       \* how many there have been (bound)
vars == <<epoch, files, media, evictions, requests, asked>>

Keys == Files \X (1..MaxEpoch)       \* media_key: file and session
Uuid(key) == Owner[key[1]]
Idle == [phase |-> "idle"]

Init ==
  /\ epoch = [a \in Accounts |-> 1]
  /\ files = [f \in Files |-> "absent"]
  /\ media = [entries |-> [k \in {} |-> 0], used |-> <<>>, reserved |-> 0, cached |-> 0]
  /\ evictions = {}
  /\ requests = [r \in Requests |-> Idle]
  /\ asked = 0

-----------------------------------------------------------------------------
(* The table of previews.  s is [media, evictions] *)

Without(f, k) == [x \in DOMAIN f \ {k} |-> f[x]]

Touched(md, k) == [md EXCEPT !.used = Append(SelectSeq(@, LAMBDA x : x # k), k)]

drop_media(md, k) ==
  IF k \notin DOMAIN md.entries THEN md
  ELSE [entries |-> Without(md.entries, k), used |-> SelectSeq(md.used, LAMBDA x : x # k),
        reserved |-> md.reserved - md.entries[k].reserved, cached |-> md.cached - md.entries[k].ready]

release_media_KeepsReserved(md, k, ready) ==
  IF k \notin DOMAIN md.entries THEN md
  ELSE LET e == md.entries[k]
           free == [md EXCEPT !.reserved = @ - e.reserved]
       IN  IF ready
           THEN Touched([free EXCEPT !.cached = @ + Size[k[1]],
                  !.entries[k] = [@ EXCEPT !.state = "ready", !.ready = Size[k[1]], !.attempts = 0]], k)
           ELSE [free EXCEPT !.entries[k] = [@ EXCEPT !.state = "failed", !.ready = 0,
                  !.attempts = @ + 1, !.due = FALSE, !.old = FALSE]]

release_media(md, k, ready) ==
  IF k \notin DOMAIN md.entries THEN md
  ELSE LET e == md.entries[k]
           free == [md EXCEPT !.reserved = @ - e.reserved, !.entries[k].reserved = 0]
       IN  IF ready
           THEN Touched([free EXCEPT !.cached = @ + Size[k[1]],
                  !.entries[k] = [@ EXCEPT !.state = "ready", !.ready = Size[k[1]], !.attempts = 0]], k)
           ELSE [free EXCEPT !.entries[k] = [@ EXCEPT !.state = "failed", !.ready = 0,
                  !.attempts = @ + 1, !.due = FALSE, !.old = FALSE]]

\* The entry goes and its file is to be deleted
Evicted(s, k) == [media |-> drop_media(s.media, k), evictions |-> s.evictions \cup {k[1]}]

\* Entries of other sessions, abandoned downloads and forgotten failures go
trim_media_entries(s, key) ==
  LET e == s.media.entries
      Stale(k) == Uuid(k) = Uuid(key) /\ k[2] # key[2]
      Gone(k) == \/ Stale(k)
                 \/ e[k].state = "downloading" /\ e[k].idle
                 \/ e[k].state = "failed" /\ e[k].old
      Trim(acc, k) == IF e[k].state # "failed" THEN Evicted(acc, k)
                      ELSE [acc EXCEPT !.media = drop_media(@, k)]
  IN  FoldLeft(Trim, s, SetToSeq({k \in DOMAIN e : Gone(k)}))

Fits(md, k) == md.reserved + md.cached + Size[k[1]] <= TotalBytes

\* Ready files make room, least recently used first; running downloads do not
reserve_media(s, k) ==
  LET Victim(x) == x # k /\ s.media.entries[x].state = "ready"
      room == FoldLeft(LAMBDA acc, x : IF Fits(acc.media, k) THEN acc ELSE Evicted(acc, x),
                       s, SelectSeq(s.media.used, Victim))
      attempts == IF k \in DOMAIN room.media.entries THEN room.media.entries[k].attempts ELSE 0
      entry == [state |-> "downloading", reserved |-> Size[k[1]], ready |-> 0, attempts |-> attempts,
                due |-> FALSE, old |-> FALSE, idle |-> FALSE]
      bare == drop_media(room.media, k)
  IN  IF ~Fits(room.media, k) THEN [s |-> room, ok |-> FALSE]
      ELSE [s |-> [room EXCEPT !.media =
                     Touched([bare EXCEPT !.reserved = @ + Size[k[1]],
                                          !.entries = [x \in DOMAIN @ \cup {k} |-> IF x = k THEN entry ELSE @[x]]], k)],
            ok |-> TRUE]

-----------------------------------------------------------------------------
(* A media request *)

Finish(r) == requests' = [requests EXCEPT ![r] = Idle]

\* The message is known to have a preview; getFile is sent
media_ask(r) ==
  /\ requests[r] = Idle /\ asked < MaxAsked /\ asked' = asked + 1
  /\ \E f \in Files : requests' = [requests EXCEPT ![r] = [phase |-> "file", key |-> <<f, epoch[Owner[f]]>>]]
  /\ UNCHANGED <<epoch, files, media, evictions>>

\* getFile answers what TDLib has now, or the request ends as downloading
media_file(r) ==
  LET q == requests[r] IN
  /\ q.phase = "file"
  /\ \/ requests' = [requests EXCEPT ![r] = [phase |-> "decide", key |-> q.key, file |-> files[q.key[1]]]]
     \/ Finish(r)
  /\ UNCHANGED <<epoch, files, media, evictions, asked>>

\* What the answer means for the table: [s, start]
Decided(s, k, file) ==
  LET known == k \in DOMAIN s.media.entries
      state == IF known THEN s.media.entries[k].state ELSE "none"
      failing == IF state = "downloading" THEN [s EXCEPT !.media = release_media(@, k, FALSE)] ELSE s
      failed == known /\ failing.media.entries[k].state = "failed"
      waits == failed /\ (failing.media.entries[k].attempts >= MaxAttempts \/ ~failing.media.entries[k].due)
  IN  CASE file = "complete" ->
             LET out == IF known THEN [s |-> s, ok |-> TRUE] ELSE reserve_media(s, k)
                 md == IF out.ok /\ state # "ready" THEN release_media(out.s.media, k, TRUE) ELSE out.s.media
             IN  [s |-> [out.s EXCEPT !.media = IF out.ok THEN Touched(md, k) ELSE md], start |-> FALSE]
        [] file = "active" /\ state = "downloading" ->
             [s |-> [s EXCEPT !.media = Touched([@ EXCEPT !.entries[k].idle = FALSE], k)], start |-> FALSE]
        [] OTHER ->
             IF waits THEN [s |-> failing, start |-> FALSE]
             ELSE LET out == reserve_media(failing, k) IN [s |-> out.s, start |-> out.ok]

media_decide(r) ==
  LET q == requests[r]
      out == Decided(trim_media_entries([media |-> media, evictions |-> evictions], q.key), q.key, q.file)
      next == IF out.start THEN {"start"} ELSE IF q.file = "complete" THEN {"idle", "read"} ELSE {"idle"}
  IN
  /\ q.phase = "decide"
  /\ media' = out.s.media /\ evictions' = out.s.evictions
  /\ \E p \in next : requests' = [requests EXCEPT ![r] = IF p = "idle" THEN Idle ELSE [phase |-> p, key |-> q.key]]
  /\ UNCHANGED <<epoch, files, asked>>

\* downloadFile: accepted, or the reservation is released although TDLib may have started
media_start(r) ==
  LET k == requests[r].key
      started == [files EXCEPT ![k[1]] = IF @ = "absent" THEN "active" ELSE @]
  IN
  /\ requests[r].phase = "start"
  /\ \/ files' = started /\ UNCHANGED media
     \/ files' \in {files, started} /\ media' = release_media(media, k, FALSE)
  /\ Finish(r)
  /\ UNCHANGED <<epoch, evictions, asked>>

\* readFilePart: the bytes, or a ready entry is dropped
media_read(r) ==
  LET k == requests[r].key IN
  /\ requests[r].phase = "read"
  /\ \/ files[k[1]] = "complete" /\ UNCHANGED media
     \/ media' = IF k \in DOMAIN media.entries /\ media.entries[k].state = "ready" THEN drop_media(media, k) ELSE media
  /\ Finish(r)
  /\ UNCHANGED <<epoch, files, evictions, asked>>

-----------------------------------------------------------------------------
(* Around them *)

\* TDLib finishes or loses a download
td_download(f) ==
  /\ files[f] = "active"
  /\ files' \in {[files EXCEPT ![f] = s] : s \in {"complete", "absent"}}
  /\ UNCHANGED <<epoch, media, evictions, requests, asked>>

\* The refresh thread runs an eviction: deleteFile, if TDLib answers
run_eviction(f) ==
  /\ f \in evictions
  /\ evictions' = evictions \ {f}
  /\ files' \in {files, [files EXCEPT ![f] = "absent"]}
  /\ UNCHANGED <<epoch, media, requests, asked>>

\* Time passes for an entry
elapse(k) ==
  LET e == media.entries[k] IN
  /\ k \in DOMAIN media.entries
  /\ \/ e.state = "downloading" /\ ~e.idle /\ media' = [media EXCEPT !.entries[k].idle = TRUE]
     \/ e.state = "failed" /\ ~e.due /\ media' = [media EXCEPT !.entries[k].due = TRUE]
     \/ e.state = "failed" /\ e.due /\ ~e.old /\ media' = [media EXCEPT !.entries[k].old = TRUE]
  /\ UNCHANGED <<epoch, files, evictions, requests, asked>>

\* The account enters a new session
new_session(a) ==
  /\ epoch[a] < MaxEpoch
  /\ epoch' = [epoch EXCEPT ![a] = @ + 1]
  /\ UNCHANGED <<files, media, evictions, requests, asked>>

\* cancel_account, after a logout or a removal
cancel_account(a) ==
  /\ (\E f \in evictions : Owner[f] = a) \/ (\E k \in DOMAIN media.entries : Uuid(k) = a)
  /\ evictions' = {f \in evictions : Owner[f] # a}
  /\ media' = FoldLeft(drop_media, media, SetToSeq({k \in DOMAIN media.entries : Uuid(k) = a}))
  /\ UNCHANGED <<epoch, files, requests, asked>>

Next ==
  \/ \E a \in Accounts : new_session(a) \/ cancel_account(a)
  \/ \E r \in Requests : \/ media_ask(r) \/ media_file(r) \/ media_decide(r)
                         \/ media_start(r) \/ media_read(r)
  \/ \E f \in Files : td_download(f) \/ run_eviction(f)
  \/ \E k \in Keys : elapse(k)

Spec == Init /\ [][Next]_vars

-----------------------------------------------------------------------------
(* Properties *)

Sum(field(_)) == MapThenSumSet(LAMBDA k : field(media.entries[k]), DOMAIN media.entries)

\* Every variable keeps its shape; the order of use lists exactly the entries, each once.
TypeOK ==
  /\ epoch \in [Accounts -> 1..MaxEpoch] /\ files \in [Files -> {"absent", "active", "complete"}]
  /\ DOMAIN media.entries \subseteq Keys
  /\ ToSet(media.used) = DOMAIN media.entries /\ IsInjective(media.used)
  /\ \A k \in DOMAIN media.entries :
       /\ media.entries[k].state \in {"downloading", "ready", "failed"}
       /\ media.entries[k].reserved = IF media.entries[k].state = "downloading" THEN Size[k[1]] ELSE 0
       /\ media.entries[k].ready = IF media.entries[k].state = "ready" THEN Size[k[1]] ELSE 0
  /\ evictions \subseteq Files
  /\ \A r \in Requests : requests[r].phase \in {"idle", "file", "decide", "start", "read"}

\* The byte counters never run below what the entries hold, so that no subtraction wraps
\* around, running downloads are counted exactly, and they alone fit the budget (drop_media,
\* release_media, reserve_media, trim_media_entries, cancel_account).
BytesAccounted ==
  /\ media.reserved = Sum(LAMBDA e : e.reserved) /\ media.reserved <= TotalBytes
  /\ media.cached >= Sum(LAMBDA e : e.ready)

\* The table of previews is typed and its bytes are accounted for.
MediaSound == TypeOK /\ BytesAccounted

=============================================================================
