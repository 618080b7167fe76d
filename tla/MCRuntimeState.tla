--------------------------- MODULE MCRuntimeState ---------------------------
(***************************************************************************)
(* Four parts of the runtime that share no state: the operations on an     *)
(* account (AccountOps), the paged chat list (ChatPages), the message      *)
(* cache and its budgets (AccountStore), and the media previews            *)
(* (MediaSources).  They are checked side by side: "part" says which one a *)
(* behaviour is about, and the others stay where they start.               *)
(***************************************************************************)
EXTENDS ChatPages

CONSTANTS Proxies, Creds, MaxRev, MaxAuth, Faults, MaxFaults, MaxCrashes,
          StoreAccounts, Messages, Date, Sizes, Senders, Watched, PerChat, PerAccount, PerProcess, Bytes, Scan,
          MediaAccounts, Files, Owner, Size, Requests, TotalBytes, MaxAttempts, MaxAsked

\* Two chats of the same order, which their ids tell apart, and one above them.
Tied == [c \in Ids |-> IF c = 3 THEN 2 ELSE 1]

\* Two messages of a chat and one each of two more; the newest chat has the oldest message.
SomeMessages == {<<1, 1>>, <<1, 2>>, <<2, 1>>, <<3, 1>>}
Dates == [k \in Messages |-> IF k[1] = 3 THEN 0 ELSE k[1] + k[2]]
SenderSets == [a \in StoreAccounts |-> IF a = 1 THEN {1, 2, 3} ELSE {}]
WatchedSets == [a \in StoreAccounts |-> IF a = 1 THEN {1, 3} ELSE {}]

\* A file of each account.
OneEach == [f \in Files |-> IF f = 1 THEN "a" ELSE "b"]
UnitSize == [f \in Files |-> 1]

VARIABLES part,
          api, delayed, mem, op, jobs, disk, dir, td, logged_in, faults, crashes,
          accounts, store,
          epoch, files, media, evictions, requests, asked

accountVars == <<api, delayed, mem, op, jobs, disk, dir, td, logged_in, faults, crashes>>
storeVars == <<accounts, store>>
mediaVars == <<epoch, files, media, evictions, requests, asked>>

Account == INSTANCE AccountOps WITH session <- logged_in
Cache == INSTANCE AccountStore WITH Accounts <- StoreAccounts, Keys <- Messages
Media == INSTANCE MediaSources WITH Accounts <- MediaAccounts
ASSUME StateConstants == ConstantsAssumption /\ Cache!ConstantsAssumption /\ Media!ConstantsAssumption

StateInit == /\ part \in {"operations", "pages", "cache", "media"}
             /\ Init /\ Account!Init /\ Cache!Init /\ Media!Init
StateNext == /\ UNCHANGED part
             /\ \/ part = "operations" /\ Account!Next /\ UNCHANGED <<vars, storeVars, mediaVars>>
                \/ part = "pages" /\ Next /\ UNCHANGED <<accountVars, storeVars, mediaVars>>
                \/ part = "cache" /\ Cache!Next /\ UNCHANGED <<vars, accountVars, mediaVars>>
                \/ part = "media" /\ Media!Next /\ UNCHANGED <<vars, accountVars, storeVars>>
StateSpec == StateInit /\ [][StateNext]_<<part, vars, accountVars, storeVars, mediaVars>>

-----------------------------------------------------------------------------
(* The properties of the instances, whose modules say what they mean.      *)

\* Nothing confirmed is lost in a crash, and no operation leaves the account busy.
ConfirmedIsDurable == part = "operations" => Account!ConfirmedIsDurable

\* At rest TDLib is what the record of the account says.
SettledIsActual == part = "operations" => Account!SettledIsActual

\* A removed account leaves a tombstone only, for ever.
RemovedForGood == part = "operations" => Account!RemovedForGood

\* The manifest is written before TDLib is changed, and never goes back.
DiskLeads == Account!DiskLeads

\* After every operation the indices of the cache agree and every budget is kept.
CacheSound == part = "cache" => Cache!CacheSound

\* The byte counters of the previews never wrap around, and downloads fit the budget.
MediaSound == part = "media" => Media!MediaSound
=============================================================================
