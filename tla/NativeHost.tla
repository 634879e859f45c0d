----------------------------- MODULE NativeHost -----------------------------
(***************************************************************************)
(* The native host (src-tauri/src): commands on threads of their own share *)
(* the session, the storage, the project and the SQL host, each behind a   *)
(* mutex.  A pump holds all four while the runtime runs and while a SQL    *)
(* statement publishes to the project's storage (native_sql.rs,            *)
(* storage/execution.rs).  An operation that retires the project cancels   *)
(* the statement first, without those locks, and then empties them one     *)
(* after the other.                                                        *)
(*                                                                         *)
(* A critical section that waits for no other lock is one step; so a lock  *)
(* has an owner only while its holder waits for another one or pumps.      *)
(* Operations - creating a session, opening and reloading a project - come *)
(* one at a time, which the store's transition lock sees to.               *)
(***************************************************************************)
EXTENDS Naturals

CONSTANTS
  Commands,    \* threads that run commands
  Projects,    \* projects the player opens
  MaxStarts,   \* bound: commands that are started
  MaxRequests, \* NATIVE_PUMP_MAXIMUM_EXTERNAL_REQUESTS, of one pump
  None

ASSUME NoneAssumption == None \notin Commands \cup Projects \cup {"blank"} /\ "blank" \notin Projects
ASSUME BoundsAssumption == MaxStarts \in Nat /\ MaxRequests \in Nat

Locks == {"session", "storage", "project", "sql"}
Blank == "blank"   \* a session without a project

VARIABLES
  pc,        \* where a command is: mostly what it waits for
  lock,      \* the owner of each mutex
  loaded,    \* AppState.session: None, Blank, or the project its runtime has loaded
  storage,   \* AppState.storage: the project whose files it serves, or None
  project,   \* AppState.project
  target,    \* the project the operation opens; None when it creates a session or reloads
  cancelled, \* SqlCancellation.cancelled
  handle,    \* SqlCancellation.owner: "none", "live", or "cut" after its cancel()
  provider,  \* NativeSqlHost.owner exists
  requests,  \* SQL requests of this pump
  stage,     \* the statement: "off", "creating" its provider, "running" in SQLite, in
             \* "storage", "entering" and "publishing" there, or "returned"
  outcome,   \* StorageExecution.outcome
  expired,   \* its deadline has passed
  disk,      \* history: its last publication: "none", "unsure" or "whole"
  late,      \* history: publications it entered after it was cancelled or had expired
  answer,    \* the last answer to a SQL request
  starts

slots == <<loaded, storage, project>>
cancelVars == <<cancelled, handle>>
guardVars == <<outcome, expired, disk, late>>
sqlVars == <<provider, stage, guardVars, answer>>
vars == <<pc, lock, slots, target, cancelVars, sqlVars, requests, starts>>

Init ==
  /\ pc = [c \in Commands |-> "idle"] /\ lock = [k \in Locks |-> None]
  /\ loaded = None /\ storage = None /\ project = None /\ target = None
  /\ cancelled = FALSE /\ handle = "none"
  /\ provider = FALSE /\ stage = "off" /\ requests = 0
  /\ outcome = 0 /\ expired = FALSE /\ disk = "none" /\ late = 0 /\ answer = "none"
  /\ starts = 0

Operations == {"cancelRuntime", "cutRuntime", "take", "cancel", "cut", "takeStorage",
  "takeProject", "shutdown", "load", "install", "installProject", "renew",
  "reload", "submit", "finalize"}
Operating == \E c \in Commands : pc[c] \in Operations

-----------------------------------------------------------------------------
(* Locks. *)

At(c, here) == pc[c] = here
Moves(c, there) == pc' = [pc EXCEPT ![c] = there]

\* The command waits for k, takes it and keeps it.
Locking(c, k) == lock[k] = None /\ lock' = [lock EXCEPT ![k] = c]

\* A critical section of k alone.
Within(k) == lock[k] = None /\ UNCHANGED lock

\* The command returns, and its guards are dropped.
Returns(c) ==
  /\ Moves(c, "idle")
  /\ lock' = [k \in Locks |-> IF lock[k] = c THEN None ELSE lock[k]]

-----------------------------------------------------------------------------
(* Commands that pump, serve a storage request or list the saves. *)

\* A command is invoked; an operation only when no other is under way.
Start(c, there, p) ==
  /\ At(c, "idle") /\ starts < MaxStarts /\ starts' = starts + 1
  /\ there \in Operations => ~Operating /\ target' = p
  /\ there \notin Operations => UNCHANGED target
  /\ Moves(c, there)
  /\ UNCHANGED <<lock, slots, cancelVars, sqlVars, requests>>

Starts(c) ==
  \/ \E there \in {"pump", "request", "saves", "reload", "cancelRuntime"} : Start(c, there, None)
  \/ \E p \in Projects : Start(c, "cancel", p)

\* pump and submit_runtime_and_pump lock the session, then the storage, then the project,
\* unless there is no session, or it refuses the submission.
PumpSession(c) ==
  /\ At(c, "pump") /\ lock["session"] = None
  /\ \/ Returns(c)
     \/ loaded # None /\ Locking(c, "session") /\ Moves(c, "pumpStorage")
  /\ UNCHANGED <<slots, target, cancelVars, sqlVars, requests, starts>>

PumpStorage(c) ==
  /\ At(c, "pumpStorage") /\ Locking(c, "storage") /\ Moves(c, "pumpProject")
  /\ UNCHANGED <<slots, target, cancelVars, sqlVars, requests, starts>>

PumpProject(c) ==
  /\ At(c, "pumpProject") /\ Locking(c, "project") /\ Moves(c, "pumpSql")
  /\ UNCHANGED <<slots, target, cancelVars, sqlVars, requests, starts>>

\* Without a storage the session is pumped without the host.
PumpSql(c) ==
  /\ At(c, "pumpSql")
  /\ IF storage = None
     THEN Returns(c) /\ UNCHANGED requests
     ELSE Locking(c, "sql") /\ Moves(c, "drive") /\ requests' = 0
  /\ UNCHANGED <<slots, target, cancelVars, sqlVars, starts>>

\* The pump returns its batch, or an error of the runtime or of the providers' synchronization.
PumpEnds(c) ==
  /\ At(c, "drive") /\ stage = "off" /\ Returns(c)
  /\ UNCHANGED <<slots, target, cancelVars, sqlVars, requests, starts>>

\* storage_request locks the storage and then the project.
RequestStorage(c) ==
  /\ At(c, "request") /\ Locking(c, "storage") /\ Moves(c, "requestProject")
  /\ UNCHANGED <<slots, target, cancelVars, sqlVars, requests, starts>>

RequestProject(c) ==
  /\ At(c, "requestProject") /\ Locking(c, "project") /\ Moves(c, "serve")
  /\ UNCHANGED <<slots, target, cancelVars, sqlVars, requests, starts>>

Serve(c) ==
  /\ At(c, "serve") /\ Returns(c)
  /\ UNCHANGED <<slots, target, cancelVars, sqlVars, requests, starts>>

\* The commands of the traditional saves keep the session while they lock the storage.
SavesSession(c) ==
  /\ At(c, "saves") /\ lock["session"] = None
  /\ \/ Returns(c)
     \/ loaded # None /\ Locking(c, "session") /\ Moves(c, "savesStorage")
  /\ UNCHANGED <<slots, target, cancelVars, sqlVars, requests, starts>>

SavesStorage(c) ==
  /\ At(c, "savesStorage") /\ lock["storage"] = None /\ Returns(c)
  /\ UNCHANGED <<slots, target, cancelVars, sqlVars, requests, starts>>

-----------------------------------------------------------------------------
(* A SQL statement, on the thread of the pump. *)

Cut == cancelled \/ expired

\* NativeSqlHost::handle and execute: a guard of its own, its first checkpoint, a provider.
\* A provider the runtime has retired is refused before SQLite is asked.
SqlBegins(c) ==
  /\ At(c, "drive") /\ stage = "off" /\ requests < MaxRequests
  /\ requests' = requests + 1
  /\ outcome' = 0 /\ expired' = FALSE /\ disk' = "none" /\ late' = 0 /\ answer' = "none"
  /\ \/ ~cancelled /\ stage' = IF provider THEN "running" ELSE "creating"
     \/ stage' = "returned"
  /\ UNCHANGED <<pc, lock, slots, target, cancelVars, provider, starts>>

\* SqlCancellation::attach looks at the flag under the mutex of the handle.  The new provider
\* is registered and kept, or dropped when that fails.
SqlAttaches(c) ==
  /\ At(c, "drive") /\ stage = "creating"
  /\ handle' = IF cancelled THEN "cut" ELSE "live"
  /\ \/ provider' = TRUE /\ stage' = "running"
     \/ stage' = "returned" /\ UNCHANGED provider
  /\ UNCHANGED <<pc, lock, slots, target, cancelled, guardVars, answer, requests, starts>>

\* SQLite ends the statement by itself: with an answer, or with an error.
SqlEnds(c) ==
  /\ At(c, "drive") /\ stage = "running" /\ stage' = "returned"
  /\ UNCHANGED <<pc, lock, slots, target, cancelVars, provider, guardVars, answer, requests, starts>>

\* A cancelled handle ends whatever runs.
SqlStops(c) == handle = "cut" /\ SqlEnds(c)

\* SqlCancellation::cancel as a callback of the statement calls it.
CutsItself == cancelled' = TRUE /\ handle' = IF handle = "live" THEN "cut" ELSE handle

\* SQLite asks for a file.  Past its checkpoint the statement cancels itself instead.
SqlAsks(c) ==
  /\ At(c, "drive") /\ stage = "running"
  /\ IF Cut
     THEN CutsItself /\ UNCHANGED stage
     ELSE stage' = "storage" /\ UNCHANGED cancelVars
  /\ UNCHANGED <<pc, lock, slots, target, provider, guardVars, answer, requests, starts>>

\* The answer of the storage: what was read, a result or an error; a new checkpoint follows.
Answered ==
  /\ stage' = "running"
  /\ IF Cut THEN CutsItself ELSE UNCHANGED cancelVars

\* A read, a cached result, an error, or a write that stops at one of its checkpoints.
StorageAnswers(c) ==
  /\ At(c, "drive") /\ stage = "storage"
  /\ Answered
  /\ UNCHANGED <<pc, lock, slots, target, provider, guardVars, answer, requests, starts>>

\* The checkpoint of publish.
StorageChecks(c) ==
  /\ At(c, "drive") /\ stage = "storage" /\ ~Cut
  /\ stage' = "entering"
  /\ UNCHANGED <<pc, lock, slots, target, cancelVars, provider, guardVars, answer, requests, starts>>

\* Mutant: only the first publication of a statement is marked as attempted.
AttemptsOnce == outcome' = IF outcome = 0 THEN 1 ELSE outcome

\* The publication is attempted, whatever becomes of the system call.
Attempts == outcome' = 1

\* The system call is entered: a plain write truncates its file.
StorageEnters(c) ==
  /\ At(c, "drive") /\ stage = "entering" /\ stage' = "publishing"
  /\ Attempts
  /\ disk' = "unsure"
  /\ late' = late + (IF Cut THEN 1 ELSE 0)
  /\ UNCHANGED <<pc, lock, slots, target, cancelVars, provider, expired, answer, requests, starts>>

\* It returns; its result is kept although the statement may have been cancelled meanwhile.
StoragePublishes(c) ==
  /\ At(c, "drive") /\ stage = "publishing"
  /\ \/ outcome' = 2 /\ disk' = "whole"
     \/ UNCHANGED <<outcome, disk>>
  /\ Answered
  /\ UNCHANGED <<pc, lock, slots, target, provider, expired, late, answer, requests, starts>>

\* The 30 seconds of the request are over.
DeadlinePasses ==
  /\ stage # "off" /\ ~expired /\ expired' = TRUE
  /\ UNCHANGED <<pc, lock, slots, target, cancelVars, provider, stage, outcome, disk, late, answer,
                 requests, starts>>

\* What the service error says; a checkpoint that fails makes an error of an answer.
Failure == CASE outcome = 0 -> "not_committed" [] outcome = 1 -> "unknown" [] OTHER -> "committed"

SqlAnswers(c) ==
  /\ At(c, "drive") /\ stage = "returned" /\ stage' = "off"
  /\ answer' \in {Failure} \cup (IF Cut THEN {} ELSE {"ready"})
  /\ UNCHANGED <<pc, lock, slots, target, cancelVars, provider, guardVars, requests, starts>>

-----------------------------------------------------------------------------
(* Operations. *)

\* SqlCancellation::cancel sets the flag, and then cancels the handle under its mutex.
Cancels(c, here, there) ==
  /\ At(c, here) /\ Moves(c, there) /\ cancelled' = TRUE
  /\ UNCHANGED <<lock, slots, target, handle, sqlVars, requests, starts>>

Cuts(c, here, there) ==
  /\ At(c, here) /\ Moves(c, there)
  /\ handle' = IF handle = "live" THEN "cut" ELSE handle
  /\ UNCHANGED <<lock, slots, target, cancelled, sqlVars, requests, starts>>

\* retire_runtime_state takes the session and goes on with retire_project_state.
TakesSession(c) ==
  /\ At(c, "take") /\ Within("session") /\ loaded' = None /\ Moves(c, "cancel")
  /\ UNCHANGED <<storage, project, target, cancelVars, sqlVars, requests, starts>>

TakesStorage(c) ==
  /\ At(c, "takeStorage") /\ Within("storage") /\ storage' = None /\ Moves(c, "takeProject")
  /\ UNCHANGED <<loaded, project, target, cancelVars, sqlVars, requests, starts>>

TakesProject(c) ==
  /\ At(c, "takeProject") /\ Within("project") /\ project' = None /\ Moves(c, "shutdown")
  /\ UNCHANGED <<loaded, storage, target, cancelVars, sqlVars, requests, starts>>

\* NativeSqlHost::shutdown; when the actor does not confirm its end the operation fails.
ShutsDown(c) ==
  /\ At(c, "shutdown") /\ lock["sql"] = None
  /\ \/ /\ provider' = FALSE /\ handle' = "none" /\ cancelled' = FALSE
        /\ Moves(c, IF target = None THEN "renew" ELSE "load")
        /\ UNCHANGED lock
     \/ provider /\ Returns(c) /\ UNCHANGED <<cancelVars, provider>>
  /\ UNCHANGED <<slots, target, stage, guardVars, answer, requests, starts>>

\* create_session stores its session; destroy_session and a failing constructor do not.
Renews(c) ==
  /\ At(c, "renew") /\ lock["session"] = None
  /\ loaded' \in {Blank, loaded}
  /\ Returns(c)
  /\ UNCHANGED <<storage, project, target, cancelVars, sqlVars, requests, starts>>

\* open_project scans the files and loads them into the session, which may fail.
Loads(c) ==
  /\ At(c, "load") /\ lock["session"] = None
  /\ \/ loaded # None /\ loaded' = target /\ Moves(c, "install") /\ UNCHANGED lock
     \/ Returns(c) /\ UNCHANGED loaded
  /\ UNCHANGED <<storage, project, target, cancelVars, sqlVars, requests, starts>>

\* Mutant: each owner is published under its own lock.
InstallsAlone(c) ==
  /\ At(c, "install") /\ Within("storage") /\ storage' = target /\ Moves(c, "installProject")
  /\ UNCHANGED <<loaded, project, target, cancelVars, sqlVars, requests, starts>>

\* install_project_state has both locks before it publishes either owner.
InstallsStorage(c) ==
  /\ At(c, "install") /\ Locking(c, "storage") /\ Moves(c, "installProject")
  /\ UNCHANGED <<slots, target, cancelVars, sqlVars, requests, starts>>

InstallsProject(c) ==
  /\ At(c, "installProject") /\ lock["project"] = None
  /\ storage' = target /\ project' = target
  /\ Returns(c)
  /\ UNCHANGED <<loaded, target, cancelVars, sqlVars, requests, starts>>

\* Mutant: the project's mutex is kept until the request is submitted.
ReadsHolding(c) ==
  /\ At(c, "reload")
  /\ \/ lock["project"] = None /\ Returns(c)
     \/ project # None /\ Locking(c, "project") /\ Moves(c, "submit")
  /\ UNCHANGED <<slots, target, cancelVars, sqlVars, requests, starts>>

\* reload_project reads the sources under the project's mutex and releases it.
Reads(c) ==
  /\ At(c, "reload") /\ lock["project"] = None
  /\ \/ Returns(c)
     \/ project # None /\ Moves(c, "submit") /\ UNCHANGED lock
  /\ UNCHANGED <<slots, target, cancelVars, sqlVars, requests, starts>>

\* It submits the request; on an error it locks the project again to drop what was read.
Submits(c) ==
  /\ At(c, "submit") /\ lock["session"] = None
  /\ \/ loaded # None /\ Returns(c)
     \/ Moves(c, "finalize") /\ UNCHANGED lock
  /\ UNCHANGED <<slots, target, cancelVars, sqlVars, requests, starts>>

Finalizes(c) ==
  /\ At(c, "finalize") /\ lock["project"] = None /\ Returns(c)
  /\ UNCHANGED <<slots, target, cancelVars, sqlVars, requests, starts>>

-----------------------------------------------------------------------------
Retires(c) ==
  \/ Cancels(c, "cancelRuntime", "cutRuntime") \/ Cuts(c, "cutRuntime", "take")
  \/ TakesSession(c)
  \/ Cancels(c, "cancel", "cut") \/ Cuts(c, "cut", "takeStorage")
  \/ TakesStorage(c) \/ TakesProject(c) \/ ShutsDown(c)
  \/ Renews(c) \/ Loads(c) \/ InstallsStorage(c) \/ InstallsProject(c)

Waits(c) ==
  \/ PumpSession(c) \/ PumpStorage(c) \/ PumpProject(c) \/ PumpSql(c)
  \/ RequestStorage(c) \/ RequestProject(c) \/ Serve(c)
  \/ SavesSession(c) \/ SavesStorage(c)
  \/ Reads(c) \/ Submits(c) \/ Finalizes(c)

Publishes(c) ==
  \/ SqlAttaches(c) \/ StorageAnswers(c) \/ StorageChecks(c)
  \/ StorageEnters(c) \/ StoragePublishes(c) \/ SqlAnswers(c)

Next ==
  \/ DeadlinePasses
  \/ \E c \in Commands :
       Starts(c) \/ Retires(c) \/ Waits(c) \/ Publishes(c)
         \/ PumpEnds(c) \/ SqlBegins(c) \/ SqlEnds(c) \/ SqlAsks(c)

\* Threads go on when their lock is free, system calls return, and a cancelled SQLite stops.
\* A statement that is not cancelled may run for ever; so may nothing else: the requests of a
\* pump are limited.
Fairness ==
  \A c \in Commands :
    /\ WF_vars(Retires(c)) /\ WF_vars(Waits(c)) /\ WF_vars(Publishes(c))
    /\ WF_vars(SqlStops(c)) /\ WF_vars(PumpEnds(c))

Spec == Init /\ [][Next]_vars /\ Fairness

-----------------------------------------------------------------------------
Places == Operations \cup {"idle", "pump", "pumpStorage", "pumpProject", "pumpSql", "drive",
  "request", "requestProject", "serve", "saves", "savesStorage"}

\* The types of the variables.
TypeOK ==
  /\ pc \in [Commands -> Places] /\ lock \in [Locks -> Commands \cup {None}]
  /\ loaded \in Projects \cup {Blank, None} /\ target \in Projects \cup {None}
  /\ storage \in Projects \cup {None} /\ project \in Projects \cup {None}
  /\ cancelled \in BOOLEAN /\ handle \in {"none", "live", "cut"} /\ provider \in BOOLEAN
  /\ requests \in 0..MaxRequests /\ starts \in 0..MaxStarts
  /\ stage \in {"off", "creating", "running", "storage", "entering", "publishing", "returned"}
  /\ outcome \in 0..2 /\ expired \in BOOLEAN /\ disk \in {"none", "unsure", "whole"}
  /\ late \in Nat /\ answer \in {"none", "ready", "not_committed", "unknown", "committed"}

\* Whoever serves the runtime sees one project: the storage, the resources and what the
\* session has loaded belong together, whatever an operation is doing beside it
\* (lib.rs:1071, "so a poisoned lock cannot leave a half-installed project").
OneProject ==
  \A c \in Commands :
    /\ At(c, "drive") => storage # None /\ project = storage /\ loaded = storage
    /\ At(c, "serve") /\ storage # None => project = storage

\* A statement that is cancelled or late goes no further than the publication it has passed
\* its checkpoint for, and its error never denies what reached the disk: not_committed means
\* that no publication was entered, and "committed" that the last one is complete
\* (native_sql.rs:142, NATIVE_SQL_BUILD.md:96-103).
CancellationIsTruthful ==
  /\ late <= 1
  /\ answer = "not_committed" /\ stage = "off" => disk = "none"
  /\ answer = "committed" /\ stage = "off" => disk = "whole"

Retiring == Operations \ {"reload", "submit", "finalize"}

\* Every command returns.  Retirement signals cancellation before it waits for the locks
\* (NATIVE_SQL_BUILD.md:90-93), so not even a statement that never ends holds it up; the others
\* may have to wait for that statement, but never for each other (lib.rs:727).
CommandsEnd ==
  \A c \in Commands :
    pc[c] # "idle" ~> pc[c] = "idle" \/ (stage = "running" /\ pc[c] \notin Retiring)
=============================================================================
