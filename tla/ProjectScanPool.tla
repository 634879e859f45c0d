-------------------------- MODULE ProjectScanPool --------------------------
(***************************************************************************)
(* The scan of a project's files (platform/browserProjectScanPool.ts).     *)
(* Each worker slot has a loop that takes the next request, awaits the     *)
(* file and the worker's reply, and goes on.  A failure of a worker closes *)
(* the whole pool and the scan starts again on the main thread; a failure  *)
(* of a file is kept and ends the scan; an abort closes the pool too.      *)
(*                                                                         *)
(* The first turn creates the workers and starts all loops.  After that a  *)
(* step is a turn of one loop, an event of a worker, or the abort.         *)
(***************************************************************************)
EXTENDS Naturals, FiniteSets

CONSTANTS
  N,        \* requests of the scan
  Workers,  \* worker slots of the pool
  Readers,  \* loops of the scan on the main thread
  Androids  \* where it may run: TRUE on Android, which reads a file before it submits it

ASSUME SizesAssumption ==
  /\ {N, Workers, Readers} \subseteq Nat \ {0}
  /\ Workers <= N /\ Workers <= Readers /\ Readers <= N
ASSUME AndroidsAssumption == Androids \subseteq BOOLEAN

Requests == 1..N
Slots == 1..Workers
Loops == 1..Readers

VARIABLES
  android,   \* readBeforeSubmit
  phase,     \* "idle", "workers", "main" (the fallback), "done"
  outcome,   \* how the scan settled: "results", "failed", "aborted", "none" before
  aborted,   \* signal.aborted
  loop,      \* what a loop awaits: "file", its "bytes", a "reply", or "ended"
  item,      \* the request it works on
  next,      \* the shared next request
  closed,    \* slot.closed; its worker is terminated
  reply,     \* the slot's last promise: "none", "waiting" in slot.pending, or as it was settled
  result,    \* requests with a result
  error,     \* errors by request: "none", "file", "infrastructure", "abort"
  completed, \* scans counted by this attempt
  reported,  \* the progress reported, over both attempts
  broken     \* history: a worker, or its construction, has failed

pool == <<closed, reply>>
work == <<loop, item, next, result, error, completed, reported>>
vars == <<android, phase, outcome, aborted, pool, work, broken>>

Init ==
  /\ android \in Androids
  /\ phase = "idle" /\ outcome = "none" /\ aborted = FALSE /\ broken = FALSE
  /\ loop = [l \in Loops |-> "ended"] /\ item = [l \in Loops |-> 0] /\ next = 1
  /\ closed = [s \in Slots |-> FALSE] /\ reply = [s \in Slots |-> "none"]
  /\ result = {} /\ error = [i \in Requests |-> "none"]
  /\ completed = 0 /\ reported = 0

---------------------------------------------------------------------------
(* The pool. *)

\* Mutant: pending is cleared and nothing rejected.
ClosesDropping(S, reason) ==
  /\ closed' = [s \in Slots |-> closed[s] \/ s \in S]
  /\ reply' = [s \in Slots |->
                IF s \in S /\ ~closed[s] /\ reply[s] = "waiting" THEN "none" ELSE reply[s]]

\* slot.close on every slot of S: terminates it and rejects what is pending.
Closes(S, reason) ==
  /\ closed' = [s \in Slots |-> closed[s] \/ s \in S]
  /\ reply' = [s \in Slots |->
                IF s \in S /\ ~closed[s] /\ reply[s] = "waiting" THEN reason ELSE reply[s]]

\* The first turn: a worker for each slot, and the first requests taken in their order.
StartWorkers ==
  /\ phase = "idle" /\ phase' = "workers"
  /\ loop' = [l \in Loops |-> IF l \in Slots THEN "file" ELSE "ended"]
  /\ item' = [l \in Loops |-> IF l \in Slots THEN l ELSE 0]
  /\ next' = Workers + 1
  /\ UNCHANGED <<android, outcome, aborted, pool, result, error, completed, reported, broken>>

\* The loops of the second attempt, which counts anew.
StartsOnMainThread ==
  /\ phase' = "main"
  /\ loop' = [l \in Loops |-> "file"] /\ item' = [l \in Loops |-> l] /\ next' = Readers + 1
  /\ result' = {} /\ error' = [i \in Requests |-> "none"] /\ completed' = 0
  /\ UNCHANGED <<outcome, reported>>

\* A worker cannot be constructed: what was constructed is closed again.
PoolFails ==
  /\ phase = "idle"
  /\ broken' = TRUE
  /\ Closes(Slots, "infrastructure")
  /\ StartsOnMainThread
  /\ UNCHANGED <<android, aborted>>

---------------------------------------------------------------------------
(* Turns of a loop. *)

\* The head of the loop: the next request, or the end.
GoesOn(l) ==
  IF next <= N /\ ~aborted
  THEN /\ loop' = [loop EXCEPT ![l] = "file"]
       /\ item' = [item EXCEPT ![l] = next]
       /\ next' = next + 1
  ELSE /\ loop' = [loop EXCEPT ![l] = "ended"]
       /\ UNCHANGED <<item, next>>

\* The request has its result; progress never goes back to what the first attempt reported.
Succeeds(l) ==
  /\ result' = result \cup {item[l]}
  /\ completed' = completed + 1
  /\ reported' = IF completed + 1 > reported THEN completed + 1 ELSE reported
  /\ UNCHANGED error
  /\ GoesOn(l)

\* Mutant: the error is dropped.
FailsUnseen(l, e) == UNCHANGED <<error, result, completed, reported>> /\ GoesOn(l)

\* The request's error is recorded.
Fails(l, e) ==
  /\ error' = [error EXCEPT ![item[l]] = e]
  /\ UNCHANGED <<result, completed, reported>>
  /\ GoesOn(l)

Awaits(l, what) ==
  /\ loop' = [loop EXCEPT ![l] = what]
  /\ UNCHANGED <<item, next, result, error, completed, reported>>

\* The promise is registered and the message posted, which may throw.
Submits(s) ==
  /\ Awaits(s, "reply") /\ UNCHANGED closed
  /\ \/ reply' = [reply EXCEPT ![s] = "waiting"] /\ UNCHANGED broken
     \/ reply' = [reply EXCEPT ![s] = "infrastructure"] /\ broken' = TRUE

FileArrives(s) ==
  /\ phase = "workers" /\ loop[s] = "file"
  /\ \/ Fails(s, "file") /\ UNCHANGED <<pool, broken>>
     \/ closed[s] /\ Fails(s, "infrastructure") /\ Closes(Slots, "infrastructure") /\ UNCHANGED broken
     \/ ~closed[s] /\ android /\ Awaits(s, "bytes") /\ UNCHANGED <<pool, broken>>
     \/ ~closed[s] /\ ~android /\ Submits(s)
  /\ UNCHANGED <<android, phase, outcome, aborted>>

\* Whether the slot was closed during the read is not asked.
BytesArrive(s) ==
  /\ phase = "workers" /\ loop[s] = "bytes"
  /\ (Fails(s, "file") /\ UNCHANGED <<pool, broken>>) \/ Submits(s)
  /\ UNCHANGED <<android, phase, outcome, aborted>>

\* The promise of the slot is settled and the loop resumes.
ReplyArrives(s) ==
  /\ phase = "workers" /\ loop[s] = "reply"
  /\ \/ reply[s] = "scanned" /\ Succeeds(s) /\ UNCHANGED pool
     \/ reply[s] \in {"file", "abort"} /\ Fails(s, reply[s]) /\ UNCHANGED pool
     \/ /\ reply[s] = "infrastructure" /\ Fails(s, "infrastructure")
        /\ Closes(Slots, "infrastructure")
  /\ UNCHANGED <<android, phase, outcome, aborted, broken>>

---------------------------------------------------------------------------
(* Workers, and the signal. *)

\* The worker of the slot answers: a result, or the error of its file.
WorkerAnswers(s) ==
  /\ phase = "workers" /\ ~closed[s] /\ reply[s] = "waiting"
  /\ \E r \in {"scanned", "file"} : reply' = [reply EXCEPT ![s] = r]
  /\ UNCHANGED <<android, phase, outcome, aborted, closed, work, broken>>

\* error, messageerror or an answer that is none: at any time, also of an idle slot.
WorkerFails(s) ==
  /\ phase = "workers" /\ ~closed[s]
  /\ broken' = TRUE
  /\ Closes({s}, "infrastructure")
  /\ UNCHANGED <<android, phase, outcome, aborted, work>>

Abort ==
  /\ phase \in {"workers", "main"} /\ ~aborted
  /\ aborted' = TRUE
  /\ IF phase = "workers" THEN Closes(Slots, "abort") ELSE UNCHANGED pool
  /\ UNCHANGED <<android, phase, outcome, work, broken>>

---------------------------------------------------------------------------
(* The end of an attempt. *)

Settles(o) == phase' = "done" /\ outcome' = o /\ UNCHANGED work

HasError(e) == \E i \in Requests : error[i] = e

\* Abort before infrastructure before files before results.
WorkersSettle ==
  \/ aborted /\ Settles("aborted")
  \/ ~aborted /\ HasError("infrastructure") /\ StartsOnMainThread
  \/ ~aborted /\ ~HasError("infrastructure") /\ HasError("file") /\ Settles("failed")
  \/ ~aborted /\ (\A i \in Requests : error[i] = "none") /\ Settles("results")

AllEnded == \A l \in Loops : loop[l] = "ended"

\* Mutant: nothing closes the pool in the end.
WorkersEndOpen ==
  phase = "workers" /\ AllEnded /\ WorkersSettle /\ UNCHANGED <<android, aborted, broken, pool>>

\* All loops have ended; on every path the pool is closed.
WorkersEnd ==
  /\ phase = "workers" /\ AllEnded
  /\ WorkersSettle
  /\ Closes(Slots, "infrastructure")
  /\ UNCHANGED <<android, aborted, broken>>

\* A reader of the main thread has its file, and then its bytes and what they hold.
MainReads(l) ==
  /\ phase = "main"
  /\ \/ loop[l] = "file" /\ (Fails(l, "file") \/ Awaits(l, "bytes"))
     \/ loop[l] = "bytes" /\ (Fails(l, "file") \/ Succeeds(l))
  /\ UNCHANGED <<android, phase, outcome, aborted, pool, broken>>

MainEnds ==
  /\ phase = "main" /\ AllEnded
  /\ \/ aborted /\ Settles("aborted")
     \/ ~aborted /\ HasError("file") /\ Settles("failed")
     \/ ~aborted /\ ~HasError("file") /\ Settles("results")
  /\ UNCHANGED <<android, aborted, pool, broken>>

Done == phase = "done" /\ UNCHANGED vars

Turn(s) == FileArrives(s) \/ BytesArrive(s) \/ ReplyArrives(s)
Worker(s) == WorkerAnswers(s) \/ WorkerFails(s)

Next ==
  \/ StartWorkers \/ PoolFails \/ Abort \/ WorkersEnd \/ MainEnds \/ Done
  \/ \E s \in Slots : Turn(s) \/ Worker(s)
  \/ \E l \in Loops : MainReads(l)

\* A file is read or fails, a live worker answers or fails, and a settled promise resumes its loop.
Fairness ==
  /\ WF_vars(StartWorkers) /\ WF_vars(WorkersEnd) /\ WF_vars(MainEnds)
  /\ \A s \in Slots : WF_vars(Turn(s)) /\ WF_vars(Worker(s) /\ reply[s] = "waiting")
  /\ \A l \in Loops : WF_vars(MainReads(l))

Spec == Init /\ [][Next]_vars /\ Fairness

---------------------------------------------------------------------------
(* Properties. *)

\* The types of the fields.
TypeOK ==
  /\ android \in Androids /\ phase \in {"idle", "workers", "main", "done"}
  /\ outcome \in {"none", "results", "failed", "aborted"} /\ aborted \in BOOLEAN
  /\ loop \in [Loops -> {"file", "bytes", "reply", "ended"}] /\ item \in [Loops -> 0..N]
  /\ next \in 1..N + 1 /\ closed \in [Slots -> BOOLEAN]
  /\ reply \in [Slots -> {"none", "waiting", "scanned", "file", "infrastructure", "abort"}]
  /\ result \subseteq Requests /\ error \in [Requests -> {"none", "file", "infrastructure", "abort"}]
  /\ completed \in 0..N /\ reported \in 0..N /\ broken \in BOOLEAN

\* A promise of a worker that is terminated: nothing settles it any more.
Orphaned(s) == loop[s] = "reply" /\ reply[s] = "waiting" /\ closed[s]

\* What the scan returns is what happened: results are those of every request, reported to the
\* last; an abort wins; a failure is a file's.  The main thread is asked only because a
\* worker failed, never for a file's error (scanWithWorkers, scanBrowserProjectFilesOffThread).
OutcomeTruthful ==
  /\ outcome = "results" => result = Requests /\ reported = N /\ ~aborted
  /\ outcome = "aborted" => aborted
  /\ outcome = "failed" => HasError("file") /\ ~aborted
  /\ phase = "main" => broken

\* The pool is released: no worker outlives the attempt, whatever ended it, and except on
\* Android no loop is left with a promise of a terminated worker (slot.close).
PoolReleased ==
  /\ phase \in {"main", "done"} => \A s \in Slots : closed[s]
  /\ \A s \in Slots : Orphaned(s) => android

\* A scan settles, unless Android's read before the submission has orphaned a loop: whatever
\* crashes, fails or aborts, in any order.
ScanSettles == <>(phase = "done" \/ \E s \in Slots : Orphaned(s))
=============================================================================
