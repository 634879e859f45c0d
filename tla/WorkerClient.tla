---------------------------- MODULE WorkerClient ----------------------------
(***************************************************************************)
(* The client of the runtime's web worker (platform/workerClient.ts): its  *)
(* lifecycle, the calls it has pending, and a restart, which terminates    *)
(* the worker at once and creates the next one after an await.             *)
(*                                                                         *)
(* Each caller has at most one call in flight, as it awaits every call, so *)
(* the caller stands for the call's id.  What the worker does with a call  *)
(* is not said here; ProjectOperations says it for the runtime's worker.   *)
(***************************************************************************)
EXTENDS Naturals

CONSTANTS
  Callers,
  MaxRestarts \* bound: restarts of a run

ASSUME RestartsAssumption == MaxRestarts \in Nat

Restarts == 1..MaxRestarts
None == 0

VARIABLES
  lifecycle,        \* "running", "restarting", "failed", "closed"
  worker,           \* the generation of this.worker, None after detachAndTerminate
  generation,       \* workerGeneration: workers created so far
  alive,            \* the generations of the workers nobody has terminated
  restarts,         \* restart operations started
  restartOperation, \* the operation later restarts join
  operation,        \* its promise: "waiting", "resolved", "rejected"
  uncleared,        \* settled operations whose clearRestartOperation is to run
  call              \* the promise of each caller's last call, as in WorkerCalls

restartVars == <<restarts, restartOperation, operation, uncleared>>
clientVars == <<lifecycle, worker, generation, alive, restartVars, call>>

ClientInit ==
  /\ lifecycle = "running" /\ worker = 1 /\ generation = 1 /\ alive = {1}
  /\ restarts = 0 /\ restartOperation = None /\ uncleared = {}
  /\ operation = [k \in Restarts |-> "none"]
  /\ call = [c \in Callers |-> "none"]

-----------------------------------------------------------------------------
(* Calls. *)

\* request(): the call is posted, or refused because there is no worker.
Request(c) ==
  /\ call[c] # "waiting"
  /\ call' = [call EXCEPT ![c] = IF lifecycle = "running" THEN "waiting" ELSE "rejected"]
  /\ UNCHANGED <<lifecycle, worker, generation, alive, restartVars>>

\* Mutant: an error is delivered as a result.
SettlesFine(c, r) ==
  /\ lifecycle = "running" /\ call[c] = "waiting"
  /\ call' = [call EXCEPT ![c] = "answered"]
  /\ UNCHANGED <<lifecycle, worker, generation, alive, restartVars>>

\* onmessage: the worker's answer settles the pending call.
Settle(c, r) ==
  /\ lifecycle = "running" /\ call[c] = "waiting"
  /\ call' = [call EXCEPT ![c] = r]
  /\ UNCHANGED <<lifecycle, worker, generation, alive, restartVars>>

-----------------------------------------------------------------------------
(* The end of a worker. *)

DetachAndTerminate == worker' = None /\ alive' = alive \ {worker}

\* Mutant: the pending calls are forgotten.
ForgetPending == UNCHANGED call

RejectPending ==
  call' = [c \in Callers |-> IF call[c] = "waiting" THEN "rejected" ELSE call[c]]

\* onerror of the current worker; in any other lifecycle the handler returns.
Crash ==
  /\ lifecycle = "running"
  /\ lifecycle' = "failed"
  /\ DetachAndTerminate /\ RejectPending
  /\ UNCHANGED <<generation, restartVars>>

Close ==
  /\ lifecycle # "closed"
  /\ lifecycle' = "closed"
  /\ DetachAndTerminate /\ RejectPending
  /\ UNCHANGED <<generation, restartVars>>

\* A restart in progress is joined.
RestartJoins ==
  /\ lifecycle = "restarting" /\ restartOperation # None
  /\ UNCHANGED clientVars

RestartStarts ==
  /\ lifecycle # "closed"
  /\ lifecycle = "restarting" => restartOperation = None
  /\ restarts < MaxRestarts
  /\ restarts' = restarts + 1
  /\ lifecycle' = "restarting"
  /\ DetachAndTerminate /\ RejectPending
  /\ restartOperation' = restarts'
  /\ operation' = [operation EXCEPT ![restarts'] = "waiting"]
  /\ UNCHANGED <<generation, uncleared>>

\* restart(), unless the client is closed, which rejects.
Restart == RestartJoins \/ RestartStarts

\* Mutant: whether close has come meanwhile is not asked.
CreatesAnyway(k) ==
  /\ generation' = generation + 1 /\ worker' = generation' /\ alive' = alive \cup {generation'}
  /\ lifecycle' = "running"
  /\ operation' = [operation EXCEPT ![k] = "resolved"]

\* performRestart after its await: the next worker, which may not be constructible, or the
\* error of a close that came meanwhile.
Continues(k) ==
  \/ /\ lifecycle # "closed"
     /\ generation' = generation + 1 /\ worker' = generation' /\ alive' = alive \cup {generation'}
     /\ lifecycle' = "running"
     /\ operation' = [operation EXCEPT ![k] = "resolved"]
  \/ /\ lifecycle' = IF lifecycle = "closed" THEN "closed" ELSE "failed"
     /\ operation' = [operation EXCEPT ![k] = "rejected"]
     /\ UNCHANGED <<generation, worker, alive>>

PerformRestart(k) ==
  /\ operation[k] = "waiting"
  /\ Continues(k)
  /\ uncleared' = uncleared \cup {k}
  /\ UNCHANGED <<restarts, restartOperation, call>>

\* Mutant: whatever operation is noted is cleared.
ClearsAny(k) == restartOperation' = None

ClearsOwn(k) == restartOperation' = IF restartOperation = k THEN None ELSE restartOperation

\* clearRestartOperation, a microtask after the operation is settled.
ClearRestartOperation(k) ==
  /\ k \in uncleared
  /\ uncleared' = uncleared \ {k}
  /\ ClearsOwn(k)
  /\ UNCHANGED <<lifecycle, worker, generation, alive, restarts, operation, call>>

ClientStep(k) == PerformRestart(k) \/ ClearRestartOperation(k)

ClientNext ==
  \/ Crash \/ Close \/ Restart
  \/ \E k \in Restarts : ClientStep(k)
  \/ \E c \in Callers :
       Request(c) \/ \E r \in {"answered", "rejected"} : Settle(c, r)

ClientSpec ==
  ClientInit /\ [][ClientNext]_clientVars /\ \A k \in Restarts : WF_clientVars(ClientStep(k))

-----------------------------------------------------------------------------
(* Properties. *)

ClientTypeOK ==
  /\ lifecycle \in {"running", "restarting", "failed", "closed"}
  /\ generation \in Nat /\ worker \in 0..generation /\ alive \subseteq 1..generation
  /\ restarts \in 0..MaxRestarts /\ restartOperation \in 0..restarts
  /\ operation \in [Restarts -> {"none", "waiting", "resolved", "rejected"}]
  /\ uncleared \subseteq Restarts
  /\ call \in [Callers -> {"none", "waiting", "answered", "rejected"}]

\* At most one worker lives, the one the client posts to, and none after close: a restart that
\* was joined, overtaken by a close or settled late never leaves a second runtime behind.
OneWorker ==
  /\ \A g \in alive : g = worker
  /\ lifecycle = "running" <=> worker # None
  /\ lifecycle = "restarting" => restartOperation # None

Status == CASE lifecycle = "running" -> "up" [] lifecycle = "closed" -> "closed" [] OTHER -> "down"

\* The client keeps the promise of WorkerCalls: no call survives its worker.
Abstract == INSTANCE WorkerCalls WITH status <- Status
ImplementsCalls == Abstract!Spec
=============================================================================
