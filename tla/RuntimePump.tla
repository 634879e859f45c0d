---------------------------- MODULE RuntimePump ----------------------------
(***************************************************************************)
(* RuntimePumpCoordinator (src/stores/runtimePump.ts): the frontend's one  *)
(* owner of the bridge drive.  A drive is either a turn of the pump loop   *)
(* (timer -> advanceTimedWait -> bridge.pump -> handleBatch, repeated a    *)
(* bounded number of times) or a fused submission (submit and pump in one  *)
(* native call, then handleBatch).  Everything else in the store is a      *)
(* client: it flips ready and transitioning, arms or clears the timer,     *)
(* grants and retires service leases and waits for the drive to be idle.   *)
(*                                                                         *)
(* The code is single threaded, so one action is one turn: what runs       *)
(* between two awaits.  A resolved promise continues in a microtask, and   *)
(* no timer, bridge answer or user event runs while one is pending         *)
(* (Quiet).  The order of the microtasks themselves is left free.          *)
(*                                                                         *)
(* The clients are arbitrary here (ClientTurn): what this module proves    *)
(* holds for every store.  SessionTransitions gives the store's own.       *)
(***************************************************************************)
EXTENDS Naturals, FiniteSets

CONSTANTS
  Loops,       \* activations of #pumpOnce
  Responses,   \* service requests answered through submitResponseAndHandle
  Skips,       \* message-skip inputs sent through submitAndHandle
  Clients,     \* operations of the store that await waitUntilIdle
  MaxPumps,    \* MAXIMUM_CONTIGUOUS_COMPUTE_PUMPS
  NoTask

Submitters == Responses \cup Skips
Tasks == Loops \cup Submitters \cup Clients

ASSUME TasksAssumption ==
  /\ Loops \cap Submitters = {} /\ Loops \cap Clients = {}
  /\ Submitters \cap Clients = {} /\ Responses \cap Skips = {}
  /\ NoTask \notin Tasks
ASSUME MaxPumpsAssumption == MaxPumps \in Nat \ {0}

VARIABLES
  ready,          \* #ready
  transitioning,  \* #transitioning
  timer,          \* #timer: "none", or armed with delay 0 ("now") or 16 ("later")
  pumping,        \* #pumping
  handlingBatch,  \* #handlingBatch
  idleWaiters,    \* #idleWaiters: the tasks whose promise is in the set
  pumps,          \* the loop's contiguous pumps so far
  pc,             \* where each task is suspended
  awaiting,       \* the task the running batch handler awaits
  live,           \* the responses whose service lease is active
  failed          \* the last drive ended in handleError

vars == <<ready, transitioning, timer, pumping, handlingBatch, idleWaiters,
          pumps, pc, awaiting, live, failed>>

Delays == {"now", "later"}

\* Where a task can be suspended.
\*   time, bridge, batch  it owns the drive: awaiting advanceTimedWait, the
\*                        bridge, handleBatch
\*   respWaiting, waiting in waitUntilIdle (of submitResponseAndHandle, of
\*                        submitAndHandle or a client)
\*   respIdle, idle       waitUntilIdle returned, its caller not yet resumed
\*   refused              submitAndHandle returned undefined to
\*                        submitResponseAndHandle
\*   plain                awaiting the ordinary submission of a skip
DrivePCs == {"time", "bridge", "batch"}
WaitPCs == {"respWaiting", "waiting"}
IdlePCs == {"respIdle", "idle"}

TypeOK ==
  /\ ready \in BOOLEAN /\ transitioning \in BOOLEAN
  /\ timer \in Delays \cup {"none"}
  /\ pumping \in BOOLEAN /\ handlingBatch \in BOOLEAN
  /\ idleWaiters \in SUBSET Tasks
  /\ pumps \in 0 .. MaxPumps
  /\ pc \in [Tasks -> DrivePCs \cup WaitPCs \cup IdlePCs
                        \cup {"off", "refused", "plain"}]
  /\ \A l \in Loops : pc[l] \in DrivePCs \cup {"off"}
  /\ \A s \in Submitters : pc[s] # "time"
  /\ \A c \in Clients : pc[c] \in {"off", "waiting", "idle"}
  /\ awaiting \in Tasks \cup {NoTask}
  /\ live \in SUBSET Responses
  /\ failed \in BOOLEAN

Init ==
  /\ ready = FALSE /\ transitioning = FALSE
  /\ timer = "none"
  /\ pumping = FALSE /\ handlingBatch = FALSE
  /\ idleWaiters = {}
  /\ pumps = 0
  /\ pc = [t \in Tasks |-> "off"]
  /\ awaiting = NoTask
  /\ live = {}
  /\ failed = FALSE

Driving(t) == pc[t] \in DrivePCs
Busy == pumping \/ handlingBatch

\* A microtask is pending: a waiter notifyIdle resolved, or a caller to resume.
Runnable(t) ==
  \/ pc[t] \in WaitPCs /\ t \notin idleWaiters
  \/ pc[t] \in IdlePCs \cup {"refused"}
Quiet == \A t \in Tasks : ~Runnable(t)

-----------------------------------------------------------------------------
(* The methods of the coordinator, as effects on its fields. *)

\* schedule(delay)
Scheduled(delay) ==
  IF ~ready \/ transitioning THEN timer
  ELSE IF timer # "none" /\ delay # "now" THEN timer
  ELSE delay

\* The synchronous part of waitUntilIdle(), called by t: it returns at once, or
\* t joins the waiters.
WaitUntilIdle(t, waitAt, idleAt) ==
  IF Busy
  THEN pc' = [pc EXCEPT ![t] = waitAt] /\ idleWaiters' = idleWaiters \cup {t}
  ELSE pc' = [pc EXCEPT ![t] = idleAt] /\ UNCHANGED idleWaiters

\* #pumpOnce returns at once ...
PumpOnlyOnTransition == transitioning
PumpBlocked == pumping \/ transitioning

\* ... and otherwise drives again while there is work, up to the fairness bound.
UnboundedPumps == ready /\ ~transitioning
MayPumpAgain == pumps + 1 < MaxPumps /\ ready /\ ~transitioning

\* submitAndHandle returns undefined at once during a batch ...
NeverReentrant == FALSE
Reentrant == handlingBatch

\* ... and waits again when another task has claimed the drive.
ClaimUnchecked == FALSE
DriveTaken == pumping

\* The finally block that ends a drive: #pumping is cleared and #notifyIdle
\* resolves every waiter.
EndDriveSilently(t) ==
  /\ pumping' = FALSE
  /\ pc' = [pc EXCEPT ![t] = "off"]
  /\ UNCHANGED idleWaiters

EndDrive(t) ==
  /\ pumping' = FALSE
  /\ idleWaiters' = IF handlingBatch' THEN idleWaiters ELSE {}
  /\ pc' = [pc EXCEPT ![t] = "off"]

\* The catch block: callbacks.handleError resets the service requests, and
\* nothing is scheduled.
DriveFailsInBatch(t) ==
  /\ UNCHANGED handlingBatch
  /\ EndDrive(t)
  /\ live' = {}
  /\ failed' = TRUE

DriveFails(t) ==
  /\ handlingBatch' = FALSE
  /\ EndDrive(t)
  /\ live' = {}
  /\ failed' = TRUE

-----------------------------------------------------------------------------
(* #pumpOnce *)

\* The timer's callback.  A drive in flight or a transition makes #pumpOnce
\* return at once; #ready is not consulted.
TimerFires ==
  /\ Quiet
  /\ timer # "none"
  /\ timer' = "none"
  /\ \/ /\ PumpBlocked
        /\ UNCHANGED <<pumping, pc, pumps, failed>>
     \/ /\ ~PumpBlocked
        /\ \E l \in Loops :
             /\ pc[l] = "off"
             /\ pc' = [pc EXCEPT ![l] = "time"]
        /\ pumping' = TRUE
        /\ pumps' = 0
        /\ failed' = FALSE
  /\ UNCHANGED <<ready, transitioning, handlingBatch, idleWaiters, awaiting, live>>

\* advanceTimedWait settles.
TimeAdvanced(l) ==
  /\ Quiet
  /\ pc[l] = "time"
  /\ pc' = [pc EXCEPT ![l] = "bridge"]
  /\ UNCHANGED <<ready, transitioning, timer, pumping, handlingBatch,
                 idleWaiters, pumps, awaiting, live, failed>>

\* The bridge answers a drive, of the loop or fused, with a batch.
BatchArrives(t) ==
  /\ Quiet
  /\ pc[t] = "bridge"
  /\ pc' = [pc EXCEPT ![t] = "batch"]
  /\ handlingBatch' = TRUE
  /\ UNCHANGED <<ready, transitioning, timer, pumping, idleWaiters, pumps,
                 awaiting, live, failed>>

\* advanceTimedWait, the bridge or handleBatch throws.
DriveThrows(t) ==
  /\ Quiet
  /\ Driving(t)
  /\ pc[t] = "batch" => awaiting = NoTask
  /\ DriveFails(t)
  /\ UNCHANGED <<ready, transitioning, timer, pumps, awaiting>>

\* handleBatch returns to the loop: drive again, or schedule and release.
\* pending is hasPendingWork(batch), more the condition of the do-while.
LoopBatchEnds(l) ==
  /\ pc[l] = "batch" /\ awaiting = NoTask
  /\ handlingBatch' = FALSE
  /\ \E more, pending \in BOOLEAN :
       /\ more => pending
       /\ IF more /\ MayPumpAgain
          THEN /\ pc' = [pc EXCEPT ![l] = "time"]
               /\ pumps' = pumps + 1
               /\ UNCHANGED <<timer, pumping, idleWaiters>>
          ELSE /\ timer' = Scheduled(IF pending THEN "now" ELSE "later")
               /\ EndDrive(l)
               /\ pumps' = 0
  /\ UNCHANGED <<ready, transitioning, awaiting, live, failed>>

-----------------------------------------------------------------------------
(* submitAndHandle and submitResponseAndHandle *)

\* The synchronous part of submitAndHandle, called by t outside a batch.
EnterSubmit(t) ==
  /\ timer' = "none"
  /\ WaitUntilIdle(t, "waiting", "idle")

\* A skip is sent: by the user, or by the batch handler, which then awaits it.
\* During a batch submitAndHandle returns undefined and send falls back to the
\* ordinary submission.
StartSkip(s, nested) ==
  /\ Quiet
  /\ pc[s] = "off"
  /\ nested => handlingBatch /\ awaiting = NoTask
  /\ IF Reentrant
     THEN pc' = [pc EXCEPT ![s] = "plain"] /\ UNCHANGED <<timer, idleWaiters>>
     ELSE EnterSubmit(s)
  /\ awaiting' = IF nested THEN s ELSE awaiting
  /\ UNCHANGED <<ready, transitioning, pumping, handlingBatch, pumps, live, failed>>

\* The ordinary submission is acknowledged and the pump scheduled.
PlainAck(s) ==
  /\ Quiet
  /\ pc[s] = "plain"
  /\ pc' = [pc EXCEPT ![s] = "off"]
  /\ timer' = Scheduled("now")
  /\ awaiting' = IF awaiting = s THEN NoTask ELSE awaiting
  /\ UNCHANGED <<ready, transitioning, pumping, handlingBatch, idleWaiters,
                 pumps, live, failed>>

\* A service handler answers: send checks the lease, then waits for idleness.
Respond(r) ==
  /\ Quiet
  /\ pc[r] = "off" /\ r \in live
  /\ WaitUntilIdle(r, "respWaiting", "respIdle")
  /\ UNCHANGED <<ready, transitioning, timer, pumping, handlingBatch, pumps,
                 awaiting, live, failed>>

\* A waiter notifyIdle resolved goes round the while loop of waitUntilIdle.
WaiterWakes(t) ==
  /\ pc[t] \in WaitPCs /\ t \notin idleWaiters
  /\ WaitUntilIdle(t, pc[t], IF pc[t] = "waiting" THEN "idle" ELSE "respIdle")
  /\ UNCHANGED <<ready, transitioning, timer, pumping, handlingBatch, pumps,
                 awaiting, live, failed>>

\* submitResponseAndHandle resumes: a retired response is cancelled, a current
\* one goes through submitAndHandle.
ResponseResumes(r) ==
  /\ pc[r] = "respIdle"
  /\ \/ /\ r \notin live
        /\ pc' = [pc EXCEPT ![r] = "off"]
        /\ UNCHANGED <<timer, idleWaiters>>
     \/ /\ r \in live /\ Reentrant
        /\ pc' = [pc EXCEPT ![r] = "refused"]
        /\ UNCHANGED <<timer, idleWaiters>>
     \/ /\ r \in live /\ ~Reentrant
        /\ EnterSubmit(r)
  /\ UNCHANGED <<ready, transitioning, pumping, handlingBatch, pumps, awaiting,
                 live, failed>>

\* submitAndHandle gave undefined: cancel when the session is going away, else
\* wait again.
ResponseRefused(r) ==
  /\ pc[r] = "refused"
  /\ IF ~ready \/ transitioning
     THEN /\ pc' = [pc EXCEPT ![r] = "off"]
          /\ live' = live \ {r}
          /\ UNCHANGED idleWaiters
     ELSE /\ WaitUntilIdle(r, "respWaiting", "respIdle")
          /\ UNCHANGED live
  /\ UNCHANGED <<ready, transitioning, timer, pumping, handlingBatch, pumps,
                 awaiting, failed>>

\* submitAndHandle resumes and claims the drive.  A response whose lease was
\* retired meanwhile throws inside the claimed drive.
Claim(s) ==
  \/ /\ s \in Responses \ live
     /\ DriveFails(s)
  \/ /\ s \notin Responses \ live
     /\ pumping' = TRUE
     /\ pc' = [pc EXCEPT ![s] = "bridge"]
     /\ failed' = FALSE
     /\ UNCHANGED <<handlingBatch, idleWaiters, live>>

SubmitResumes(s) ==
  /\ pc[s] = "idle"
  /\ timer' = "none"
  /\ \/ /\ ~ready \/ transitioning \/ handlingBatch
        /\ pc' = [pc EXCEPT ![s] = IF s \in Skips THEN "plain" ELSE "refused"]
        /\ UNCHANGED <<pumping, handlingBatch, idleWaiters, live, failed>>
     \/ /\ ready /\ ~transitioning /\ ~handlingBatch /\ DriveTaken
        /\ WaitUntilIdle(s, "waiting", "idle")
        /\ UNCHANGED <<pumping, handlingBatch, live, failed>>
     \/ /\ ready /\ ~transitioning /\ ~handlingBatch /\ ~DriveTaken
        /\ Claim(s)
  /\ UNCHANGED <<ready, transitioning, pumps, awaiting>>

\* handleBatch returns to the fused submission; a response's lease is finished.
SubmitBatchEnds(s) ==
  /\ pc[s] = "batch" /\ awaiting = NoTask
  /\ handlingBatch' = FALSE
  /\ \E delay \in Delays : timer' = Scheduled(delay)
  /\ EndDrive(s)
  /\ live' = live \ {s}
  /\ UNCHANGED <<ready, transitioning, pumps, awaiting, failed>>

-----------------------------------------------------------------------------
(* The rest of the store, as the coordinator sees it. *)

\* One client c may enter waitUntilIdle or resume from it.
ClientMoves ==
  \/ UNCHANGED <<pc, idleWaiters>>
  \/ \E c \in Clients :
       \/ pc[c] \in {"off", "idle"} /\ WaitUntilIdle(c, "waiting", "idle")
       \/ pc[c] = "idle" /\ pc' = [pc EXCEPT ![c] = "off"] /\ UNCHANGED idleWaiters

\* A batch handler may call a client and await it, until the client is done.
HandlerMoves ==
  \/ UNCHANGED awaiting
  \/ handlingBatch /\ awaiting = NoTask /\ awaiting' \in Clients
  \/ awaiting \in Clients /\ awaiting' = NoTask

\* A turn of any client: it sets ready and transitioning, arms the timer when a
\* schedule would, clears it, grants or retires leases.
ClientTurn ==
  /\ ready' \in BOOLEAN /\ transitioning' \in BOOLEAN
  /\ live' \in SUBSET (live \cup {r \in Responses : pc[r] = "off"})
  /\ timer' \in {timer, "none"} \cup (IF ready' /\ ~transitioning' THEN Delays ELSE {})
  /\ ClientMoves
  /\ HandlerMoves
  /\ UNCHANGED <<pumping, handlingBatch, pumps, failed>>

CoordinatorTurn ==
  \/ TimerFires
  \/ \E l \in Loops : TimeAdvanced(l) \/ LoopBatchEnds(l)
  \/ \E t \in Loops \cup Submitters : BatchArrives(t) \/ DriveThrows(t)
  \/ \E s \in Skips : PlainAck(s) \/ \E nested \in BOOLEAN : StartSkip(s, nested)
  \/ \E t \in Tasks : WaiterWakes(t)
  \/ \E r \in Responses : Respond(r) \/ ResponseResumes(r) \/ ResponseRefused(r)
  \/ \E s \in Submitters : SubmitResumes(s) \/ SubmitBatchEnds(s)

Next == CoordinatorTurn \/ ClientTurn

Spec == Init /\ [][Next]_vars

-----------------------------------------------------------------------------
(* At most one task drives the bridge, and #pumping says so exactly: the       *)
(* coordinator never runs two pumps, two fused submissions or one of each at   *)
(* once, whatever the rest of the store does with its flags and its timer.     *)
DriveExclusive ==
  /\ pumping <=> \E t \in Tasks : Driving(t)
  /\ \A t, u \in Tasks : Driving(t) /\ Driving(u) => t = u

(* A batch is projected only by the task that owns the drive.                  *)
BatchOwned == handlingBatch <=> \E t \in Tasks : pc[t] = "batch"

(* No lost wakeup: while a task sits in #idleWaiters a drive is in flight, so  *)
(* some finally block has yet to run and resolve it.                           *)
NoLostWakeup ==
  /\ idleWaiters # {} => pumping
  /\ \A t \in idleWaiters : pc[t] \in WaitPCs

(* The coordinator implements the lock DriveLock describes: the task in the    *)
(* driving region is its holder.                                               *)
Holder == IF pumping THEN CHOOSE t \in Tasks : Driving(t) ELSE NoTask
Lock == INSTANCE DriveLock WITH holder <- Holder, projecting <- handlingBatch
ImplementsLock == Lock!Spec

(* A batch handler never awaits a submission that waits for that same batch:   *)
(* the early return of submitAndHandle during a batch.  What it awaits, it     *)
(* awaits within its batch.                                                    *)
NestedNeverBlocked ==
  awaiting # NoTask =>
    /\ handlingBatch
    /\ awaiting \in Skips \cup Clients
    /\ awaiting \in Skips => pc[awaiting] = "plain"

(* What it awaits is not a waiter of the drive, which is its own: nothing that *)
(* a message of the runtime starts may wait for the batch that brought it.     *)
HandlerNeverWaits == awaiting # NoTask => pc[awaiting] \notin WaitPCs
=============================================================================
