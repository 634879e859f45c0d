------------------------- MODULE SessionTransitions -------------------------
(***************************************************************************)
(* The store operations that take the frontend out of its running session  *)
(* (src/stores/runtimeStoreActions1.ts and runtimeStoreActions3.ts): back  *)
(* to the title, reload of the project, restart in a new session, opening  *)
(* another project.  Each sets the transitioning flag of the pump, waits   *)
(* for the drive in flight, works on the bridge alone and releases the     *)
(* flag in a finally block that schedules the pump again.                  *)
(*                                                                         *)
(* The flag is a Boolean: title, reload and restart look at it before they *)
(* start, an open takes it whoever holds it.  Beside them ensureSession    *)
(* makes the first session without taking it at all.  disputed remembers   *)
(* that such a one has come between.                                       *)
(*                                                                         *)
(* The operations are the clients of RuntimePump; this module is the whole *)
(* of pump and operations.                                                 *)
(***************************************************************************)
EXTENDS RuntimePump

VARIABLES
  phase,       \* where each operation is
  kind,        \* which operation it is; "recover" is loadProject's error path
  projectOpen, \* context.projectOpen
  loading,     \* context.projectLoading
  selecting,   \* context.projectSelecting
  preparation, \* context.sessionPreparation: "none", or what ensureSession awaits
  disputed     \* history: since the lock was last free, an open has held it with
               \* another operation, or a session was prepared beside its holder

opVars == <<phase, kind, projectOpen, loading, selecting, preparation, disputed>>
allVars == <<vars, opVars>>
coordinator == <<pumping, handlingBatch, pumps, failed>>

\*   picking     the picker is open, the prepareAfterSelection callback to come
\*   ensuring    open awaits ensureSession
\*   barrier     awaits waitUntilIdle before it works on the session
\*   relock      open awaits waitUntilIdle again, the new session ready
\*   sending     title awaits the acknowledgement of return_to_title
\*   cancelling  title awaits the cancellation of the timeline's transfers
\*   settling    title awaits the repaint
\*   retiring    awaits the cancellation of the timeline's transfers
\*   creating    awaits createSession
\*   projecting  awaits handleBatch of the session's first batch
\*   submitting  awaits reloadProject, restartProject or openProject
Working == {"sending", "cancelling", "settling", "retiring", "creating", "projecting",
            "submitting"}
Locked == Working \cup {"barrier", "relock"}
Kinds == {"title", "reload", "restart", "open"}
Phases == Locked \cup {"off", "picking", "ensuring"}
Opening == {"open", "recover"}

TypeInv ==
  /\ TypeOK
  /\ phase \in [Clients -> Phases]
  /\ kind \in [Clients -> Kinds \cup {"recover", "none"}]
  /\ projectOpen \in BOOLEAN /\ loading \in BOOLEAN /\ selecting \in BOOLEAN
  /\ preparation \in {"none", "creating", "projecting"}
  /\ disputed \in BOOLEAN

SessionInit ==
  /\ Init
  /\ phase = [o \in Clients |-> "off"]
  /\ kind = [o \in Clients |-> "none"]
  /\ projectOpen = FALSE /\ loading = FALSE /\ selecting = FALSE
  /\ preparation = "none" /\ disputed = FALSE

-----------------------------------------------------------------------------
(* Pieces the operations share. *)

\* Some operation is between its lock and its release.
Held == \E o \in Clients : phase[o] \in Locked

\* An open holds the lock with another operation, or an operation holds it while
\* a session is prepared.
Dispute ==
  \/ \E o, p \in Clients :
       o # p /\ phase[o] \in Locked /\ phase[p] \in Locked /\ kind[o] \in Opening
  \/ Held /\ preparation # "none"
Recorded == disputed' = (Held' /\ (disputed \/ Dispute'))

MayStart(o) == Quiet /\ phase[o] = "off"

GoTo(o, p) == phase' = [phase EXCEPT ![o] = p]
End(o) == GoTo(o, "off") /\ kind' = [kind EXCEPT ![o] = "none"]

\* setTransitioning(true), the timers cleared, await waitUntilIdle().
LockWithoutWait(o, p) ==
  /\ transitioning' = TRUE
  /\ timer' = "none"
  /\ pc' = [pc EXCEPT ![o] = "idle"]
  /\ UNCHANGED idleWaiters
  /\ GoTo(o, p)

LockAndWait(o, p) ==
  /\ transitioning' = TRUE
  /\ timer' = "none"
  /\ WaitUntilIdle(o, "waiting", "idle")
  /\ GoTo(o, p)

\* The finally block: setTransitioning(false), schedulePump(0).
ReleaseAlwaysArms(o) ==
  /\ transitioning' = FALSE
  /\ timer' = "now"
  /\ End(o)

ReleaseWithoutSchedule(o) ==
  /\ transitioning' = FALSE
  /\ UNCHANGED timer
  /\ End(o)

ReleaseStillLocked(o) ==
  /\ UNCHANGED <<transitioning, timer>>
  /\ End(o)

Release(o) ==
  /\ transitioning' = FALSE
  /\ timer' = IF ready' THEN "now" ELSE timer
  /\ End(o)

\* retireFrontendOwners(true): no service lease and no ready session is left.
RetireReadyOnly == ready' = FALSE /\ UNCHANGED live
RetireSession == ready' = FALSE /\ live' = {}

\* A restart the batch handler awaits lets the handler go on.
Finished(o) == awaiting' = IF awaiting = o THEN NoTask ELSE awaiting

-----------------------------------------------------------------------------
(* Starting. *)

StartTitle(o) ==
  /\ MayStart(o)
  /\ projectOpen /\ ~loading /\ ~transitioning
  /\ kind' = [kind EXCEPT ![o] = "title"]
  /\ LockAndWait(o, "barrier")
  /\ UNCHANGED <<coordinator, ready, live, awaiting, projectOpen, loading, selecting,
                 preparation>>

\* reloadProject leaves the timer armed.
StartReload(o) ==
  /\ MayStart(o)
  /\ ~loading /\ ~transitioning
  /\ kind' = [kind EXCEPT ![o] = "reload"]
  /\ loading' = TRUE
  /\ transitioning' = TRUE
  /\ WaitUntilIdle(o, "waiting", "idle")
  /\ GoTo(o, "barrier")
  /\ UNCHANGED <<coordinator, ready, timer, live, awaiting, projectOpen, selecting,
                 preparation>>

\* restartSession, from the menu or awaited by the handler of exit_requested.
StartRestart(o, nested) ==
  /\ MayStart(o)
  /\ projectOpen /\ ~loading /\ ~transitioning
  /\ nested => handlingBatch /\ awaiting = NoTask
  /\ kind' = [kind EXCEPT ![o] = "restart"]
  /\ loading' = TRUE
  /\ LockAndWait(o, "barrier")
  /\ awaiting' = IF nested THEN o ELSE awaiting
  /\ UNCHANGED <<coordinator, ready, live, projectOpen, selecting, preparation>>

\* canOpenProject looks neither at the lock nor at the preparation.
StartOpen(o) ==
  /\ MayStart(o)
  /\ ~selecting /\ ~loading
  /\ kind' = [kind EXCEPT ![o] = "open"]
  /\ selecting' = TRUE
  /\ GoTo(o, "picking")
  /\ UNCHANGED <<vars, projectOpen, loading, preparation>>

\* The picker was dismissed or failed ...
Dismissed(o) ==
  /\ Quiet /\ phase[o] = "picking"
  /\ End(o)
  /\ selecting' = FALSE /\ loading' = FALSE
  /\ UNCHANGED <<vars, projectOpen, preparation>>

\* ... or prepareAfterSelection begins.  The session of an open project is
\* replaced, and one made before audio was available (either way here); another
\* is kept; without one, one is awaited, and begun if nobody has begun it.
Picked(o) ==
  /\ Quiet /\ phase[o] = "picking"
  /\ \/ /\ projectOpen \/ ready
        /\ LockAndWait(o, "barrier")
        /\ UNCHANGED <<loading, preparation>>
     \/ /\ ~projectOpen /\ ready
        /\ LockAndWait(o, "relock")
        /\ UNCHANGED <<loading, preparation>>
     \/ /\ ~projectOpen /\ ~ready
        /\ GoTo(o, "ensuring")
        /\ loading' = TRUE
        /\ preparation' = IF preparation = "none" THEN "creating" ELSE preparation
        /\ UNCHANGED <<transitioning, timer, pc, idleWaiters>>
  /\ UNCHANGED <<coordinator, ready, live, awaiting, kind, projectOpen, selecting>>

-----------------------------------------------------------------------------
(* ensureSession: begun by an open, by the store's initialization or by the    *)
(* debugger, shared by all, and holding no lock.                               *)

StartPreparation ==
  /\ Quiet
  /\ ~ready /\ preparation = "none"
  /\ preparation' = "creating"
  /\ UNCHANGED <<vars, phase, kind, projectOpen, loading, selecting>>

\* The session is ready before its first batch is handled: from here on the
\* pump may be scheduled, beside the handling of that batch ...
PreparationCreated ==
  /\ Quiet /\ preparation = "creating"
  /\ preparation' = "projecting"
  /\ ready' = TRUE
  /\ UNCHANGED <<coordinator, transitioning, timer, pc, idleWaiters, live, awaiting,
                 phase, kind, projectOpen, loading, selecting>>

\* ... which schedules it only when it is done.  The open that waited finishes
\* the load and takes the lock in the same turn, to submit its project or to
\* replace the session for the sake of audio.
PreparationHandled ==
  /\ Quiet /\ preparation = "projecting"
  /\ preparation' = "none"
  /\ \/ /\ \A o \in Clients : phase[o] # "ensuring"
        /\ timer' = Scheduled("now")
        /\ UNCHANGED <<transitioning, pc, idleWaiters, phase, loading>>
     \/ \E o \in Clients :
          /\ phase[o] = "ensuring"
          /\ loading' = FALSE
          /\ \E next \in {"relock", "barrier"} : LockAndWait(o, next)
  /\ UNCHANGED <<coordinator, ready, live, awaiting, kind, projectOpen, selecting>>

\* createSession is refused, or the first batch cannot be handled; the open that
\* waited ends.
PreparationFails ==
  /\ Quiet /\ preparation # "none"
  /\ preparation' = "none"
  /\ ready' = (ready /\ preparation = "creating")
  /\ \/ /\ \A o \in Clients : phase[o] # "ensuring"
        /\ UNCHANGED <<phase, kind, loading, selecting>>
     \/ \E o \in Clients :
          /\ phase[o] = "ensuring"
          /\ End(o)
          /\ loading' = FALSE /\ selecting' = FALSE
  /\ UNCHANGED <<coordinator, transitioning, timer, pc, idleWaiters, live, awaiting,
                 projectOpen>>

-----------------------------------------------------------------------------
(* Working. *)

\* waitUntilIdle() returned and the operation resumes.
BarrierPassed(o) ==
  /\ pc[o] = "idle"
  /\ pc' = [pc EXCEPT ![o] = "off"]
  /\ GoTo(o, IF phase[o] = "relock" \/ kind[o] = "reload" THEN "submitting"
             ELSE IF kind[o] = "title" THEN "sending" ELSE "retiring")
  /\ UNCHANGED <<coordinator, ready, transitioning, timer, idleWaiters, live,
                 awaiting, kind, projectOpen, loading, selecting, preparation>>

\* return_to_title is acknowledged, or the submission fails and the finally block
\* runs.
TitleSent(o) ==
  /\ Quiet /\ phase[o] = "sending"
  /\ UNCHANGED ready
  /\ \/ /\ GoTo(o, "cancelling")
        /\ UNCHANGED <<transitioning, timer, kind>>
     \/ Release(o)
  /\ UNCHANGED <<coordinator, pc, idleWaiters, live, awaiting, projectOpen, loading,
                 selecting, preparation>>

\* The old timeline's transfers are cancelled and its services retired.
TitleRetired(o) ==
  /\ Quiet /\ phase[o] = "cancelling"
  /\ live' = {}
  /\ GoTo(o, "settling")
  /\ UNCHANGED <<coordinator, ready, transitioning, timer, pc, idleWaiters, awaiting,
                 kind, projectOpen, loading, selecting, preparation>>

TitleSettled(o) ==
  /\ Quiet /\ phase[o] = "settling"
  /\ UNCHANGED ready
  /\ Release(o)
  /\ UNCHANGED <<coordinator, pc, idleWaiters, live, awaiting, projectOpen, loading,
                 selecting, preparation>>

\* replaceRuntimeSession past its barrier: the old session's owners go ...
SessionRetired(o) ==
  /\ Quiet /\ phase[o] = "retiring"
  /\ RetireSession
  /\ GoTo(o, "creating")
  /\ UNCHANGED <<coordinator, transitioning, timer, pc, idleWaiters, awaiting, kind,
                 projectOpen, loading, selecting, preparation>>

\* ... and the new session is ready before its first batch is handled.
SessionCreated(o) ==
  /\ Quiet /\ phase[o] = "creating"
  /\ ready' = TRUE
  /\ GoTo(o, "projecting")
  /\ UNCHANGED <<coordinator, transitioning, timer, pc, idleWaiters, live, awaiting,
                 kind, projectOpen, loading, selecting, preparation>>

\* The first batch is handled.  restart submits the project; open takes the
\* lock again; recover ends in loadProject's finally block.
FirstBatchHandled(o) ==
  /\ Quiet /\ phase[o] = "projecting"
  /\ UNCHANGED ready
  /\ \/ /\ kind[o] = "restart"
        /\ GoTo(o, "submitting")
        /\ UNCHANGED <<transitioning, timer, pc, idleWaiters, kind, projectOpen,
                       selecting, loading>>
     \/ /\ kind[o] = "open"
        /\ LockAndWait(o, "relock")
        /\ UNCHANGED <<kind, projectOpen, selecting, loading>>
     \/ /\ kind[o] = "recover"
        /\ Release(o)
        /\ projectOpen' = FALSE
        /\ selecting' = FALSE
        /\ loading' = FALSE
        /\ UNCHANGED <<pc, idleWaiters>>
  /\ UNCHANGED <<coordinator, live, awaiting, preparation>>

\* replaceRuntimeSession fails: the half-made session is retired as well.
ReplacementFails(o) ==
  /\ Quiet /\ phase[o] \in {"creating", "projecting"}
  /\ RetireSession
  /\ Release(o)
  /\ loading' = FALSE
  /\ projectOpen' = (projectOpen /\ kind[o] = "restart")
  /\ selecting' = (selecting /\ kind[o] = "restart")
  /\ Finished(o)
  /\ UNCHANGED <<coordinator, pc, idleWaiters, preparation>>

\* The project is submitted; loading goes on until the runtime reports.
Submitted(o) ==
  /\ Quiet /\ phase[o] = "submitting"
  /\ UNCHANGED ready
  /\ Release(o)
  /\ loading' = TRUE
  /\ projectOpen' = (projectOpen \/ kind[o] = "open")
  /\ selecting' = (selecting /\ kind[o] # "open")
  /\ Finished(o)
  /\ UNCHANGED <<coordinator, pc, idleWaiters, live, preparation>>

\* The submission fails: open rebuilds the session it may have spoiled.
SubmissionFails(o) ==
  /\ Quiet /\ phase[o] = "submitting"
  /\ UNCHANGED ready
  /\ \/ /\ kind[o] = "open"
        /\ kind' = [kind EXCEPT ![o] = "recover"]
        /\ LockAndWait(o, "barrier")
        /\ UNCHANGED <<loading, awaiting>>
     \/ /\ kind[o] # "open"
        /\ Release(o)
        /\ loading' = FALSE
        /\ Finished(o)
        /\ UNCHANGED <<pc, idleWaiters>>
  /\ UNCHANGED <<coordinator, live, projectOpen, selecting, preparation>>

-----------------------------------------------------------------------------
(* The rest of the store between the operations. *)

\* A batch is handled: of a drive, or the first of a session.
Projecting ==
  handlingBatch \/ preparation = "projecting" \/ \E o \in Clients : phase[o] = "projecting"

\* A batch brings a service request ...
BeginService(r) ==
  /\ Quiet
  /\ Projecting
  /\ r \notin live /\ pc[r] = "off"
  /\ live' = live \cup {r}
  /\ UNCHANGED <<coordinator, ready, transitioning, timer, pc, idleWaiters, awaiting,
                 opVars>>

\* ... or cancels one, or moves the epoch, which retires them all.
RetireServices(retired) ==
  /\ Quiet
  /\ Projecting
  /\ retired \cap live # {}
  /\ live' = live \ retired
  /\ UNCHANGED <<coordinator, ready, transitioning, timer, pc, idleWaiters, awaiting,
                 opVars>>

\* Any other command is acknowledged by the bridge and the pump scheduled.
OrdinarySend ==
  /\ Quiet
  /\ timer' = Scheduled("now")
  /\ UNCHANGED <<coordinator, ready, transitioning, pc, idleWaiters, live, awaiting,
                 opVars>>

\* The runtime reports the end of the load.
LoadReported ==
  /\ Quiet
  /\ handlingBatch /\ loading
  /\ loading' = FALSE
  /\ UNCHANGED <<vars, phase, kind, projectOpen, selecting, preparation, disputed>>

\* A turn of the coordinator; handleError ends the load as well.
DriveFailed == failed' /\ (~failed \/ \E r \in Responses : pc[r] = "idle" /\ pc'[r] = "off")
PumpTurn ==
  /\ CoordinatorTurn
  /\ loading' = (loading /\ ~DriveFailed)
  /\ UNCHANGED <<phase, kind, projectOpen, selecting, preparation, disputed>>

Start(o) ==
  /\ \/ StartTitle(o) \/ StartReload(o) \/ StartOpen(o)
     \/ \E nested \in BOOLEAN : StartRestart(o, nested)
  /\ Recorded

Advance(o) ==
  /\ \/ Dismissed(o) \/ Picked(o) \/ BarrierPassed(o)
     \/ TitleSent(o) \/ TitleRetired(o) \/ TitleSettled(o)
     \/ SessionRetired(o) \/ SessionCreated(o) \/ FirstBatchHandled(o)
     \/ ReplacementFails(o) \/ Submitted(o) \/ SubmissionFails(o)
  /\ Recorded

Prepare ==
  /\ PreparationCreated \/ PreparationHandled \/ PreparationFails
  /\ Recorded

SessionNext ==
  \/ PumpTurn
  \/ \E o \in Clients : Start(o) \/ Advance(o)
  \/ StartPreparation /\ Recorded
  \/ Prepare
  \/ \E r \in Responses : BeginService(r)
  \/ \E retired \in SUBSET Responses : RetireServices(retired)
  \/ OrdinarySend
  \/ LoadReported

\* The event loop runs every microtask, and serves each source of tasks (the
\* bridge's answers, acknowledgements, handlers, user dialogs) in turn: a source
\* that has something to deliver again and again is served, although microtasks
\* keep disabling it for a while.
Fairness ==
  /\ \A t \in Tasks : WF_allVars(WaiterWakes(t) /\ PumpTurn)
  /\ \A r \in Responses : WF_allVars((ResponseResumes(r) \/ ResponseRefused(r)) /\ PumpTurn)
  /\ \A s \in Submitters : WF_allVars(SubmitResumes(s) /\ PumpTurn)
  /\ \A s \in Submitters : SF_allVars((BatchArrives(s) \/ SubmitBatchEnds(s)) /\ PumpTurn)
  /\ \A s \in Skips : SF_allVars(PlainAck(s) /\ PumpTurn)
  /\ \A l \in Loops :
       SF_allVars((TimeAdvanced(l) \/ BatchArrives(l) \/ LoopBatchEnds(l)) /\ PumpTurn)
  /\ \A o \in Clients : SF_allVars(Advance(o))
  /\ SF_allVars(Prepare)

SessionSpec == SessionInit /\ [][SessionNext]_allVars /\ Fairness
-----------------------------------------------------------------------------
(* The transition lock excludes the pump: once an operation has waited for     *)
(* the drive in flight, nothing drives the bridge until it has released the    *)
(* lock - no loop turn, no fused submission that was already waiting, and no   *)
(* other title, reload or restart, unless an open has disputed the lock.       *)
TransitionExclusive ==
  ~disputed => \A o \in Clients : phase[o] \in Working =>
    transitioning /\ ~pumping /\ \A p \in Clients \ {o} : phase[p] \notin Working

(* The flag is held while an operation is between its lock and its release,    *)
(* and never longer: no error path, and no dispute, leaves the pump locked for *)
(* good.                                                                       *)
LockOwned ==
  /\ transitioning => Held
  /\ Held /\ ~disputed => transitioning

(* No lease of a retired session survives into the next one: until the new     *)
(* session's first batch, no response can be submitted.                        *)
LeasesRetired ==
  ~disputed => \A o \in Clients : phase[o] = "creating" => live = {}

(* The pump is never forgotten: at the end of a turn a ready session is being  *)
(* driven, or an operation or the preparation of a session is at work whose    *)
(* end schedules it, or it has its timer armed, or a message of its own still  *)
(* to be acknowledged - or its last drive failed.  Every path that clears the  *)
(* timer or drops a scheduling request is made good.                           *)
PumpScheduled ==
  Quiet /\ ready /\ ~pumping /\ ~failed /\ ~Held /\ preparation # "projecting" =>
    timer # "none" \/ \E s \in Skips : pc[s] = "plain"

(* The operations use the coordinator as ClientTurn allows any client to, so   *)
(* the invariants of RuntimePump hold of the whole.                            *)
ImplementsPump == Spec

(* Every operation ends: its barrier is passed although the drive it waits     *)
(* for may run several pumps, and its error paths all reach the release -      *)
(* unless a batch handler waits for an operation, and with it every drive.     *)
OperationEnds ==
  \A o \in Clients : phase[o] # "off" ~> phase[o] = "off" \/ awaiting \in Clients

(* Every response that waits for the drive is submitted, cancelled or failed,  *)
(* with the same exception.                                                    *)
ResponseSettles ==
  \A r \in Responses : pc[r] # "off" ~> pc[r] = "off" \/ awaiting \in Clients
=============================================================================
