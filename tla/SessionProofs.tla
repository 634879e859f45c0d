--------------------------- MODULE SessionProofs ---------------------------
(***************************************************************************)
(* Proofs about the runtime pump and about the session operations that     *)
(* are its clients.                                                        *)
(*                                                                         *)
(* The pump: the invariants of RuntimePump, for any sets of tasks, any     *)
(* fairness bound and any behaviour of the clients.  Their conjunction is  *)
(* inductive as it stands: mutual exclusion needs BatchOwned to know that  *)
(* a failing drive that is not projecting has no handler behind it, and    *)
(* the waiters need both to know that whoever is busy is a driving task.   *)
(*                                                                         *)
(* The operations: the transition lock, for any set of operations, loops,  *)
(* responses and skips, whatever overlaps.  The operations are a client    *)
(* RuntimePump allows, so the coordinator's invariants hold of the whole.  *)
(* The flag is up only while an operation is between its lock and its      *)
(* release.  Two operations hold the lock together only after an open has  *)
(* disputed it, because title, reload and restart look at the flag first;  *)
(* until then an operation that has found the drive idle under the lock    *)
(* keeps every loop and submission from claiming it.                       *)
(***************************************************************************)
EXTENDS SessionTransitions, TLAPS

-----------------------------------------------------------------------------
(* The pump. *)

PumpInv ==
  /\ TypeOK
  /\ DriveExclusive
  /\ BatchOwned
  /\ NoLostWakeup
  /\ NestedNeverBlocked

USE TasksAssumption, MaxPumpsAssumption

-----------------------------------------------------------------------------
(* A task outside the drive that moves to another suspension outside the drive
   keeps the lock's invariants: what every waiting and resuming step does. *)
LEMMA OutsideStep ==
  ASSUME PumpInv, NEW t \in Tasks, NEW p \in WaitPCs \cup IdlePCs \cup {"off", "refused", "plain"},
         ~Driving(t),
         pc' = [pc EXCEPT ![t] = p],
         UNCHANGED <<pumping, handlingBatch>>
  PROVE  DriveExclusive' /\ BatchOwned'
<1>1. \A u \in Tasks : pc'[u] = IF u = t THEN p ELSE pc[u]
  BY DEF PumpInv, TypeOK
<1>2. \A u \in Tasks : Driving(u)' <=> Driving(u)
  BY <1>1 DEF Driving, DrivePCs, WaitPCs, IdlePCs
<1>3. \A u \in Tasks : (pc[u] = "batch")' <=> pc[u] = "batch"
  BY <1>1 DEF Driving, DrivePCs, WaitPCs, IdlePCs
<1>4. DriveExclusive'
  BY <1>2 DEF PumpInv, DriveExclusive
<1>5. BatchOwned'
  BY <1>3 DEF PumpInv, BatchOwned
<1> QED  BY <1>4, <1>5

(* Joining the waiters, or passing them, by a task that is not suspended in the
   drive or awaited by a handler. *)
LEMMA WaitStep ==
  ASSUME PumpInv, NEW t \in Tasks, NEW w \in WaitPCs, NEW i \in IdlePCs,
         ~Driving(t), pc[t] # "plain", t \notin idleWaiters,
         WaitUntilIdle(t, w, i),
         UNCHANGED <<pumping, handlingBatch>>
  PROVE  /\ DriveExclusive' /\ BatchOwned' /\ NoLostWakeup'
         /\ UNCHANGED awaiting => NestedNeverBlocked'
<1>1. DriveExclusive' /\ BatchOwned'
  <2>1. CASE Busy
    BY <2>1, OutsideStep DEF WaitUntilIdle
  <2>2. CASE ~Busy
    BY <2>2, OutsideStep DEF WaitUntilIdle
  <2> QED  BY <2>1, <2>2
<1>2. \A u \in Tasks \ {t} : pc'[u] = pc[u]
  BY DEF PumpInv, TypeOK, WaitUntilIdle
<1>3. NoLostWakeup'
  <2>1. CASE Busy
    <3>1. pumping
      BY <2>1 DEF PumpInv, Busy, BatchOwned, DriveExclusive, Driving, DrivePCs
    <3>2. pc'[t] = w /\ idleWaiters' = idleWaiters \cup {t}
      BY <2>1 DEF PumpInv, TypeOK, WaitUntilIdle
    <3> QED  BY <3>1, <3>2, <1>2 DEF PumpInv, TypeOK, NoLostWakeup
  <2>2. CASE ~Busy
    BY <2>2, <1>2 DEF PumpInv, TypeOK, NoLostWakeup, WaitUntilIdle
  <2> QED  BY <2>1, <2>2
<1>4. UNCHANGED awaiting => NestedNeverBlocked'
  BY <1>2 DEF PumpInv, TypeOK, NestedNeverBlocked, Submitters, Tasks
<1> QED  BY <1>1, <1>3, <1>4

(* The end of a drive by its owner, or by a claimant that never drove. *)
LEMMA EndStep ==
  ASSUME PumpInv, NEW t \in Tasks,
         ~Driving(t) => ~pumping,
         pc[t] = "batch" => awaiting = NoTask,
         ~handlingBatch', EndDrive(t), UNCHANGED awaiting
  PROVE  DriveExclusive' /\ BatchOwned' /\ NoLostWakeup' /\ NestedNeverBlocked'
<1>1. \A u \in Tasks : pc'[u] = IF u = t THEN "off" ELSE pc[u]
  BY DEF PumpInv, TypeOK, EndDrive
<1>2. \A u \in Tasks : ~Driving(u)'
  BY <1>1 DEF PumpInv, DriveExclusive, Driving, DrivePCs
<1>3. DriveExclusive' /\ BatchOwned'
  BY <1>2 DEF DriveExclusive, BatchOwned, EndDrive, Driving, DrivePCs
<1>4. NoLostWakeup'
  BY DEF NoLostWakeup, EndDrive
<1>5. awaiting = NoTask
  <2>1. CASE handlingBatch
    BY <2>1 DEF PumpInv, BatchOwned, DriveExclusive, Driving, DrivePCs
  <2>2. CASE ~handlingBatch
    BY <2>2 DEF PumpInv, NestedNeverBlocked
  <2> QED  BY <2>1, <2>2
<1>6. NestedNeverBlocked'
  BY <1>5 DEF NestedNeverBlocked
<1> QED  BY <1>3, <1>4, <1>6

-----------------------------------------------------------------------------
(* Types. *)

LEMMA InitEstablishes == Init => PumpInv
<1> SUFFICES ASSUME Init PROVE PumpInv
  OBVIOUS
<1>1. TypeOK
  <2>1. pc \in [Tasks -> {"off"}] /\ \A t \in Tasks : pc[t] = "off"
    BY DEF Init
  <2>2. pumps \in 0 .. MaxPumps
    BY DEF Init
  <2> QED  BY <2>1, <2>2 DEF Init, TypeOK, Tasks, Submitters, DrivePCs
<1>2. DriveExclusive /\ BatchOwned
  BY DEF Init, DriveExclusive, BatchOwned, Driving, DrivePCs
<1>3. NoLostWakeup /\ NestedNeverBlocked
  BY DEF Init, NoLostWakeup, NestedNeverBlocked
<1> QED  BY <1>1, <1>2, <1>3 DEF PumpInv

(* Every helper that moves one task keeps pc and the waiters well typed. *)
LEMMA WaitTypes ==
  ASSUME TypeOK, NEW t \in Tasks \ Loops, NEW w \in WaitPCs, NEW i \in IdlePCs,
         t \in Clients => w = "waiting" /\ i = "idle",
         WaitUntilIdle(t, w, i)
  PROVE  /\ pc' \in [Tasks -> DrivePCs \cup WaitPCs \cup IdlePCs
                                  \cup {"off", "refused", "plain"}]
         /\ \A l \in Loops : pc'[l] \in DrivePCs \cup {"off"}
         /\ \A s \in Submitters : pc'[s] # "time"
         /\ \A c \in Clients : pc'[c] \in {"off", "waiting", "idle"}
         /\ idleWaiters' \in SUBSET Tasks
<1>1. PICK p \in {w, i} : pc' = [pc EXCEPT ![t] = p]
  BY DEF WaitUntilIdle
<1>2. \A u \in Tasks : pc'[u] = IF u = t THEN p ELSE pc[u]
  BY <1>1 DEF TypeOK
<1>3. idleWaiters' \in SUBSET Tasks
  BY DEF TypeOK, WaitUntilIdle
<1> QED
  BY <1>1, <1>2, <1>3 DEF TypeOK, DrivePCs, WaitPCs, IdlePCs, Tasks, Submitters

LEMMA TypeStep == TypeOK /\ [Next]_vars => TypeOK'
<1> SUFFICES ASSUME TypeOK, [Next]_vars PROVE TypeOK'
  OBVIOUS
<1> USE DEF TypeOK, Delays, DrivePCs, WaitPCs, IdlePCs
<1>1. CASE UNCHANGED vars
  BY <1>1 DEF vars
<1>2. CASE TimerFires
  <2>1. /\ pumps' \in 0 .. MaxPumps /\ timer' = "none"
        /\ UNCHANGED <<ready, transitioning, handlingBatch, idleWaiters, awaiting, live>>
    BY <1>2 DEF TimerFires
  <2>2. CASE UNCHANGED <<pumping, pc, failed>>
    BY <2>1, <2>2
  <2>3. ASSUME NEW l \in Loops, pc' = [pc EXCEPT ![l] = "time"],
               pumping' = TRUE, failed' = FALSE
        PROVE  TypeOK'
    BY <2>1, <2>3 DEF Tasks, Submitters
  <2> QED  BY <1>2, <2>2, <2>3 DEF TimerFires
<1>3. ASSUME NEW l \in Loops, TimeAdvanced(l) PROVE TypeOK'
  BY <1>3 DEF TimeAdvanced, Tasks, Submitters
<1>4. ASSUME NEW l \in Loops, LoopBatchEnds(l) PROVE TypeOK'
  <2>1. timer' \in Delays \cup {"none"}
    BY <1>4 DEF LoopBatchEnds, Scheduled
  <2>2. pumps' \in 0 .. MaxPumps
    BY <1>4 DEF LoopBatchEnds, MayPumpAgain
  <2>3. PICK p \in {"time", "off"} : pc' = [pc EXCEPT ![l] = p]
    BY <1>4 DEF LoopBatchEnds, EndDrive
  <2>4. /\ pumping' \in BOOLEAN /\ idleWaiters' \in SUBSET Tasks
        /\ handlingBatch' = FALSE
        /\ UNCHANGED <<ready, transitioning, awaiting, live, failed>>
    BY <1>4 DEF LoopBatchEnds, EndDrive
  <2> QED  BY <2>1, <2>2, <2>3, <2>4 DEF Tasks, Submitters
<1>5. ASSUME NEW t \in Loops \cup Submitters, BatchArrives(t) PROVE TypeOK'
  BY <1>5 DEF BatchArrives, Tasks, Submitters
<1>6. ASSUME NEW t \in Loops \cup Submitters, DriveThrows(t) PROVE TypeOK'
  BY <1>6 DEF DriveThrows, DriveFails, EndDrive, Tasks, Submitters
<1>7. ASSUME NEW s \in Skips, PlainAck(s) PROVE TypeOK'
  BY <1>7 DEF PlainAck, Scheduled, Tasks, Submitters
<1>8. ASSUME NEW s \in Skips, NEW nested \in BOOLEAN, StartSkip(s, nested) PROVE TypeOK'
  <2>1. CASE Reentrant
    BY <1>8, <2>1 DEF StartSkip, Tasks, Submitters
  <2>2. CASE ~Reentrant
    BY <1>8, <2>2, WaitTypes DEF StartSkip, EnterSubmit, Tasks, Submitters
  <2> QED  BY <2>1, <2>2
<1>9. ASSUME NEW t \in Tasks, WaiterWakes(t) PROVE TypeOK'
  BY <1>9, WaitTypes DEF WaiterWakes, Tasks, Submitters
<1>10. ASSUME NEW r \in Responses, Respond(r) PROVE TypeOK'
  BY <1>10, WaitTypes DEF Respond, Tasks, Submitters
<1>11. ASSUME NEW r \in Responses, ResponseResumes(r) PROVE TypeOK'
  <2>1. CASE EnterSubmit(r)
    BY <1>11, <2>1, WaitTypes DEF ResponseResumes, EnterSubmit, Tasks, Submitters
  <2>2. CASE ~EnterSubmit(r)
    BY <1>11, <2>2 DEF ResponseResumes, Tasks, Submitters
  <2> QED  BY <2>1, <2>2
<1>12. ASSUME NEW r \in Responses, ResponseRefused(r) PROVE TypeOK'
  <2>1. CASE ~ready \/ transitioning
    BY <1>12, <2>1 DEF ResponseRefused, Tasks, Submitters
  <2>2. CASE ~(~ready \/ transitioning)
    BY <1>12, <2>2, WaitTypes DEF ResponseRefused, Tasks, Submitters
  <2> QED  BY <2>1, <2>2
<1>13. ASSUME NEW s \in Submitters, SubmitResumes(s) PROVE TypeOK'
  <2>1. CASE WaitUntilIdle(s, "waiting", "idle") /\ UNCHANGED <<pumping, handlingBatch, live, failed>>
    BY <1>13, <2>1, WaitTypes DEF SubmitResumes, Tasks, Submitters
  <2>2. CASE Claim(s)
    <3>1. CASE s \in Responses \ live
      BY <1>13, <2>2, <3>1 DEF SubmitResumes, Claim, DriveFails, EndDrive, Tasks, Submitters
    <3>2. CASE s \notin Responses \ live
      BY <1>13, <2>2, <3>2 DEF SubmitResumes, Claim, Tasks, Submitters
    <3> QED  BY <3>1, <3>2
  <2>3. CASE /\ pc' = [pc EXCEPT ![s] = IF s \in Skips THEN "plain" ELSE "refused"]
             /\ UNCHANGED <<pumping, handlingBatch, idleWaiters, live, failed>>
    BY <1>13, <2>3 DEF SubmitResumes, Tasks, Submitters
  <2> QED  BY <1>13, <2>1, <2>2, <2>3 DEF SubmitResumes
<1>14. ASSUME NEW s \in Submitters, SubmitBatchEnds(s) PROVE TypeOK'
  BY <1>14 DEF SubmitBatchEnds, EndDrive, Scheduled, Tasks, Submitters
<1>15. CASE ClientTurn
  <2>1. /\ live' \in SUBSET Responses /\ timer' \in Delays \cup {"none"}
        /\ awaiting' \in Tasks \cup {NoTask}
    BY <1>15 DEF ClientTurn, HandlerMoves, Tasks
  <2>2. CASE UNCHANGED <<pc, idleWaiters>>
    BY <1>15, <2>1, <2>2 DEF ClientTurn
  <2>3. ASSUME NEW c \in Clients, WaitUntilIdle(c, "waiting", "idle") PROVE TypeOK'
    BY <1>15, <2>1, <2>3, WaitTypes DEF ClientTurn, Tasks
  <2>4. ASSUME NEW c \in Clients, pc' = [pc EXCEPT ![c] = "off"], UNCHANGED idleWaiters
        PROVE TypeOK'
    BY <1>15, <2>1, <2>4 DEF ClientTurn, Tasks, Submitters
  <2> QED  BY <1>15, <2>2, <2>3, <2>4 DEF ClientTurn, ClientMoves
<1> QED
  BY <1>1, <1>2, <1>3, <1>4, <1>5, <1>6, <1>7, <1>8, <1>9, <1>10, <1>11, <1>12,
     <1>13, <1>14, <1>15 DEF Next, CoordinatorTurn

(* Every value of the coordinator's fields and of its tasks is one the code can
   hold, and the loop's contiguous pumps respect the fairness bound. *)
THEOREM TypeCorrect == Spec => []TypeOK
<1>1. Init => TypeOK
  BY InitEstablishes DEF PumpInv
<1> QED  BY <1>1, TypeStep, PTL DEF Spec

-----------------------------------------------------------------------------
(* The lock. *)

(* A task outside the drive that no handler awaits moves outside the drive, and
   is no waiter: resuming, being refused, falling back, cancelling. *)
LEMMA MoveStep ==
  ASSUME PumpInv, NEW t \in Tasks, NEW p \in WaitPCs \cup IdlePCs \cup {"off", "refused", "plain"},
         ~Driving(t), pc[t] # "plain", t \notin idleWaiters,
         pc' = [pc EXCEPT ![t] = p],
         UNCHANGED <<pumping, handlingBatch, idleWaiters>>
  PROVE  /\ DriveExclusive' /\ BatchOwned' /\ NoLostWakeup'
         /\ UNCHANGED awaiting => NestedNeverBlocked'
<1>1. DriveExclusive' /\ BatchOwned'
  BY OutsideStep
<1>2. \A u \in Tasks \ {t} : pc'[u] = pc[u]
  BY DEF PumpInv, TypeOK
<1>3. NoLostWakeup'
  BY <1>2 DEF PumpInv, TypeOK, NoLostWakeup
<1>4. UNCHANGED awaiting => NestedNeverBlocked'
  BY <1>2 DEF PumpInv, NestedNeverBlocked, Tasks, Submitters
<1> QED  BY <1>1, <1>3, <1>4

(* The idle lock is claimed: the claimant is the only task in the drive. *)
LEMMA ClaimStep ==
  ASSUME PumpInv, NEW t \in Tasks, NEW p \in {"time", "bridge"},
         ~pumping, pc[t] \in {"off", "idle"}, t \notin idleWaiters,
         pc' = [pc EXCEPT ![t] = p], pumping' = TRUE,
         UNCHANGED <<handlingBatch, idleWaiters, awaiting>>
  PROVE  DriveExclusive' /\ BatchOwned' /\ NoLostWakeup' /\ NestedNeverBlocked'
<1>1. \A u \in Tasks : pc'[u] = IF u = t THEN p ELSE pc[u]
  BY DEF PumpInv, TypeOK
<1>2. \A u \in Tasks : Driving(u)' <=> u = t
  BY <1>1 DEF PumpInv, DriveExclusive, Driving, DrivePCs
<1>3. DriveExclusive'
  BY <1>2 DEF DriveExclusive
<1>4. ~handlingBatch /\ \A u \in Tasks : pc[u] # "batch"
  BY DEF PumpInv, DriveExclusive, BatchOwned, Driving, DrivePCs
<1>5. BatchOwned'
  BY <1>1, <1>4 DEF BatchOwned
<1>6. idleWaiters = {} /\ awaiting = NoTask
  BY <1>4 DEF PumpInv, NoLostWakeup, NestedNeverBlocked
<1>7. NoLostWakeup' /\ NestedNeverBlocked'
  BY <1>6 DEF NoLostWakeup, NestedNeverBlocked
<1> QED  BY <1>3, <1>5, <1>7

(* The owner moves on inside the drive, and #handlingBatch says whether it
   projects. *)
LEMMA DriveStep ==
  ASSUME PumpInv, NEW t \in Tasks, NEW p \in DrivePCs, Driving(t),
         pc[t] = "batch" => awaiting = NoTask,
         pc' = [pc EXCEPT ![t] = p],
         handlingBatch' <=> p = "batch",
         UNCHANGED <<pumping, idleWaiters, awaiting>>
  PROVE  DriveExclusive' /\ BatchOwned' /\ NoLostWakeup' /\ NestedNeverBlocked'
<1>1. \A u \in Tasks : pc'[u] = IF u = t THEN p ELSE pc[u]
  BY DEF PumpInv, TypeOK
<1>2. \A u \in Tasks : Driving(u)' <=> Driving(u)
  BY <1>1 DEF Driving
<1>3. DriveExclusive'
  BY <1>2 DEF PumpInv, DriveExclusive
<1>4. BatchOwned'
  BY <1>1 DEF PumpInv, DriveExclusive, BatchOwned, Driving, DrivePCs
<1>5. NoLostWakeup'
  BY <1>1 DEF PumpInv, NoLostWakeup, TypeOK, Driving, DrivePCs, WaitPCs
<1>6. awaiting = NoTask
  <2>1. CASE handlingBatch
    BY <2>1 DEF PumpInv, BatchOwned, DriveExclusive, Driving, DrivePCs
  <2>2. CASE ~handlingBatch
    BY <2>2 DEF PumpInv, NestedNeverBlocked
  <2> QED  BY <2>1, <2>2
<1>7. NestedNeverBlocked'
  BY <1>6 DEF NestedNeverBlocked
<1> QED  BY <1>3, <1>4, <1>5, <1>7

LEMMA LockStep ==
  ASSUME PumpInv, [Next]_vars
  PROVE  DriveExclusive' /\ BatchOwned' /\ NoLostWakeup' /\ NestedNeverBlocked'
<1> DEFINE Kept == DriveExclusive' /\ BatchOwned' /\ NoLostWakeup' /\ NestedNeverBlocked'
<1> SUFFICES Kept
  OBVIOUS
<1>0. /\ \A t \in idleWaiters : pc[t] \in WaitPCs
      /\ \A s \in Skips : pc[s] # "plain" => awaiting # s
      /\ Loops \subseteq Tasks /\ Responses \subseteq Tasks /\ Skips \subseteq Tasks
      /\ Submitters \subseteq Tasks /\ Clients \subseteq Tasks
  BY DEF PumpInv, NoLostWakeup, NestedNeverBlocked, Tasks, Submitters
<1>1. CASE UNCHANGED vars
  BY <1>1 DEF vars, PumpInv, DriveExclusive, BatchOwned, NoLostWakeup,
              NestedNeverBlocked, Driving
<1>2. CASE TimerFires
  <2>1. CASE UNCHANGED <<pumping, pc>>
    BY <1>2, <2>1 DEF TimerFires, PumpInv, DriveExclusive, BatchOwned, NoLostWakeup,
                      NestedNeverBlocked, Driving
  <2>2. ASSUME NEW l \in Loops, ~pumping, pc[l] = "off", pumping' = TRUE,
               pc' = [pc EXCEPT ![l] = "time"]
        PROVE  Kept
    <3>1. UNCHANGED <<handlingBatch, idleWaiters, awaiting>> /\ l \notin idleWaiters
      BY <1>0, <1>2, <2>2 DEF TimerFires, WaitPCs
    <3> QED  BY <1>0, <2>2, <3>1, ClaimStep
  <2> QED  BY <1>2, <2>1, <2>2 DEF TimerFires, PumpBlocked
<1>3. ASSUME NEW l \in Loops, TimeAdvanced(l) PROVE Kept
  <2>1. ~handlingBatch
    BY <1>0, <1>3 DEF TimeAdvanced, PumpInv, BatchOwned, DriveExclusive, Driving, DrivePCs
  <2>2. Driving(l) /\ (handlingBatch' <=> "bridge" = "batch")
    BY <1>3, <2>1 DEF TimeAdvanced, Driving, DrivePCs
  <2> QED  BY <1>0, <1>3, <2>2, DriveStep DEF TimeAdvanced, DrivePCs
<1>4. ASSUME NEW l \in Loops, LoopBatchEnds(l) PROVE Kept
  <2>1. Driving(l)
    BY <1>4 DEF LoopBatchEnds, Driving, DrivePCs
  <2>2. CASE pc' = [pc EXCEPT ![l] = "time"] /\ UNCHANGED <<timer, pumping, idleWaiters>>
    <3>1. handlingBatch' <=> "time" = "batch"
      BY <1>4 DEF LoopBatchEnds
    <3> QED  BY <1>0, <1>4, <2>1, <2>2, <3>1, DriveStep DEF LoopBatchEnds, DrivePCs
  <2>3. CASE EndDrive(l)
    <3>1. ~handlingBatch' /\ UNCHANGED awaiting /\ awaiting = NoTask
      BY <1>4 DEF LoopBatchEnds
    <3> QED  BY <1>0, <2>1, <2>3, <3>1, EndStep
  <2> QED  BY <1>4, <2>2, <2>3 DEF LoopBatchEnds
<1>5. ASSUME NEW t \in Loops \cup Submitters, BatchArrives(t) PROVE Kept
  <2>1. Driving(t) /\ (handlingBatch' <=> "batch" = "batch")
    BY <1>5 DEF BatchArrives, Driving, DrivePCs
  <2> QED  BY <1>0, <1>5, <2>1, DriveStep DEF BatchArrives, DrivePCs
<1>6. ASSUME NEW t \in Loops \cup Submitters, DriveThrows(t) PROVE Kept
  <2>1. /\ t \in Tasks /\ Driving(t) /\ (pc[t] = "batch" => awaiting = NoTask)
        /\ ~handlingBatch' /\ EndDrive(t) /\ UNCHANGED awaiting
    BY <1>0, <1>6 DEF DriveThrows, DriveFails
  <2> QED  BY <2>1, EndStep
<1>7. ASSUME NEW s \in Skips, PlainAck(s) PROVE Kept
  <2>1. pc' = [pc EXCEPT ![s] = "off"] /\ ~Driving(s)
    BY <1>7 DEF PlainAck, Driving, DrivePCs
  <2>2. DriveExclusive' /\ BatchOwned'
    BY <1>0, <1>7, <2>1, OutsideStep DEF PlainAck
  <2>3. \A u \in Tasks \ {s} : pc'[u] = pc[u]
    BY <2>1 DEF PumpInv, TypeOK
  <2>4. NoLostWakeup'
    BY <1>7, <2>3 DEF PlainAck, PumpInv, TypeOK, NoLostWakeup, WaitPCs
  <2>5. NestedNeverBlocked'
    BY <1>7, <2>3 DEF PlainAck, PumpInv, NestedNeverBlocked, Tasks, Submitters
  <2> QED  BY <2>2, <2>4, <2>5
<1>8. ASSUME NEW s \in Skips, NEW nested \in BOOLEAN, StartSkip(s, nested) PROVE Kept
  <2>1. ~Driving(s) /\ pc[s] # "plain" /\ s \notin idleWaiters
    BY <1>0, <1>8 DEF StartSkip, Driving, DrivePCs, WaitPCs
  <2>2. CASE Reentrant
    <3>1. pc' = [pc EXCEPT ![s] = "plain"] /\ UNCHANGED <<pumping, handlingBatch, idleWaiters>>
      BY <1>8, <2>2 DEF StartSkip
    <3>2. DriveExclusive' /\ BatchOwned'
      BY <1>0, <2>1, <3>1, OutsideStep
    <3>3. pc'[s] = "plain" /\ \A u \in Tasks \ {s} : pc'[u] = pc[u]
      BY <1>0, <3>1 DEF PumpInv, TypeOK
    <3>4. NoLostWakeup'
      BY <2>1, <3>1, <3>3 DEF PumpInv, TypeOK, NoLostWakeup
    <3>5. NestedNeverBlocked'
      BY <1>0, <1>8, <2>2, <3>1, <3>3 DEF StartSkip, Reentrant, PumpInv, NestedNeverBlocked
    <3> QED  BY <3>2, <3>4, <3>5
  <2>3. CASE ~Reentrant
    <3>1. ~nested
      BY <1>8, <2>3 DEF StartSkip, Reentrant
    <3> QED  BY <1>0, <1>8, <2>1, <2>3, <3>1, WaitStep
             DEF StartSkip, EnterSubmit, WaitPCs, IdlePCs
  <2> QED  BY <2>2, <2>3
<1>9. ASSUME NEW t \in Tasks, WaiterWakes(t) PROVE Kept
  <2>1. ~Driving(t) /\ pc[t] # "plain"
    BY <1>9 DEF WaiterWakes, Driving, DrivePCs, WaitPCs
  <2> QED  BY <1>9, <2>1, WaitStep DEF WaiterWakes, WaitPCs, IdlePCs
<1>10. ASSUME NEW r \in Responses, Respond(r) PROVE Kept
  <2>1. ~Driving(r) /\ pc[r] # "plain" /\ r \notin idleWaiters
    BY <1>0, <1>10 DEF Respond, Driving, DrivePCs, WaitPCs
  <2> QED  BY <1>0, <1>10, <2>1, WaitStep DEF Respond, WaitPCs, IdlePCs
<1>11. ASSUME NEW r \in Responses, ResponseResumes(r) PROVE Kept
  <2>1. ~Driving(r) /\ pc[r] # "plain" /\ r \notin idleWaiters
    BY <1>0, <1>11 DEF ResponseResumes, Driving, DrivePCs, WaitPCs
  <2>2. CASE EnterSubmit(r)
    BY <1>0, <1>11, <2>1, <2>2, WaitStep DEF ResponseResumes, EnterSubmit, WaitPCs, IdlePCs
  <2>3. ASSUME NEW p \in {"off", "refused"}, pc' = [pc EXCEPT ![r] = p], UNCHANGED idleWaiters
        PROVE  Kept
    BY <1>0, <1>11, <2>1, <2>3, MoveStep DEF ResponseResumes
  <2> QED  BY <1>11, <2>2, <2>3 DEF ResponseResumes
<1>12. ASSUME NEW r \in Responses, ResponseRefused(r) PROVE Kept
  <2>1. ~Driving(r) /\ pc[r] # "plain" /\ r \notin idleWaiters
    BY <1>0, <1>12 DEF ResponseRefused, Driving, DrivePCs, WaitPCs
  <2>2. CASE ~ready \/ transitioning
    BY <1>0, <1>12, <2>1, <2>2, MoveStep DEF ResponseRefused
  <2>3. CASE ~(~ready \/ transitioning)
    BY <1>0, <1>12, <2>1, <2>3, WaitStep DEF ResponseRefused, WaitPCs, IdlePCs
  <2> QED  BY <2>2, <2>3
<1>13. ASSUME NEW s \in Submitters, SubmitResumes(s) PROVE Kept
  <2>1. /\ pc[s] = "idle" /\ ~Driving(s) /\ s \notin idleWaiters
        /\ UNCHANGED awaiting
    BY <1>0, <1>13 DEF SubmitResumes, Driving, DrivePCs, WaitPCs
  <2>2. ASSUME NEW p \in {"plain", "refused"}, pc' = [pc EXCEPT ![s] = p],
               UNCHANGED <<pumping, handlingBatch, idleWaiters>>
        PROVE  Kept
    BY <1>0, <2>1, <2>2, MoveStep
  <2>3. CASE WaitUntilIdle(s, "waiting", "idle") /\ UNCHANGED <<pumping, handlingBatch>>
    BY <1>0, <2>1, <2>3, WaitStep DEF WaitPCs, IdlePCs
  <2>4. CASE ~pumping /\ Claim(s)
    <3>1. CASE DriveFails(s)
      BY <1>0, <2>1, <2>4, <3>1, EndStep DEF DriveFails
    <3>2. CASE /\ pumping' = TRUE /\ pc' = [pc EXCEPT ![s] = "bridge"]
               /\ UNCHANGED <<handlingBatch, idleWaiters>>
      BY <1>0, <2>1, <2>4, <3>2, ClaimStep
    <3> QED  BY <2>4, <3>1, <3>2 DEF Claim
  <2> QED  BY <1>13, <2>2, <2>3, <2>4 DEF SubmitResumes, DriveTaken
<1>14. ASSUME NEW s \in Submitters, SubmitBatchEnds(s) PROVE Kept
  <2>1. Driving(s)
    BY <1>14 DEF SubmitBatchEnds, Driving, DrivePCs
  <2>2. ~handlingBatch' /\ UNCHANGED awaiting /\ awaiting = NoTask /\ EndDrive(s)
    BY <1>14 DEF SubmitBatchEnds
  <2> QED  BY <1>0, <2>1, <2>2, EndStep
<1>15. CASE ClientTurn
  <2>1. UNCHANGED <<pumping, handlingBatch>>
    BY <1>15 DEF ClientTurn
  <2>2. \A u \in Tasks \ Clients : pc'[u] = pc[u]
    <3>1. CASE UNCHANGED pc
      BY <3>1
    <3>2. ASSUME NEW c \in Clients, WaitUntilIdle(c, "waiting", "idle") \/ pc' = [pc EXCEPT ![c] = "off"]
          PROVE  \A u \in Tasks \ Clients : pc'[u] = pc[u]
      BY <3>2 DEF WaitUntilIdle, PumpInv, TypeOK
    <3> QED  BY <1>15, <3>1, <3>2 DEF ClientTurn, ClientMoves
  <2>3. NestedNeverBlocked'
    <3>1. Skips \subseteq Tasks \ Clients
      BY DEF Submitters, Tasks
    <3>2. awaiting' = awaiting \/ awaiting' = NoTask \/ (handlingBatch /\ awaiting' \in Clients)
      BY <1>15 DEF ClientTurn, HandlerMoves
    <3> QED  BY <2>1, <2>2, <3>1, <3>2 DEF PumpInv, NestedNeverBlocked
  <2> DEFINE Rest == DriveExclusive' /\ BatchOwned' /\ NoLostWakeup'
  <2>4. CASE UNCHANGED <<pc, idleWaiters>>
    BY <2>1, <2>3, <2>4 DEF PumpInv, DriveExclusive, BatchOwned, NoLostWakeup, Driving
  <2>5. ASSUME NEW c \in Clients, pc[c] \in {"off", "idle"}
        PROVE  c \in Tasks /\ ~Driving(c) /\ pc[c] # "plain" /\ c \notin idleWaiters
    BY <1>0, <2>5 DEF Driving, DrivePCs, WaitPCs
  <2>6. ASSUME NEW c \in Clients, pc[c] \in {"off", "idle"}, WaitUntilIdle(c, "waiting", "idle")
        PROVE  Rest
    BY <2>1, <2>5, <2>6, WaitStep DEF WaitPCs, IdlePCs
  <2>7. ASSUME NEW c \in Clients, pc[c] = "idle", pc' = [pc EXCEPT ![c] = "off"],
               UNCHANGED idleWaiters
        PROVE  Rest
    BY <2>1, <2>5, <2>7, MoveStep
  <2> QED  BY <1>15, <2>3, <2>4, <2>6, <2>7 DEF ClientTurn, ClientMoves
<1> QED
  BY <1>1, <1>2, <1>3, <1>4, <1>5, <1>6, <1>7, <1>8, <1>9, <1>10, <1>11, <1>12,
     <1>13, <1>14, <1>15 DEF Next, CoordinatorTurn

LEMMA PumpInvariant == Spec => []PumpInv
<1>1. PumpInv /\ [Next]_vars => PumpInv'
  BY TypeStep, LockStep DEF PumpInv
<1> QED  BY <1>1, InitEstablishes, PTL DEF Spec

(* At most one task drives the bridge at any time, and #pumping says so, for
   any number of loops, responses, skips and clients and whatever the clients do
   to the coordinator's flags and timer. *)
THEOREM MutualExclusion == Spec => []DriveExclusive
<1>1. PumpInv => DriveExclusive
  BY DEF PumpInv
<1> QED  BY <1>1, PumpInvariant, PTL

(* A batch is handled only by the task that owns the drive. *)
THEOREM ProjectionOwned == Spec => []BatchOwned
<1>1. PumpInv => BatchOwned
  BY DEF PumpInv
<1> QED  BY <1>1, PumpInvariant, PTL

(* A task that waits for idleness always has a drive in flight that will wake
   it: no interleaving of turns loses a wakeup. *)
THEOREM WakeupNeverLost == Spec => []NoLostWakeup
<1>1. PumpInv => NoLostWakeup
  BY DEF PumpInv
<1> QED  BY <1>1, PumpInvariant, PTL

(* A batch handler never waits for its own batch to finish. *)
THEOREM HandlerNeverBlocked == Spec => []NestedNeverBlocked
<1>1. PumpInv => NestedNeverBlocked
  BY DEF PumpInv
<1> QED  BY <1>1, PumpInvariant, PTL

-----------------------------------------------------------------------------
(* Refinement of the lock.  With the invariant, a step is told from the values
   of #pumping before and after it, once no step hands a held drive over. *)

(* A task enters the drive only when it is free, and not by projecting. *)
LEMMA DriveEntry ==
  ASSUME PumpInv, [Next]_vars, NEW t \in Tasks, Driving(t)'
  PROVE  Driving(t) \/ (~pumping /\ pc'[t] # "batch")
<1> DEFINE Entry == Driving(t) \/ (~pumping /\ pc'[t] # "batch")
<1> SUFFICES Entry
  OBVIOUS
<1>0. pc'[t] \in DrivePCs /\ (pc'[t] = pc[t] => Driving(t))
  BY DEF Driving
<1> USE DEF DrivePCs
<1>1. ASSUME NEW u \in Tasks, NEW p \in {"off", "refused", "plain", "waiting", "respWaiting",
                                         "idle", "respIdle"},
             pc' = [pc EXCEPT ![u] = p]
      PROVE  Entry
  <2>1. pc'[t] = IF t = u THEN p ELSE pc[t]
    BY <1>1 DEF PumpInv, TypeOK
  <2> QED  BY <1>0, <2>1
<1>2. ASSUME NEW u \in Tasks, NEW p \in DrivePCs, Driving(u), pc' = [pc EXCEPT ![u] = p]
      PROVE  Entry
  <2>1. pc'[t] = IF t = u THEN p ELSE pc[t]
    BY <1>2 DEF PumpInv, TypeOK
  <2> QED  BY <1>0, <1>2, <2>1
<1>3. ASSUME NEW u \in Tasks, NEW p \in {"time", "bridge"}, ~pumping,
             pc' = [pc EXCEPT ![u] = p]
      PROVE  Entry
  <2>1. pc'[t] = IF t = u THEN p ELSE pc[t]
    BY <1>3 DEF PumpInv, TypeOK
  <2> QED  BY <1>0, <1>3, <2>1
<1>4. ASSUME NEW u \in Tasks, NEW w \in WaitPCs, NEW i \in IdlePCs, WaitUntilIdle(u, w, i)
      PROVE  Entry
  <2>1. PICK p \in WaitPCs \cup IdlePCs : pc' = [pc EXCEPT ![u] = p]
    BY <1>4 DEF WaitUntilIdle
  <2> QED  BY <1>1, <2>1 DEF WaitPCs, IdlePCs
<1>5. CASE UNCHANGED vars
  BY <1>0, <1>5 DEF vars
<1>6. CASE TimerFires
  <2>1. CASE UNCHANGED pc
    BY <1>0, <2>1
  <2>2. ASSUME NEW l \in Loops, ~pumping, pc' = [pc EXCEPT ![l] = "time"] PROVE Entry
    BY <1>3, <2>2 DEF Tasks
  <2> QED  BY <1>6, <2>1, <2>2 DEF TimerFires, PumpBlocked
<1>7. ASSUME NEW l \in Loops, TimeAdvanced(l) PROVE Entry
  BY <1>2, <1>7 DEF TimeAdvanced, Driving, Tasks
<1>8. ASSUME NEW l \in Loops, LoopBatchEnds(l) PROVE Entry
  <2>1. Driving(l) /\ l \in Tasks
    BY <1>8 DEF LoopBatchEnds, Driving, Tasks
  <2>2. pc' = [pc EXCEPT ![l] = "time"] \/ pc' = [pc EXCEPT ![l] = "off"]
    BY <1>8 DEF LoopBatchEnds, EndDrive
  <2> QED  BY <1>1, <1>2, <2>1, <2>2
<1>9. ASSUME NEW u \in Loops \cup Submitters, BatchArrives(u) PROVE Entry
  BY <1>2, <1>9 DEF BatchArrives, Driving, Tasks
<1>10. ASSUME NEW u \in Loops \cup Submitters, DriveThrows(u) PROVE Entry
  BY <1>1, <1>10 DEF DriveThrows, DriveFails, EndDrive, Tasks
<1>11. ASSUME NEW s \in Skips, PlainAck(s) PROVE Entry
  BY <1>1, <1>11 DEF PlainAck, Tasks, Submitters
<1>12. ASSUME NEW s \in Skips, NEW nested \in BOOLEAN, StartSkip(s, nested) PROVE Entry
  <2>1. pc' = [pc EXCEPT ![s] = "plain"] \/ WaitUntilIdle(s, "waiting", "idle")
    BY <1>12 DEF StartSkip, EnterSubmit
  <2> QED  BY <1>1, <1>4, <2>1 DEF Tasks, Submitters, WaitPCs, IdlePCs
<1>13. ASSUME NEW u \in Tasks, WaiterWakes(u) PROVE Entry
  BY <1>4, <1>13 DEF WaiterWakes, WaitPCs, IdlePCs
<1>14. ASSUME NEW r \in Responses, Respond(r) PROVE Entry
  BY <1>4, <1>14 DEF Respond, WaitPCs, IdlePCs, Tasks, Submitters
<1>15. ASSUME NEW r \in Responses, ResponseResumes(r) PROVE Entry
  <2>1. \/ pc' = [pc EXCEPT ![r] = "off"] \/ pc' = [pc EXCEPT ![r] = "refused"]
        \/ WaitUntilIdle(r, "waiting", "idle")
    BY <1>15 DEF ResponseResumes, EnterSubmit
  <2> QED  BY <1>1, <1>4, <2>1 DEF Tasks, Submitters, WaitPCs, IdlePCs
<1>16. ASSUME NEW r \in Responses, ResponseRefused(r) PROVE Entry
  <2>1. \/ pc' = [pc EXCEPT ![r] = "off"]
        \/ WaitUntilIdle(r, "respWaiting", "respIdle")
    BY <1>16 DEF ResponseRefused
  <2> QED  BY <1>1, <1>4, <2>1 DEF Tasks, Submitters, WaitPCs, IdlePCs
<1>17. ASSUME NEW s \in Submitters, SubmitResumes(s) PROVE Entry
  <2>1. \/ pc' = [pc EXCEPT ![s] = "plain"] \/ pc' = [pc EXCEPT ![s] = "refused"]
        \/ pc' = [pc EXCEPT ![s] = "off"]
        \/ WaitUntilIdle(s, "waiting", "idle")
        \/ (~pumping /\ pc' = [pc EXCEPT ![s] = "bridge"])
    BY <1>17 DEF SubmitResumes, DriveTaken, Claim, DriveFails, EndDrive
  <2> QED  BY <1>1, <1>3, <1>4, <2>1 DEF Tasks, WaitPCs, IdlePCs
<1>18. ASSUME NEW s \in Submitters, SubmitBatchEnds(s) PROVE Entry
  BY <1>1, <1>18 DEF SubmitBatchEnds, EndDrive, Tasks
<1>19. CASE ClientTurn
  <2>1. \/ UNCHANGED pc
        \/ \E c \in Clients : WaitUntilIdle(c, "waiting", "idle") \/ pc' = [pc EXCEPT ![c] = "off"]
    BY <1>19 DEF ClientTurn, ClientMoves
  <2> QED  BY <1>0, <1>1, <1>4, <2>1 DEF Tasks, WaitPCs, IdlePCs
<1> QED
  BY <1>5, <1>6, <1>7, <1>8, <1>9, <1>10, <1>11, <1>12, <1>13, <1>14, <1>15, <1>16,
     <1>17, <1>18, <1>19 DEF Next, CoordinatorTurn

(* The holder is the task in the drive, and nobody when there is none. *)
HolderDrives ==
  /\ ~pumping => Holder = NoTask /\ ~handlingBatch
  /\ \A t \in Tasks : Driving(t) => pumping /\ Holder = t

LEMMA HolderKnown == PumpInv => HolderDrives
<1> SUFFICES ASSUME PumpInv PROVE HolderDrives
  OBVIOUS
<1>1. ~pumping => Holder = NoTask /\ ~handlingBatch
  BY DEF PumpInv, DriveExclusive, BatchOwned, Driving, DrivePCs, Holder
<1>2. ASSUME NEW t \in Tasks, Driving(t) PROVE pumping /\ Holder = t
  <2>1. pumping /\ \A u \in Tasks : Driving(u) => u = t
    BY <1>2 DEF PumpInv, DriveExclusive
  <2> QED  BY <1>2, <2>1 DEF Holder
<1> QED  BY <1>1, <1>2 DEF HolderDrives

LEMMA LockRefines ==
  ASSUME PumpInv, PumpInv', HolderDrives, HolderDrives', [Next]_vars
  PROVE  [Lock!Next]_(Lock!lockVars)
<1>1. /\ ~pumping => Holder = NoTask /\ ~handlingBatch
      /\ \A t \in Tasks : Driving(t) => pumping /\ Holder = t
  BY DEF HolderDrives
<1>2. /\ ~pumping' => Holder' = NoTask /\ ~handlingBatch'
      /\ \A t \in Tasks : Driving(t)' => pumping' /\ Holder' = t
  BY DEF HolderDrives
<1>3. handlingBatch \in BOOLEAN /\ handlingBatch' \in BOOLEAN
  BY DEF PumpInv, TypeOK
<1>4. (pumping <=> \E t \in Tasks : Driving(t)) /\ (pumping' <=> \E t \in Tasks : Driving(t)')
  BY DEF PumpInv, DriveExclusive
<1>5. CASE ~pumping /\ ~pumping'
  BY <1>1, <1>2, <1>3, <1>5 DEF Lock!lockVars
<1>6. CASE ~pumping /\ pumping'
  <2>1. PICK t \in Tasks : Driving(t)'
    BY <1>4, <1>6
  <2>2. pc'[t] # "batch" /\ Holder' = t /\ \A u \in Tasks : Driving(u)' => u = t
    BY <1>1, <1>2, <1>4, <1>6, <2>1, DriveEntry DEF PumpInv, DriveExclusive
  <2>3. ~handlingBatch'
    BY <2>2 DEF PumpInv, BatchOwned, Driving, DrivePCs
  <2> QED  BY <1>1, <1>3, <1>6, <2>2, <2>3 DEF Lock!Next, Lock!Acquire
<1>7. CASE pumping /\ ~pumping'
  <2>1. Holder \in Tasks
    BY <1>1, <1>4, <1>7
  <2> QED  BY <1>2, <1>3, <1>7, <2>1 DEF Lock!Next, Lock!GiveUp, Tasks
<1>8. CASE pumping /\ pumping'
  <2>1. PICK t \in Tasks : Driving(t)'
    BY <1>4, <1>8
  <2>2. Driving(t)
    BY <1>8, <2>1, DriveEntry
  <2>3. Holder = t /\ Holder' = t /\ t # NoTask
    BY <1>1, <1>2, <2>1, <2>2
  <2>4. CASE handlingBatch' = handlingBatch
    BY <2>3, <2>4 DEF Lock!lockVars
  <2>5. CASE ~handlingBatch /\ handlingBatch'
    BY <1>3, <2>3, <2>5 DEF Lock!Next, Lock!Project
  <2>6. CASE handlingBatch /\ ~handlingBatch'
    BY <1>3, <2>3, <2>6 DEF Lock!Next, Lock!Projected
  <2> QED  BY <1>3, <2>4, <2>5, <2>6
<1> QED  BY <1>5, <1>6, <1>7, <1>8

(* The coordinator implements the lock: whatever its tasks and clients do, an
   observer of the holder and of the projection sees only acquisitions,
   projections and releases. *)
THEOREM Refinement == Spec => ImplementsLock
<1>1. Init => Lock!Init
  BY DEF Init, Lock!Init, Holder
<1>2. PumpInv /\ PumpInv' /\ HolderDrives /\ HolderDrives' /\ [Next]_vars
        => [Lock!Next]_(Lock!lockVars)
  BY LockRefines
<1> QED
  BY <1>1, <1>2, HolderKnown, PumpInvariant, PTL DEF Spec, ImplementsLock, Lock!Spec

-----------------------------------------------------------------------------
(* The operations. *)

USE TasksAssumption

Barriers == {"barrier", "relock"}

\* An operation is a waiter of the coordinator exactly at its barriers.
Suspended == \A o \in Clients : (pc[o] # "off") <=> (phase[o] \in Barriers)

\* Only an open has no lock yet and is under way.
OpensFirst == \A o \in Clients : phase[o] \in {"picking", "ensuring"} => kind[o] = "open"

\* Every dispute is remembered for as long as the lock is held.
Remembered == (Dispute => disputed) /\ (disputed => Held)

\* Without one the holder is alone ...
HolderAlone ==
  ~disputed => \A o, p \in Clients : phase[o] \in Locked /\ phase[p] \in Locked => o = p

\* ... and found the drive idle, once it does not wait any more.
IdleUnderLock ==
  ~disputed => \A o \in Clients : phase[o] \in Locked /\ pc[o] # "waiting" => ~pumping

Operations == Suspended /\ OpensFirst /\ LockOwned /\ Remembered /\ HolderAlone
              /\ IdleUnderLock /\ LeasesRetired

SessionInv == PumpInv /\ TypeInv /\ Operations

-----------------------------------------------------------------------------
(* What a turn of the coordinator may do to an operation. *)

\* The lock is not touched, a locked pump is not claimed, and a waiting
\* operation waits on or finds the drive idle.
Respects ==
  /\ transitioning' = transitioning
  /\ pumping' => pumping \/ ~transitioning
  /\ live' \subseteq live
  /\ \A c \in Clients :
       \/ pc'[c] = pc[c]
       \/ pc[c] = "waiting" /\ pc'[c] \in {"waiting", "idle"}
          /\ (pc'[c] = "idle" => ~pumping')

LEMMA CoordinatorRespects ==
  ASSUME TypeOK, CoordinatorTurn
  PROVE  Respects
<1>0. Clients \cap (Loops \cup Submitters) = {}
  BY DEF Submitters
<1>1. ASSUME NEW t \in Tasks \ Clients, NEW p,
             pc' = [pc EXCEPT ![t] = p],
             transitioning' = transitioning,
             pumping' => pumping \/ ~transitioning,
             live' \subseteq live
      PROVE  Respects
  <2>1. \A c \in Clients : pc'[c] = pc[c]
    BY <1>1 DEF TypeOK, Tasks
  <2> QED  BY <1>1, <2>1 DEF Respects
<1>2. ASSUME NEW t \in Tasks \ Clients, NEW w, NEW i,
             WaitUntilIdle(t, w, i),
             transitioning' = transitioning, pumping' = pumping, live' \subseteq live
      PROVE  Respects
  BY <1>1, <1>2 DEF WaitUntilIdle
<1>3. CASE TimerFires
  <2>1. CASE UNCHANGED <<pumping, pc>>
    BY <1>3, <2>1 DEF TimerFires, Respects
  <2>2. ASSUME NEW l \in Loops, ~PumpBlocked, pc' = [pc EXCEPT ![l] = "time"] PROVE Respects
    BY <1>0, <1>1, <1>3, <2>2 DEF TimerFires, PumpBlocked, Tasks
  <2> QED  BY <1>3, <2>1, <2>2 DEF TimerFires
<1>4. ASSUME NEW l \in Loops, TimeAdvanced(l) PROVE Respects
  BY <1>0, <1>1, <1>4 DEF TimeAdvanced, Tasks
<1>5. ASSUME NEW l \in Loops, LoopBatchEnds(l) PROVE Respects
  <2>1. PICK p \in {"time", "off"} : pc' = [pc EXCEPT ![l] = p]
    BY <1>5 DEF LoopBatchEnds, EndDrive
  <2>2. /\ transitioning' = transitioning /\ live' = live
        /\ pumping' => pumping
    BY <1>5 DEF LoopBatchEnds, EndDrive
  <2> QED  BY <1>0, <1>1, <2>1, <2>2 DEF Tasks
<1>6. ASSUME NEW t \in Loops \cup Submitters, BatchArrives(t) PROVE Respects
  BY <1>0, <1>1, <1>6 DEF BatchArrives, Tasks
<1>7. ASSUME NEW t \in Loops \cup Submitters, DriveThrows(t) PROVE Respects
  BY <1>0, <1>1, <1>7 DEF DriveThrows, DriveFails, EndDrive, Tasks
<1>8. ASSUME NEW s \in Skips, PlainAck(s) PROVE Respects
  BY <1>0, <1>1, <1>8 DEF PlainAck, Tasks, Submitters
<1>9. ASSUME NEW s \in Skips, NEW nested \in BOOLEAN, StartSkip(s, nested) PROVE Respects
  <2>1. pc' = [pc EXCEPT ![s] = "plain"] \/ WaitUntilIdle(s, "waiting", "idle")
    BY <1>9 DEF StartSkip, EnterSubmit
  <2>2. transitioning' = transitioning /\ pumping' = pumping /\ live' = live
    BY <1>9 DEF StartSkip
  <2> QED  BY <1>0, <1>1, <1>2, <2>1, <2>2 DEF Tasks, Submitters
<1>10. ASSUME NEW t \in Tasks, WaiterWakes(t) PROVE Respects
  <2>1. transitioning' = transitioning /\ pumping' = pumping /\ live' = live
    BY <1>10 DEF WaiterWakes
  <2>2. CASE t \in Clients
    <3>1. pc[t] = "waiting"
      BY <1>10, <2>2 DEF WaiterWakes, TypeOK, WaitPCs
    <3>2. WaitUntilIdle(t, "waiting", "idle")
      BY <1>10, <3>1 DEF WaiterWakes
    <3>3. PICK p \in {"waiting", "idle"} :
            pc' = [pc EXCEPT ![t] = p] /\ (p = "idle" => ~pumping)
      BY <3>2 DEF WaitUntilIdle, Busy
    <3>4. \A c \in Clients : pc'[c] = IF c = t THEN p ELSE pc[c]
      BY <3>3 DEF TypeOK, Tasks
    <3> QED  BY <2>1, <3>1, <3>3, <3>4 DEF Respects
  <2>3. CASE t \notin Clients
    <3>1. PICK w, i \in WaitPCs \cup IdlePCs : WaitUntilIdle(t, w, i)
      BY <1>10 DEF WaiterWakes, WaitPCs, IdlePCs
    <3> QED  BY <1>2, <2>1, <2>3, <3>1
  <2> QED  BY <2>2, <2>3
<1>11. ASSUME NEW r \in Responses, Respond(r) PROVE Respects
  BY <1>0, <1>2, <1>11 DEF Respond, Tasks, Submitters
<1>12. ASSUME NEW r \in Responses, ResponseResumes(r) PROVE Respects
  <2>1. \/ pc' = [pc EXCEPT ![r] = "off"] \/ pc' = [pc EXCEPT ![r] = "refused"]
        \/ WaitUntilIdle(r, "waiting", "idle")
    BY <1>12 DEF ResponseResumes, EnterSubmit
  <2>2. transitioning' = transitioning /\ pumping' = pumping /\ live' = live
    BY <1>12 DEF ResponseResumes
  <2> QED  BY <1>0, <1>1, <1>2, <2>1, <2>2 DEF Tasks, Submitters
<1>13. ASSUME NEW r \in Responses, ResponseRefused(r) PROVE Respects
  <2>1. \/ pc' = [pc EXCEPT ![r] = "off"]
        \/ WaitUntilIdle(r, "respWaiting", "respIdle")
    BY <1>13 DEF ResponseRefused
  <2>2. transitioning' = transitioning /\ pumping' = pumping /\ live' \subseteq live
    BY <1>13 DEF ResponseRefused
  <2> QED  BY <1>0, <1>1, <1>2, <2>1, <2>2 DEF Tasks, Submitters
<1>14. ASSUME NEW s \in Submitters, SubmitResumes(s) PROVE Respects
  <2>1. \/ pc' = [pc EXCEPT ![s] = "plain"] \/ pc' = [pc EXCEPT ![s] = "refused"]
        \/ pc' = [pc EXCEPT ![s] = "off"]
        \/ WaitUntilIdle(s, "waiting", "idle")
        \/ pc' = [pc EXCEPT ![s] = "bridge"]
    BY <1>14 DEF SubmitResumes, Claim, DriveFails, EndDrive
  <2>2. transitioning' = transitioning
    BY <1>14 DEF SubmitResumes
  <2>3. (pumping' => pumping \/ ~transitioning) /\ live' \subseteq live
    BY <1>14 DEF SubmitResumes, Claim, DriveFails, EndDrive
  <2>4. WaitUntilIdle(s, "waiting", "idle") /\ pumping' # pumping => Respects
    BY <1>0, <1>1, <2>2, <2>3 DEF WaitUntilIdle, Tasks
  <2> QED  BY <1>0, <1>1, <1>2, <2>1, <2>2, <2>3, <2>4 DEF Tasks
<1>15. ASSUME NEW s \in Submitters, SubmitBatchEnds(s) PROVE Respects
  BY <1>0, <1>1, <1>15 DEF SubmitBatchEnds, EndDrive, Tasks
<1> QED
  BY <1>3, <1>4, <1>5, <1>6, <1>7, <1>8, <1>9, <1>10, <1>11, <1>12, <1>13, <1>14, <1>15
  DEF CoordinatorTurn

-----------------------------------------------------------------------------
(* What a step of one operation must do to keep the invariant. *)

\* Only o moves, from phase to phase x as kind k.
Moves(o, x, k) ==
  /\ phase'[o] = x /\ kind'[o] = k
  /\ \A p \in Clients \ {o} :
       phase'[p] = phase[p] /\ kind'[p] = kind[p] /\ pc'[p] = pc[p]
  /\ pumping' = pumping

(* An operation that enters the lock raises the flag, and either saw it down or
   is an open; one that works on leaves it; one that leaves lowers it. *)
LEMMA OperationStep ==
  ASSUME SessionInv, Recorded, NEW o \in Clients, NEW x \in Phases, NEW k, Moves(o, x, k),
         x \in Locked => transitioning' \/ (phase[o] \in Locked /\ transitioning' = transitioning),
         x \notin Locked => (transitioning' <=> (transitioning /\ phase[o] \notin Locked)),
         x \in Locked /\ phase[o] \notin Locked => k \in Opening \/ ~transitioning,
         x \in {"picking", "ensuring"} => k = "open",
         (pc'[o] # "off") <=> (x \in Barriers),
         x \in Locked /\ pc'[o] # "waiting" => ~pumping \/ (phase[o] \in Locked /\ pc[o] # "waiting"),
         live' \subseteq live, x = "creating" => live' = {}
  PROVE  Operations'
<1> USE DEF Moves
<1>1. Suspended'
  BY DEF Suspended, SessionInv, Operations
<1>2. OpensFirst'
  BY DEF OpensFirst, SessionInv, Operations
<1>3. disputed' <=> Held' /\ (disputed \/ Dispute')
  BY DEF Recorded, SessionInv, TypeInv
<1>4. Dispute' => Held'
  BY DEF Dispute, Held
<1>5. Remembered'
  BY <1>3, <1>4 DEF Remembered
<1>6. \A p \in Clients : phase'[p] \in Locked => Held'
  BY DEF Held
<1>7. \A p \in Clients : phase[p] \in Locked => Held
  BY DEF Held
<1>8. HolderAlone'
  <2> SUFFICES ASSUME ~disputed', NEW p \in Clients, p # o,
                      phase'[o] \in Locked, phase'[p] \in Locked
               PROVE  FALSE
    <3>1. ASSUME ~disputed', NEW p \in Clients, NEW q \in Clients, p # o, q # o,
                 phase'[p] \in Locked, phase'[q] \in Locked
          PROVE  p = q
      BY <1>3, <1>6, <3>1 DEF SessionInv, Operations, HolderAlone
    <3> QED  BY <3>1 DEF HolderAlone
  <2>1. ~disputed /\ ~Dispute' /\ phase[p] \in Locked
    BY <1>3, <1>6
  <2>2. transitioning
    BY <1>7, <2>1 DEF SessionInv, Operations, LockOwned
  <2>3. CASE phase[o] \in Locked
    BY <2>1, <2>3 DEF SessionInv, Operations, HolderAlone
  <2>4. CASE phase[o] \notin Locked
    BY <2>1, <2>2, <2>4 DEF Dispute
  <2> QED  BY <2>3, <2>4
<1>9. LockOwned'
  <2>1. ASSUME transitioning' PROVE Held'
    <3>1. CASE x \in Locked
      BY <1>6, <3>1
    <3>2. CASE x \notin Locked
      <4>1. PICK p \in Clients : phase[p] \in Locked
        BY <2>1, <3>2 DEF SessionInv, Operations, LockOwned, Held
      <4> QED  BY <1>6, <2>1, <3>2, <4>1
    <3> QED  BY <3>1, <3>2
  <2>2. ASSUME Held', ~disputed' PROVE transitioning'
    <3>0. ~disputed
      BY <1>3, <2>2
    <3>1. CASE x \in Locked
      BY <1>7, <3>0, <3>1 DEF SessionInv, Operations, LockOwned
    <3>2. CASE x \notin Locked
      <4>1. PICK p \in Clients : phase'[p] \in Locked
        BY <2>2 DEF Held
      <4>2. phase[p] \in Locked /\ p # o
        BY <3>2, <4>1
      <4>3. transitioning /\ phase[o] \notin Locked
        BY <1>7, <3>0, <4>2 DEF SessionInv, Operations, LockOwned, HolderAlone
      <4> QED  BY <3>2, <4>3
    <3> QED  BY <3>1, <3>2
  <2> QED  BY <2>1, <2>2 DEF LockOwned
<1>10. IdleUnderLock'
  <2> SUFFICES ASSUME ~disputed', NEW p \in Clients, phase'[p] \in Locked, pc'[p] # "waiting"
               PROVE  ~pumping'
    BY DEF IdleUnderLock
  <2>1. ~disputed
    BY <1>3, <1>6
  <2> QED  BY <2>1 DEF SessionInv, Operations, IdleUnderLock
<1>11. LeasesRetired'
  <2> SUFFICES ASSUME ~disputed', NEW p \in Clients, phase'[p] = "creating" PROVE live' = {}
    BY DEF LeasesRetired
  <2>1. ~disputed
    BY <1>3, <1>6 DEF Locked, Working
  <2> QED  BY <2>1 DEF SessionInv, Operations, LeasesRetired
<1> QED  BY <1>1, <1>2, <1>5, <1>8, <1>9, <1>10, <1>11 DEF Operations

\* A step in which no operation moves and no lease is granted, a turn of the
\* coordinator included: the preparation may go on beside it.
LEMMA OtherStep ==
  ASSUME SessionInv, UNCHANGED <<phase, kind>>, Respects,
         Recorded \/ UNCHANGED <<preparation, disputed>>
  PROVE  Operations'
<1>0. Held' <=> Held
  BY DEF Held
<1>1. Suspended' /\ OpensFirst'
  BY DEF Suspended, OpensFirst, SessionInv, Operations, Respects
<1>2. /\ Remembered'
      /\ disputed' \/ ~disputed \/ ~Held
  <2>1. CASE UNCHANGED <<preparation, disputed>>
    <3>1. Dispute' <=> Dispute
      BY <1>0, <2>1 DEF Dispute
    <3> QED  BY <1>0, <2>1, <3>1 DEF SessionInv, TypeInv, Operations, Remembered
  <2>2. CASE Recorded
    BY <1>0, <2>2 DEF Recorded, Remembered, Dispute, Held
  <2> QED  BY <2>1, <2>2
<1>3. ASSUME NEW c \in Clients, phase[c] \in Locked PROVE Held
  BY <1>3 DEF Held
<1>4. LockOwned' /\ HolderAlone' /\ LeasesRetired'
  <2>1. LockOwned' /\ HolderAlone'
    BY <1>0, <1>2, <1>3 DEF LockOwned, HolderAlone, SessionInv, Operations, Respects
  <2>2. LeasesRetired'
    BY <1>2, <1>3 DEF LeasesRetired, SessionInv, Operations, Respects, Locked, Working
  <2> QED  BY <2>1, <2>2
<1>5. IdleUnderLock'
  <2> SUFFICES ASSUME ~disputed', NEW c \in Clients, phase[c] \in Locked, pc'[c] # "waiting"
               PROVE  ~pumping'
    BY DEF IdleUnderLock
  <2>1. ~disputed /\ transitioning
    BY <1>2, <1>3 DEF SessionInv, Operations, LockOwned
  <2>2. CASE pc'[c] = pc[c]
    BY <2>1, <2>2 DEF SessionInv, Operations, IdleUnderLock, Respects
  <2>3. CASE pc'[c] # pc[c]
    BY <2>3 DEF Respects
  <2> QED  BY <2>2, <2>3
<1> QED  BY <1>1, <1>2, <1>4, <1>5 DEF Operations

(* The lock an operation takes: it waits, or the drive is idle. *)
LEMMA LockTaken ==
  ASSUME TypeOK, NEW o \in Clients, WaitUntilIdle(o, "waiting", "idle")
  PROVE  /\ pc'[o] \in {"waiting", "idle"} /\ (pc'[o] = "idle" => ~pumping)
         /\ \A p \in Clients \ {o} : pc'[p] = pc[p]
BY DEF TypeOK, WaitUntilIdle, Busy, Tasks

-----------------------------------------------------------------------------
(* The steps, one by one. *)

(* An operation starts: a title, reload or restart finds the flag down and takes the
   lock; an open only shows its picker. *)
LEMMA StartStep ==
  ASSUME SessionInv, NEW o \in Clients, Start(o)
  PROVE  Operations' /\ [Next]_vars
<1>0. /\ o \in Tasks /\ phase \in [Clients -> Phases]
      /\ kind \in [Clients -> Kinds \cup {"recover", "none"}] /\ TypeOK
      /\ ready \in BOOLEAN /\ transitioning \in BOOLEAN
      /\ Barriers \subseteq Locked /\ Locked \subseteq Phases /\ "off" \notin Locked
  BY DEF Tasks, SessionInv, TypeInv, TypeOK, Barriers, Locked, Working, Phases
<1>a. Recorded
  BY DEF Start
<1>1. ASSUME MayStart(o), ~transitioning, transitioning' = TRUE, NEW k \in {"title", "reload", "restart"},
             kind' = [kind EXCEPT ![o] = k], GoTo(o, "barrier"),
             WaitUntilIdle(o, "waiting", "idle"),
             timer' \in {timer, "none"}, HandlerMoves,
             UNCHANGED <<coordinator, ready, live>>
      PROVE  Operations' /\ [Next]_vars
  <2>1. phase[o] = "off"
    BY <1>1 DEF MayStart
  <2>2. /\ pc'[o] \in {"waiting", "idle"} /\ (pc'[o] = "idle" => ~pumping)
        /\ \A p \in Clients \ {o} : pc'[p] = pc[p]
    BY <1>0, <1>1, LockTaken
  <2>3. Moves(o, "barrier", k)
    BY <1>0, <1>1, <2>2 DEF Moves, GoTo, coordinator
  <2>4. "barrier" \in Phases /\ "barrier" \in Locked /\ "barrier" \in Barriers
    BY DEF Phases, Locked, Barriers
  <2>5. Operations'
    BY <1>a, <1>1, <2>1, <2>2, <2>3, <2>4, OperationStep
  <2>6. pc[o] = "off"
    BY <1>0, <2>1 DEF SessionInv, Operations, Suspended, Barriers
  <2>7. ClientMoves
    BY <1>1, <2>6 DEF ClientMoves
  <2>8. ClientTurn
    BY <1>0, <1>1, <2>7 DEF ClientTurn, coordinator
  <2> QED  BY <2>5, <2>8 DEF Next
<1>2. CASE StartTitle(o)
  BY <1>1, <1>2 DEF StartTitle, LockAndWait, HandlerMoves
<1>3. CASE StartReload(o)
  BY <1>1, <1>3 DEF StartReload, HandlerMoves
<1>4. ASSUME NEW nested \in BOOLEAN, StartRestart(o, nested)
      PROVE  Operations' /\ [Next]_vars
  <2>1. HandlerMoves
    BY <1>4 DEF StartRestart, HandlerMoves
  <2> QED  BY <1>1, <1>4, <2>1 DEF StartRestart, LockAndWait
<1>5. CASE StartOpen(o)
  <2>1. MayStart(o) /\ UNCHANGED vars
        /\ phase' = [phase EXCEPT ![o] = "picking"] /\ kind' = [kind EXCEPT ![o] = "open"]
    BY <1>5 DEF StartOpen, GoTo
  <2>2. phase[o] = "off" /\ phase[o] \notin Locked
    BY <1>0, <2>1 DEF MayStart
  <2>3. Moves(o, "picking", "open") /\ pc'[o] = pc[o]
        /\ transitioning' = transitioning /\ live' = live
    BY <1>0, <2>1 DEF Moves, vars
  <2>4. pc[o] = "off"
    BY <1>0, <2>2 DEF SessionInv, Operations, Suspended, Barriers
  <2>5. "picking" \in Phases /\ "picking" \notin Locked /\ "picking" \notin Barriers
    BY DEF Phases, Locked, Working, Barriers
  <2>6. Operations'
    BY <1>a, <2>1, <2>2, <2>3, <2>4, <2>5, OperationStep
  <2> QED  BY <2>1, <2>6
<1> QED  BY <1>2, <1>3, <1>4, <1>5 DEF Start

(* An operation takes the lock, anew or again: one that takes it anew is an open. *)
LEMMA TakesLock ==
  ASSUME SessionInv, Recorded, NEW o \in Clients, phase[o] # "off", phase[o] \notin Barriers,
         NEW x \in Barriers, LockAndWait(o, x),
         NEW k, phase[o] \in {"picking", "ensuring"} => k = "open",
         kind' = [kind EXCEPT ![o] = k],
         ready' \in BOOLEAN, live' = live, awaiting' = awaiting, UNCHANGED coordinator
  PROVE  Operations' /\ [Next]_vars
<1>0. /\ o \in Tasks /\ phase \in [Clients -> Phases]
      /\ kind \in [Clients -> Kinds \cup {"recover", "none"}] /\ TypeOK
      /\ transitioning \in BOOLEAN /\ live \in SUBSET Responses
  BY DEF Tasks, SessionInv, TypeInv, TypeOK
<1>1. /\ pc'[o] \in {"waiting", "idle"} /\ (pc'[o] = "idle" => ~pumping)
      /\ \A p \in Clients \ {o} : pc'[p] = pc[p]
  BY <1>0, LockTaken DEF LockAndWait
<1>2. Moves(o, x, k) /\ transitioning' = TRUE /\ timer' = "none"
  BY <1>0, <1>1 DEF Moves, LockAndWait, GoTo, coordinator
<1>3. x \in Locked /\ x \in Phases /\ x \notin {"picking", "ensuring", "creating", "off"}
  BY DEF Locked, Phases, Barriers
<1>4. phase[o] \notin Locked => k \in Opening
  BY <1>0 DEF Phases, Opening
<1>5. Operations'
  BY <1>1, <1>2, <1>3, <1>4, OperationStep
<1>6. pc[o] = "off"
  BY DEF SessionInv, Operations, Suspended
<1>7. ClientMoves
  BY <1>6 DEF ClientMoves, LockAndWait
<1>8. ClientTurn
  BY <1>0, <1>2, <1>7 DEF ClientTurn, HandlerMoves, coordinator
<1> QED  BY <1>5, <1>8 DEF Next

(* An operation ends and gives the lock back, or works on under it. *)
LEMMA WorksOn ==
  ASSUME SessionInv, Recorded, NEW o \in Clients, phase[o] \in Working,
         NEW x \in Working \cup {"off"}, NEW k, Moves(o, x, k),
         x # "off" => UNCHANGED <<transitioning, timer>>,
         x = "off" => transitioning' = FALSE /\ (timer' = timer \/ (ready' /\ timer' = "now")),
         ready' \in BOOLEAN, live' \subseteq live, x = "creating" => live' = {},
         HandlerMoves, UNCHANGED <<coordinator, pc, idleWaiters>>
  PROVE  Operations' /\ [Next]_vars
<1>0. transitioning \in BOOLEAN /\ live \in SUBSET Responses
  BY DEF SessionInv, TypeInv, TypeOK
<1>1. phase[o] \in Locked /\ phase[o] \notin Barriers /\ phase[o] # "off"
  BY DEF Working, Locked, Barriers
<1>2. pc[o] = "off" /\ pc'[o] = "off"
  BY <1>1 DEF SessionInv, Operations, Suspended
<1>3. /\ x \in Phases /\ x \notin Barriers /\ x \notin {"picking", "ensuring"}
      /\ (x \in Locked <=> x # "off")
  BY DEF Phases, Locked, Working, Barriers
<1>4. Operations'
  BY <1>0, <1>1, <1>2, <1>3, OperationStep
<1>5. live' \in SUBSET (live \cup {r \in Responses : pc[r] = "off"})
  OBVIOUS
<1>6. timer' \in {timer, "none"} \cup (IF ready' /\ ~transitioning' THEN Delays ELSE {})
  BY DEF Delays
<1>7. transitioning' \in BOOLEAN
  BY <1>0
<1>8. ClientTurn
  BY <1>5, <1>6, <1>7 DEF ClientTurn, ClientMoves, coordinator
<1> QED  BY <1>4, <1>8 DEF Next

(* A step of an operation under way: it works on, ends, or takes the lock. *)
LEMMA AdvanceStep ==
  ASSUME SessionInv, NEW o \in Clients, Advance(o)
  PROVE  Operations' /\ [Next]_vars
<1> DEFINE Kept == Operations' /\ [Next]_vars
<1> SUFFICES Kept
  OBVIOUS
<1>0. /\ o \in Tasks /\ phase \in [Clients -> Phases]
      /\ kind \in [Clients -> Kinds \cup {"recover", "none"}] /\ TypeOK
      /\ ready \in BOOLEAN /\ transitioning \in BOOLEAN
      /\ timer \in Delays \cup {"none"} /\ live \in SUBSET Responses
      /\ Barriers \subseteq Locked /\ Locked \subseteq Phases
  BY DEF Tasks, SessionInv, TypeInv, TypeOK, Barriers, Locked, Working, Phases
<1>a. Recorded
  BY DEF Advance
<1>b. phase[o] \notin Barriers => pc[o] = "off"
  BY DEF SessionInv, Operations, Suspended
<1>c. phase[o] \in {"picking", "ensuring"} => kind[o] = "open"
  BY DEF SessionInv, Operations, OpensFirst
<1>d. Finished(o) => HandlerMoves
  BY DEF Finished, HandlerMoves
<1>e. awaiting' = awaiting => HandlerMoves
  BY DEF HandlerMoves
\* It works on, or ends.
<1>1. ASSUME NEW x \in Working, phase[o] \in Working, GoTo(o, x),
             UNCHANGED <<coordinator, kind, transitioning, timer, pc, idleWaiters, awaiting>>,
             ready' \in BOOLEAN, live' \subseteq live, x = "creating" => live' = {}
      PROVE  Kept
  <2>1. Moves(o, x, kind[o]) /\ x # "off"
    BY <1>0, <1>1 DEF Moves, GoTo, coordinator, Working
  <2> QED  BY <1>a, <1>e, <1>1, <2>1, WorksOn
<1>2. ASSUME phase[o] \in Working, Release(o), ready' \in BOOLEAN, live' \subseteq live,
             HandlerMoves, UNCHANGED <<coordinator, pc, idleWaiters>>
      PROVE  Kept
  <2>1. Moves(o, "off", "none")
    BY <1>0, <1>2 DEF Moves, Release, End, GoTo, coordinator
  <2>2. transitioning' = FALSE /\ (timer' = timer \/ (ready' /\ timer' = "now"))
    BY <1>2 DEF Release
  <2> QED  BY <1>a, <1>2, <2>1, <2>2, WorksOn
\* It takes the lock, as the kind it is.
<1>3. ASSUME phase[o] # "off", phase[o] \notin Barriers, NEW x \in Barriers, LockAndWait(o, x),
             UNCHANGED <<coordinator, kind, live, awaiting, ready>>
      PROVE  Kept
  <2>1. kind' = [kind EXCEPT ![o] = kind[o]]
    BY <1>0, <1>3
  <2> QED  BY <1>0, <1>a, <1>c, <1>3, <2>1, TakesLock
<1>4. CASE Dismissed(o)
  <2>1. phase[o] = "picking" /\ End(o) /\ UNCHANGED vars
    BY <1>4 DEF Dismissed
  <2>2. Moves(o, "off", "none") /\ pc'[o] = "off" /\ transitioning' = transitioning
        /\ live' = live
    BY <1>0, <1>b, <2>1 DEF Moves, End, GoTo, vars, Barriers
  <2>3. /\ "off" \in Phases /\ "off" \notin Locked /\ "off" \notin Barriers
        /\ "picking" \notin Locked
    BY DEF Phases, Locked, Working, Barriers
  <2>4. Operations'
    BY <1>a, <2>1, <2>2, <2>3, OperationStep
  <2> QED  BY <2>1, <2>4
<1>5. CASE Picked(o)
  <2>1. /\ phase[o] = "picking" /\ phase[o] \notin Barriers /\ phase[o] \notin Locked
        /\ UNCHANGED <<coordinator, ready, live, awaiting, kind>>
    BY <1>5 DEF Picked, Barriers, Locked, Working
  <2>2. CASE GoTo(o, "ensuring") /\ UNCHANGED <<transitioning, timer, pc, idleWaiters>>
    <3>1. Moves(o, "ensuring", "open") /\ pc'[o] = "off"
      BY <1>0, <1>b, <1>c, <2>1, <2>2 DEF Moves, GoTo, coordinator
    <3>2. "ensuring" \in Phases /\ "ensuring" \notin Locked /\ "ensuring" \notin Barriers
      BY DEF Phases, Locked, Working, Barriers
    <3>3. Operations'
      BY <1>a, <2>1, <2>2, <3>1, <3>2, OperationStep
    <3>4. UNCHANGED vars
      BY <2>1, <2>2 DEF vars, coordinator
    <3> QED  BY <3>3, <3>4
  <2>3. "barrier" \in Barriers /\ "relock" \in Barriers
    BY DEF Barriers
  <2> QED  BY <1>3, <1>5, <2>1, <2>2, <2>3 DEF Picked
<1>6. CASE BarrierPassed(o)
  <2>1. /\ pc[o] = "idle" /\ pc' = [pc EXCEPT ![o] = "off"]
        /\ UNCHANGED <<coordinator, ready, transitioning, timer, idleWaiters, live,
                       awaiting, kind>>
    BY <1>6 DEF BarrierPassed
  <2>2. PICK x \in {"submitting", "sending", "retiring"} : phase' = [phase EXCEPT ![o] = x]
    BY <1>6 DEF BarrierPassed, GoTo
  <2>3. phase[o] \in Locked
    BY <1>0, <2>1 DEF SessionInv, Operations, Suspended
  <2>4. /\ x \in Phases /\ x \in Locked /\ x \notin Barriers
        /\ x \notin {"picking", "ensuring", "creating", "off"}
    BY DEF Phases, Locked, Working, Barriers
  <2>5. Moves(o, x, kind[o]) /\ pc'[o] = "off"
    BY <1>0, <2>1, <2>2 DEF Moves, coordinator, TypeOK
  <2>6. Operations'
    BY <1>a, <2>1, <2>3, <2>4, <2>5, OperationStep
  <2>7. ClientMoves
    BY <2>1 DEF ClientMoves
  <2>8. ClientTurn
    BY <1>0, <1>e, <2>1, <2>7 DEF ClientTurn, coordinator
  <2> QED  BY <2>6, <2>8 DEF Next
<1>7. CASE TitleSent(o)
  <2>1. phase[o] \in Working /\ "cancelling" \in Working
    BY <1>7 DEF TitleSent, Working
  <2> QED  BY <1>0, <1>1, <1>2, <1>e, <1>7, <2>1 DEF TitleSent
<1>8. CASE TitleRetired(o)
  <2>1. phase[o] \in Working /\ "settling" \in Working
    BY <1>8 DEF TitleRetired, Working
  <2> QED  BY <1>0, <1>1, <1>8, <2>1 DEF TitleRetired
<1>9. CASE TitleSettled(o)
  <2>1. phase[o] \in Working
    BY <1>9 DEF TitleSettled, Working
  <2> QED  BY <1>0, <1>2, <1>e, <1>9, <2>1 DEF TitleSettled
<1>10. CASE SessionRetired(o)
  <2>1. phase[o] \in Working /\ "creating" \in Working
    BY <1>10 DEF SessionRetired, Working
  <2> QED  BY <1>1, <1>10, <2>1 DEF SessionRetired, RetireSession
<1>11. CASE SessionCreated(o)
  <2>1. phase[o] \in Working /\ "projecting" \in Working
    BY <1>11 DEF SessionCreated, Working
  <2> QED  BY <1>1, <1>11, <2>1 DEF SessionCreated
<1>12. CASE FirstBatchHandled(o)
  <2>1. /\ phase[o] \in Working /\ phase[o] # "off" /\ phase[o] \notin Barriers
        /\ "submitting" \in Working /\ "relock" \in Barriers
        /\ UNCHANGED <<coordinator, ready, live, awaiting>>
    BY <1>12 DEF FirstBatchHandled, Working, Barriers
  <2>2. CASE /\ GoTo(o, "submitting")
             /\ UNCHANGED <<transitioning, timer, pc, idleWaiters, kind>>
    BY <1>0, <1>1, <2>1, <2>2
  <2>3. CASE LockAndWait(o, "relock") /\ UNCHANGED kind
    BY <1>3, <2>1, <2>3
  <2>4. CASE Release(o) /\ UNCHANGED <<pc, idleWaiters>>
    BY <1>0, <1>2, <1>e, <2>1, <2>4
  <2> QED  BY <1>12, <2>2, <2>3, <2>4 DEF FirstBatchHandled
<1>13. CASE ReplacementFails(o)
  <2>1. phase[o] \in Working
    BY <1>13 DEF ReplacementFails, Working
  <2> QED  BY <1>2, <1>d, <1>13, <2>1 DEF ReplacementFails, RetireSession
<1>14. CASE Submitted(o)
  <2>1. phase[o] \in Working
    BY <1>14 DEF Submitted, Working
  <2> QED  BY <1>0, <1>2, <1>d, <1>14, <2>1 DEF Submitted
<1>15. CASE SubmissionFails(o)
  <2>1. /\ phase[o] \in Working /\ phase[o] # "off" /\ phase[o] \notin Barriers
        /\ phase[o] \notin {"picking", "ensuring"} /\ "barrier" \in Barriers
        /\ UNCHANGED <<coordinator, ready, live>>
    BY <1>15 DEF SubmissionFails, Barriers, Working
  <2>2. CASE /\ kind' = [kind EXCEPT ![o] = "recover"]
             /\ LockAndWait(o, "barrier") /\ awaiting' = awaiting
    BY <1>0, <1>a, <2>1, <2>2, TakesLock
  <2>3. CASE Release(o) /\ Finished(o) /\ UNCHANGED <<pc, idleWaiters>>
    BY <1>0, <1>2, <1>d, <2>1, <2>3
  <2> QED  BY <1>15, <2>2, <2>3 DEF SubmissionFails
<1> QED
  BY <1>4, <1>5, <1>6, <1>7, <1>8, <1>9, <1>10, <1>11, <1>12, <1>13, <1>14, <1>15
  DEF Advance

(* The preparation of a session moves no operation but the open that waits for it. *)
LEMMA PrepareStep ==
  ASSUME SessionInv, (StartPreparation /\ Recorded) \/ Prepare
  PROVE  Operations' /\ [Next]_vars
<1>0. /\ phase \in [Clients -> Phases] /\ TypeOK
      /\ kind \in [Clients -> Kinds \cup {"recover", "none"}]
      /\ ready \in BOOLEAN /\ transitioning \in BOOLEAN /\ Clients \subseteq Tasks
      /\ timer \in Delays \cup {"none"} /\ live \in SUBSET Responses
  BY DEF SessionInv, TypeInv, TypeOK, Tasks
<1>a. Recorded
  BY DEF Prepare
<1>b. UNCHANGED <<coordinator, transitioning, pc, live>> => Respects
  BY DEF Respects, coordinator
<1>c. \A o \in Clients : phase[o] = "ensuring" =>
        /\ kind[o] = "open" /\ pc[o] = "off"
        /\ phase[o] \notin Locked /\ phase[o] \notin Barriers /\ phase[o] # "off"
  BY DEF SessionInv, Operations, OpensFirst, Suspended, Barriers, Locked, Working
<1>1. CASE StartPreparation
  <2>1. UNCHANGED vars /\ UNCHANGED <<phase, kind>>
    BY <1>1 DEF StartPreparation
  <2>2. UNCHANGED <<coordinator, transitioning, pc, live>>
    BY <2>1 DEF vars, coordinator
  <2> QED  BY <1>a, <1>b, <2>1, <2>2, OtherStep
<1>2. CASE PreparationCreated
  <2>1. /\ UNCHANGED <<coordinator, transitioning, timer, pc, idleWaiters, live, awaiting>>
        /\ UNCHANGED <<phase, kind>> /\ ready' \in BOOLEAN
    BY <1>2 DEF PreparationCreated
  <2>2. ClientTurn
    BY <1>0, <2>1 DEF ClientTurn, ClientMoves, HandlerMoves, coordinator
  <2> QED  BY <1>a, <1>b, <2>1, <2>2, OtherStep DEF Next
<1>3. CASE PreparationHandled
  <2>1. UNCHANGED <<coordinator, ready, live, awaiting, kind>>
    BY <1>3 DEF PreparationHandled
  <2>2. CASE timer' = Scheduled("now") /\ UNCHANGED <<transitioning, pc, idleWaiters, phase>>
    <3>1. timer' \in {timer} \cup (IF ready' /\ ~transitioning' THEN Delays ELSE {})
      BY <2>1, <2>2 DEF Scheduled, Delays
    <3>2. ClientTurn
      BY <1>0, <2>1, <2>2, <3>1 DEF ClientTurn, ClientMoves, HandlerMoves, coordinator
    <3> QED  BY <1>a, <1>b, <2>1, <2>2, <3>2, OtherStep DEF Next
  <2>3. ASSUME NEW o \in Clients, phase[o] = "ensuring",
               NEW x \in {"relock", "barrier"}, LockAndWait(o, x)
        PROVE  Operations' /\ [Next]_vars
    <3>1. x \in Barriers /\ kind' = [kind EXCEPT ![o] = "open"]
      BY <1>0, <1>c, <2>1, <2>3 DEF Barriers
    <3> QED  BY <1>0, <1>a, <1>c, <2>1, <2>3, <3>1, TakesLock
  <2> QED  BY <1>3, <2>2, <2>3 DEF PreparationHandled
<1>4. CASE PreparationFails
  <2>1. /\ UNCHANGED <<coordinator, transitioning, timer, pc, idleWaiters, live, awaiting>>
        /\ ready' \in BOOLEAN
    BY <1>0, <1>4 DEF PreparationFails
  <2>2. ClientTurn
    BY <1>0, <2>1 DEF ClientTurn, ClientMoves, HandlerMoves, coordinator
  <2>3. CASE UNCHANGED <<phase, kind>>
    BY <1>a, <1>b, <2>1, <2>2, <2>3, OtherStep DEF Next
  <2>4. ASSUME NEW o \in Clients, phase[o] = "ensuring", End(o)
        PROVE  Operations'
    <3>1. Moves(o, "off", "none") /\ pc'[o] = "off" /\ phase[o] \notin Locked
      BY <1>0, <1>c, <2>1, <2>4 DEF Moves, End, GoTo, coordinator
    <3>2. "off" \in Phases /\ "off" \notin Locked /\ "off" \notin Barriers
      BY DEF Phases, Locked, Working, Barriers
    <3> QED  BY <1>0, <1>a, <2>1, <3>1, <3>2, OperationStep
  <2> QED  BY <1>4, <2>2, <2>3, <2>4 DEF PreparationFails, Next
<1> QED  BY <1>1, <1>2, <1>3, <1>4 DEF Prepare

\* The rest of the store moves no operation either, and grants a lease only to
\* a response that is not on its way, in a batch.
LEMMA RestStep ==
  ASSUME SessionInv,
         \/ PumpTurn \/ OrdinarySend \/ LoadReported
         \/ \E r \in Responses : BeginService(r)
         \/ \E retired \in SUBSET Responses : RetireServices(retired)
  PROVE  Operations' /\ [Next]_vars
<1>0. /\ TypeOK /\ ready \in BOOLEAN /\ transitioning \in BOOLEAN
      /\ timer \in Delays \cup {"none"} /\ live \in SUBSET Responses
  BY DEF SessionInv, TypeInv, TypeOK
<1>1. CASE PumpTurn
  <2>1. CoordinatorTurn /\ UNCHANGED <<phase, kind, preparation, disputed>>
    BY <1>1 DEF PumpTurn
  <2>2. Respects
    BY <1>0, <2>1, CoordinatorRespects
  <2> QED  BY <2>1, <2>2, OtherStep DEF Next
<1>2. CASE OrdinarySend
  <2>1. /\ UNCHANGED <<coordinator, ready, transitioning, pc, idleWaiters, live, awaiting>>
        /\ UNCHANGED <<phase, kind, preparation, disputed>>
        /\ timer' \in {timer} \cup (IF ready' /\ ~transitioning' THEN Delays ELSE {})
    BY <1>2 DEF OrdinarySend, opVars, Scheduled, Delays
  <2>2. Respects
    BY <2>1 DEF Respects, coordinator
  <2>3. ClientTurn
    BY <1>0, <2>1 DEF ClientTurn, ClientMoves, HandlerMoves, coordinator
  <2> QED  BY <2>1, <2>2, <2>3, OtherStep DEF Next
<1>3. CASE LoadReported
  <2>1. UNCHANGED vars /\ UNCHANGED <<phase, kind, preparation, disputed>>
    BY <1>3 DEF LoadReported
  <2>2. Respects
    BY <2>1 DEF Respects, vars
  <2> QED  BY <2>1, <2>2, OtherStep
<1>4. ASSUME NEW r \in Responses, BeginService(r) PROVE Operations' /\ [Next]_vars
  <2>1. /\ UNCHANGED <<coordinator, ready, transitioning, timer, pc, idleWaiters, awaiting>>
        /\ UNCHANGED <<phase, kind, preparation, disputed>>
        /\ live' = live \cup {r} /\ pc[r] = "off" /\ Projecting
    BY <1>4 DEF BeginService, opVars
  <2>2. ASSUME ~disputed, NEW o \in Clients, phase[o] = "creating" PROVE FALSE
    <3>1. phase[o] \in Locked /\ phase[o] \notin Barriers
      BY <2>2 DEF Locked, Working, Barriers
    <3>2. \A p \in Clients : phase[p] # "projecting"
      BY <2>2, <3>1 DEF SessionInv, Operations, HolderAlone, Locked, Working
    <3>3. ~pumping
      BY <2>2, <3>1 DEF SessionInv, Operations, IdleUnderLock, Suspended
    <3>4. ~handlingBatch
      BY <3>3 DEF SessionInv, PumpInv, BatchOwned, DriveExclusive, Driving, DrivePCs
    <3>5. preparation = "none"
      BY <2>2, <3>1 DEF SessionInv, Operations, Remembered, Dispute, Held
    <3> QED  BY <2>1, <3>2, <3>4, <3>5 DEF Projecting
  <2>3. Suspended' /\ OpensFirst' /\ LockOwned' /\ HolderAlone' /\ IdleUnderLock'
    BY <2>1 DEF SessionInv, Operations, Suspended, OpensFirst, LockOwned, Held, HolderAlone,
                IdleUnderLock, coordinator
  <2>4. Remembered'
    BY <2>1 DEF SessionInv, Operations, Remembered, Dispute, Held
  <2>5. LeasesRetired'
    BY <2>1, <2>2 DEF LeasesRetired
  <2>6. ClientTurn
    BY <1>0, <2>1 DEF ClientTurn, ClientMoves, HandlerMoves, coordinator
  <2> QED  BY <2>3, <2>4, <2>5, <2>6 DEF Operations, Next
<1>5. ASSUME NEW retired \in SUBSET Responses, RetireServices(retired)
      PROVE  Operations' /\ [Next]_vars
  <2>1. /\ UNCHANGED <<coordinator, ready, transitioning, timer, pc, idleWaiters, awaiting>>
        /\ UNCHANGED <<phase, kind, preparation, disputed>> /\ live' = live \ retired
    BY <1>5 DEF RetireServices, opVars
  <2>2. Respects
    BY <2>1 DEF Respects, coordinator
  <2>3. ClientTurn
    BY <1>0, <2>1 DEF ClientTurn, ClientMoves, HandlerMoves, coordinator
  <2> QED  BY <2>1, <2>2, <2>3, OtherStep DEF Next
<1> QED  BY <1>1, <1>2, <1>3, <1>4, <1>5

\* The operations' own variables stay well typed.
LEMMA OpTypes ==
  ASSUME TypeInv, [SessionNext]_allVars
  PROVE  /\ phase' \in [Clients -> Phases]
         /\ kind' \in [Clients -> Kinds \cup {"recover", "none"}]
         /\ projectOpen' \in BOOLEAN /\ loading' \in BOOLEAN /\ selecting' \in BOOLEAN
         /\ preparation' \in {"none", "creating", "projecting"} /\ disputed' \in BOOLEAN
<1> DEFINE Typed ==
      /\ phase' \in [Clients -> Phases]
      /\ kind' \in [Clients -> Kinds \cup {"recover", "none"}]
      /\ projectOpen' \in BOOLEAN /\ loading' \in BOOLEAN /\ selecting' \in BOOLEAN
      /\ preparation' \in {"none", "creating", "projecting"}
<1>0. disputed' \in BOOLEAN
  <2>1. CASE Recorded
    BY <2>1 DEF Recorded, Held, TypeInv
  <2>2. CASE disputed' = disputed
    BY <2>2 DEF TypeInv
  <2> QED
    BY <2>1, <2>2 DEF SessionNext, PumpTurn, Start, Advance, Prepare, BeginService,
                      RetireServices, OrdinarySend, LoadReported, opVars, allVars
<1> SUFFICES Typed
  BY <1>0
<1> USE DEF TypeInv, Phases, Locked, Working, Kinds
<1>1. CASE UNCHANGED allVars
  BY <1>1 DEF allVars, opVars
<1>2. CASE PumpTurn
  BY <1>2 DEF PumpTurn
<1>3. CASE OrdinarySend \/ LoadReported
  BY <1>3 DEF OrdinarySend, LoadReported, opVars
<1>4. ASSUME NEW r \in Responses, BeginService(r) PROVE Typed
  BY <1>4 DEF BeginService, opVars
<1>5. ASSUME NEW retired \in SUBSET Responses, RetireServices(retired) PROVE Typed
  BY <1>5 DEF RetireServices, opVars
<1>6. ASSUME NEW o \in Clients, Start(o) PROVE Typed
  <2>1. CASE StartTitle(o)
    BY <2>1 DEF StartTitle, LockAndWait, GoTo
  <2>2. CASE StartReload(o)
    BY <2>2 DEF StartReload, GoTo
  <2>3. CASE StartOpen(o)
    BY <2>3 DEF StartOpen, GoTo
  <2>4. ASSUME NEW nested \in BOOLEAN, StartRestart(o, nested) PROVE Typed
    BY <2>4 DEF StartRestart, LockAndWait, GoTo
  <2> QED  BY <1>6, <2>1, <2>2, <2>3, <2>4 DEF Start
<1>7. ASSUME NEW o \in Clients, Advance(o) PROVE Typed
  <2>1. CASE Dismissed(o)
    BY <2>1 DEF Dismissed, End, GoTo
  <2>2. CASE Picked(o)
    BY <2>2 DEF Picked, LockAndWait, GoTo
  <2>3. CASE BarrierPassed(o)
    BY <2>3 DEF BarrierPassed, GoTo
  <2>4. CASE TitleSent(o) \/ TitleRetired(o) \/ TitleSettled(o)
    BY <2>4 DEF TitleSent, TitleRetired, TitleSettled, Release, End, GoTo
  <2>5. CASE SessionRetired(o) \/ SessionCreated(o)
    BY <2>5 DEF SessionRetired, SessionCreated, GoTo
  <2>6. CASE FirstBatchHandled(o)
    BY <2>6 DEF FirstBatchHandled, Release, End, LockAndWait, GoTo
  <2>7. CASE ReplacementFails(o)
    BY <2>7 DEF ReplacementFails, Release, End, GoTo
  <2>8. CASE Submitted(o)
    BY <2>8 DEF Submitted, Release, End, GoTo
  <2>9. CASE SubmissionFails(o)
    BY <2>9 DEF SubmissionFails, Release, End, LockAndWait, GoTo
  <2> QED
    BY <1>7, <2>1, <2>2, <2>3, <2>4, <2>5, <2>6, <2>7, <2>8, <2>9 DEF Advance
<1>8. CASE StartPreparation \/ Prepare
  BY <1>8 DEF StartPreparation, Prepare, PreparationCreated, PreparationHandled,
              PreparationFails, LockAndWait, End, GoTo
<1> QED  BY <1>1, <1>2, <1>3, <1>4, <1>5, <1>6, <1>7, <1>8 DEF SessionNext

-----------------------------------------------------------------------------
(* The theorems. *)

(* Every step of the store keeps the invariant and is a step of the pump. *)
LEMMA SessionStep ==
  ASSUME SessionInv, [SessionNext]_allVars
  PROVE  SessionInv' /\ [Next]_vars
<1>1. Operations' /\ [Next]_vars
  <2>1. CASE UNCHANGED allVars
    <3>1. UNCHANGED vars /\ UNCHANGED <<phase, kind, preparation, disputed>>
      BY <2>1 DEF allVars, opVars
    <3>2. Respects
      BY <3>1 DEF Respects, vars
    <3> QED  BY <3>1, <3>2, OtherStep
  <2>2. CASE SessionNext
    BY <2>2, StartStep, AdvanceStep, PrepareStep, RestStep DEF SessionNext
  <2> QED  BY <2>1, <2>2
<1>2. PumpInv'
  BY <1>1, TypeStep, LockStep DEF SessionInv, PumpInv
<1>3. TypeInv'
  BY <1>2, OpTypes DEF SessionInv, TypeInv, PumpInv
<1> QED  BY <1>1, <1>2, <1>3 DEF SessionInv

(* The invariant holds before the first session. *)
LEMMA SessionInitial == SessionInit => SessionInv
<1> SUFFICES ASSUME SessionInit PROVE SessionInv
  OBVIOUS
<1>1. PumpInv
  BY InitEstablishes DEF SessionInit
<1>2. \A o \in Clients : phase[o] = "off" /\ pc[o] = "off"
  BY DEF SessionInit, Init, Tasks
<1>3. TypeInv
  BY <1>1 DEF SessionInit, TypeInv, PumpInv, Phases
<1>4. Operations
  BY <1>2 DEF SessionInit, Init, Operations, Suspended, OpensFirst, LockOwned, Held, Remembered,
              Dispute, HolderAlone, IdleUnderLock, LeasesRetired, Barriers, Locked, Working
<1> QED  BY <1>1, <1>3, <1>4 DEF SessionInv

(* ... and so always. *)
LEMMA SessionInvariant == SessionSpec => []SessionInv
<1>1. SessionInv /\ [SessionNext]_allVars => SessionInv'
  BY SessionStep
<1> QED  BY <1>1, SessionInitial, PTL DEF SessionSpec

(* The operations are clients the coordinator allows, whatever overlaps: their
   composition with the pump is a behaviour of the pump, so what is proved of
   RuntimePump's Spec holds of the store. *)
THEOREM OperationsImplementPump == SessionSpec => ImplementsPump
<1>1. SessionInv /\ [SessionNext]_allVars => [Next]_vars
  BY SessionStep
<1>2. SessionInit => Init
  BY DEF SessionInit
<1> QED  BY <1>1, <1>2, SessionInvariant, PTL DEF SessionSpec, ImplementsPump, Spec

(* Under a lock that no open has disputed nothing drives the bridge but the one
   operation that holds it. *)
THEOREM TransitionsExcludePump == SessionSpec => []TransitionExclusive
<1>1. SessionInv => TransitionExclusive
  <2> SUFFICES ASSUME SessionInv, ~disputed, NEW o \in Clients, phase[o] \in Working
               PROVE  /\ transitioning /\ ~pumping
                      /\ \A p \in Clients \ {o} : phase[p] \notin Working
    BY DEF TransitionExclusive
  <2>1. phase[o] \in Locked /\ phase[o] \notin Barriers /\ Working \subseteq Locked
    BY DEF Locked, Working, Barriers
  <2>2. transitioning
    BY <2>1 DEF SessionInv, Operations, LockOwned, Held
  <2>3. ~pumping
    BY <2>1 DEF SessionInv, Operations, IdleUnderLock, Suspended
  <2>4. \A p \in Clients \ {o} : phase[p] \notin Working
    BY <2>1 DEF SessionInv, Operations, HolderAlone
  <2> QED  BY <2>2, <2>3, <2>4
<1> QED  BY <1>1, SessionInvariant, PTL

(* The flag is up only while an operation is between its lock and its release,
   and throughout unless an open disputed it: every path, the failing ones
   included, gives it back. *)
THEOREM LockAlwaysOwned == SessionSpec => []LockOwned
<1>1. SessionInv => LockOwned
  BY DEF SessionInv, Operations
<1> QED  BY <1>1, SessionInvariant, PTL

(* No service lease of the retired session is left when the next is created,
   unless an open disputed the lock. *)
THEOREM NoLeaseSurvives == SessionSpec => []LeasesRetired
<1>1. SessionInv => LeasesRetired
  BY DEF SessionInv, Operations
<1> QED  BY <1>1, SessionInvariant, PTL

(* The store's variables keep their types. *)
THEOREM StoreTypeCorrect == SessionSpec => []TypeInv
<1>1. SessionInv => TypeInv
  BY DEF SessionInv
<1> QED  BY <1>1, SessionInvariant, PTL

-----------------------------------------------------------------------------
(* The pump is not forgotten. *)

\* A submission that cleared the timer is on its way to a drive of its own, or to an
\* acknowledgement that schedules.
Owed ==
  \/ \E s \in Submitters : pc[s] \in {"waiting", "idle"}
  \/ \E s \in Skips : pc[s] = "plain"

PumpOwed ==
  ready /\ ~transitioning /\ ~pumping /\ ~failed => timer # "none" \/ Owed

\* A step that leaves the flags alone and takes no submission off its way.
LEMMA OwedStays ==
  ASSUME TypeOK, PumpOwed,
         (ready' /\ ~transitioning') => (ready /\ ~transitioning /\ timer' = timer),
         ~pumping' => ~pumping, ~failed' => ~failed,
         \A s \in Submitters :
           \/ pc'[s] = pc[s]
           \/ pc'[s] \in {"waiting", "idle"}
           \/ pc[s] \notin {"waiting", "idle", "plain"}
  PROVE  PumpOwed'
BY DEF PumpOwed, Owed, Submitters

\* A turn of one task that is not at one of those places, or comes to one.
LEMMA TurnStays ==
  ASSUME TypeOK, PumpOwed, UNCHANGED <<ready, transitioning, timer>>,
         ~pumping' => ~pumping, ~failed' => ~failed,
         NEW t \in Tasks, NEW p, pc' = [pc EXCEPT ![t] = p],
         t \in Clients \/ p \in {"waiting", "idle"} \/ pc[t] \notin {"waiting", "idle", "plain"}
  PROVE  PumpOwed'
<1>1. \A s \in Submitters : s # t => pc'[s] = pc[s]
  BY DEF TypeOK, Tasks
<1>2. t \in Submitters => t \notin Clients /\ pc'[t] = p
  BY DEF TypeOK, Tasks
<1> QED  BY <1>1, <1>2, OwedStays

\* A turn in which a submission clears the timer puts it on its way.
LEMMA EntersOwed ==
  ASSUME TypeOK, NEW s \in Submitters, WaitUntilIdle(s, "waiting", "idle")
  PROVE  PumpOwed'
BY DEF TypeOK, Tasks, WaitUntilIdle, PumpOwed, Owed

\* A turn of the coordinator.
LEMMA CoordinatorOwed ==
  ASSUME PumpInv, PumpOwed, CoordinatorTurn
  PROVE  PumpOwed'
<1>0. TypeOK /\ (handlingBatch => pumping) /\ (ready /\ ~transitioning =>
        Scheduled("now") # "none" /\ Scheduled("later") # "none")
  BY DEF PumpInv, BatchOwned, DriveExclusive, Driving, DrivePCs, Scheduled
<1>1. CASE TimerFires
  BY <1>1 DEF TimerFires, PumpBlocked, PumpOwed
<1>2. ASSUME NEW l \in Loops, TimeAdvanced(l) PROVE PumpOwed'
  BY <1>0, <1>2, TurnStays DEF TimeAdvanced, Tasks
<1>3. ASSUME NEW l \in Loops, LoopBatchEnds(l) PROVE PumpOwed'
  <2>1. PICK p \in {"time", "off"} : pc' = [pc EXCEPT ![l] = p]
    BY <1>3 DEF LoopBatchEnds, EndDrive
  <2>2. pumping
    BY <1>3 DEF LoopBatchEnds, PumpInv, DriveExclusive, Driving, DrivePCs, Tasks
  <2>3. CASE UNCHANGED pumping
    BY <1>3, <2>2, <2>3 DEF PumpOwed
  <2>4. CASE \E pending \in BOOLEAN : timer' = Scheduled(IF pending THEN "now" ELSE "later")
    BY <1>0, <1>3, <2>4 DEF LoopBatchEnds, PumpOwed
  <2> QED  BY <1>3, <2>3, <2>4 DEF LoopBatchEnds
<1>4. ASSUME NEW t \in Loops \cup Submitters, BatchArrives(t) PROVE PumpOwed'
  BY <1>0, <1>4, TurnStays DEF BatchArrives, Tasks
<1>5. ASSUME NEW t \in Loops \cup Submitters, DriveThrows(t) PROVE PumpOwed'
  BY <1>5 DEF DriveThrows, DriveFails, PumpOwed
<1>6. ASSUME NEW s \in Skips, PlainAck(s) PROVE PumpOwed'
  BY <1>0, <1>6 DEF PlainAck, PumpOwed
<1>7. ASSUME NEW s \in Skips, NEW nested \in BOOLEAN, StartSkip(s, nested) PROVE PumpOwed'
  <2>1. s \in Submitters /\ s \in Tasks
    BY DEF Submitters, Tasks
  <2>2. CASE Reentrant
    BY <1>0, <1>7, <2>1, <2>2, TurnStays DEF StartSkip
  <2>3. CASE ~Reentrant
    BY <1>0, <1>7, <2>1, <2>3, EntersOwed DEF StartSkip, EnterSubmit
  <2> QED  BY <2>2, <2>3
<1>8. ASSUME NEW t \in Tasks, WaiterWakes(t) PROVE PumpOwed'
  <2>1. CASE pc[t] = "waiting"
    <3>1. PICK p \in {"waiting", "idle"} : pc' = [pc EXCEPT ![t] = p]
      BY <1>8, <2>1 DEF WaiterWakes, WaitUntilIdle
    <3> QED  BY <1>0, <1>8, <3>1, TurnStays DEF WaiterWakes
  <2>2. CASE pc[t] = "respWaiting"
    <3>1. PICK p : pc' = [pc EXCEPT ![t] = p]
      BY <1>8 DEF WaiterWakes, WaitUntilIdle
    <3> QED  BY <1>0, <1>8, <2>2, <3>1, TurnStays DEF WaiterWakes
  <2> QED  BY <1>8, <2>1, <2>2 DEF WaiterWakes, WaitPCs
<1>9. ASSUME NEW r \in Responses, Respond(r) \/ ResponseRefused(r) PROVE PumpOwed'
  <2>1. r \in Tasks /\ pc[r] \in {"off", "refused"}
    BY <1>9 DEF Respond, ResponseRefused, Tasks, Submitters
  <2>2. PICK p : pc' = [pc EXCEPT ![r] = p]
    BY <1>9 DEF Respond, ResponseRefused, WaitUntilIdle
  <2>3. UNCHANGED <<ready, transitioning, timer, pumping, failed>>
    BY <1>9 DEF Respond, ResponseRefused
  <2> QED  BY <1>0, <2>1, <2>2, <2>3, TurnStays
<1>10. ASSUME NEW r \in Responses, ResponseResumes(r) PROVE PumpOwed'
  <2>1. r \in Tasks /\ r \in Submitters /\ pc[r] = "respIdle"
    BY <1>10 DEF ResponseResumes, Tasks, Submitters
  <2>2. ASSUME NEW p, pc' = [pc EXCEPT ![r] = p], timer' = timer PROVE PumpOwed'
    BY <1>0, <1>10, <2>1, <2>2, TurnStays DEF ResponseResumes
  <2>3. CASE EnterSubmit(r)
    BY <1>0, <2>1, <2>3, EntersOwed DEF EnterSubmit
  <2> QED  BY <1>10, <2>2, <2>3 DEF ResponseResumes
<1>11. ASSUME NEW s \in Submitters, SubmitResumes(s) PROVE PumpOwed'
  <2>1. CASE (~ready \/ transitioning \/ handlingBatch) /\ UNCHANGED pumping
    BY <1>0, <1>11, <2>1 DEF SubmitResumes, PumpOwed
  <2>2. CASE WaitUntilIdle(s, "waiting", "idle")
    BY <1>0, <2>2, EntersOwed
  <2>3. CASE Claim(s)
    BY <2>3 DEF Claim, DriveFails, PumpOwed
  <2> QED  BY <1>11, <2>1, <2>2, <2>3 DEF SubmitResumes
<1>12. ASSUME NEW s \in Submitters, SubmitBatchEnds(s) PROVE PumpOwed'
  BY <1>0, <1>12 DEF SubmitBatchEnds, PumpOwed, Delays
<1> QED
  BY <1>1, <1>2, <1>3, <1>4, <1>5, <1>6, <1>7, <1>8, <1>9, <1>10, <1>11, <1>12
  DEF CoordinatorTurn

\* The same for the store: an operation under the lock, or a session's first batch, will
\* schedule the pump at its end.
StoreOwed ==
  ready /\ ~Held /\ ~pumping /\ ~failed /\ preparation # "projecting" =>
    timer # "none" \/ Owed

\* The flag is down when no operation is under the lock, so the pump's turn serves the store.
LEMMA PumpTurnOwed ==
  ASSUME SessionInv, StoreOwed, PumpTurn
  PROVE  StoreOwed'
<1>1. CoordinatorTurn /\ UNCHANGED <<phase, preparation>> /\ (Held' <=> Held)
  BY DEF PumpTurn, Held
<1>2. transitioning' = transitioning /\ (transitioning => Held)
  BY <1>1, CoordinatorRespects DEF SessionInv, TypeInv, Respects, Operations, LockOwned
<1>3. CASE Held \/ preparation = "projecting"
  BY <1>1, <1>3 DEF StoreOwed
<1>4. CASE ~Held /\ preparation # "projecting"
  <2>1. PumpOwed
    BY <1>4 DEF StoreOwed, PumpOwed
  <2>2. PumpOwed'
    BY <1>1, <2>1, CoordinatorOwed DEF SessionInv
  <2> QED  BY <1>1, <1>2, <1>4, <2>2 DEF StoreOwed, PumpOwed
<1> QED  BY <1>3, <1>4

\* An operation: whatever leaves the lock arms the timer of a ready session.
LEMMA OperationOwed ==
  ASSUME SessionInv, StoreOwed, NEW o \in Clients, Start(o) \/ Advance(o)
  PROVE  StoreOwed'
<1>0. /\ phase \in [Clients -> Phases] /\ ready \in BOOLEAN
      /\ preparation \in {"none", "creating", "projecting"}
  BY DEF SessionInv, TypeInv, TypeOK
<1>1. ASSUME NEW x \in Locked, GoTo(o, x) PROVE StoreOwed'
  BY <1>0, <1>1 DEF GoTo, Held, StoreOwed
<1>2. CASE Release(o) /\ ready' \in BOOLEAN
  BY <1>2 DEF Release, StoreOwed
<1>3. ASSUME UNCHANGED vars, NEW x \in {"picking", "ensuring", "off"}, GoTo(o, x),
             phase[o] \notin Locked,
             preparation' = preparation \/ preparation = "none"
      PROVE  StoreOwed'
  <2>1. \A p \in Clients : phase'[p] \in Locked <=> phase[p] \in Locked
    BY <1>0, <1>3 DEF GoTo, Locked, Working
  <2>2. Held' <=> Held
    BY <2>1 DEF Held
  <2> QED  BY <1>3, <2>2 DEF StoreOwed, Owed, vars
<1>a. /\ Working \subseteq Locked /\ "barrier" \in Locked /\ "relock" \in Locked
      /\ {"off", "picking"} \cap Locked = {}
  BY DEF Locked, Working
<1>4. CASE Start(o)
  BY <1>1, <1>3, <1>4, <1>a
  DEF Start, MayStart, StartTitle, StartReload, StartRestart, StartOpen, LockAndWait
<1>5. CASE Advance(o)
  <2>1. CASE Dismissed(o)
    BY <1>3, <1>a, <2>1 DEF Dismissed, End
  <2>2. CASE Picked(o)
    <3>1. CASE LockAndWait(o, "barrier") \/ LockAndWait(o, "relock")
      BY <1>1, <1>a, <3>1 DEF LockAndWait
    <3>2. CASE /\ GoTo(o, "ensuring") /\ UNCHANGED <<transitioning, timer, pc, idleWaiters>>
               /\ preparation' = IF preparation = "none" THEN "creating" ELSE preparation
      <4>1. UNCHANGED vars /\ phase[o] \notin Locked
        BY <1>a, <2>2, <3>2 DEF Picked, vars, coordinator
      <4> QED  BY <1>3, <3>2, <4>1
    <3> QED  BY <2>2, <3>1, <3>2 DEF Picked
  <2>3. CASE BarrierPassed(o)
    <3>1. PICK x \in {"submitting", "sending", "retiring"} : GoTo(o, x)
      BY <2>3 DEF BarrierPassed
    <3> QED  BY <1>1, <3>1 DEF Locked, Working
  <2>4. CASE TitleSent(o) \/ TitleRetired(o) \/ TitleSettled(o)
    <3>1. \/ GoTo(o, "cancelling") \/ GoTo(o, "settling")
          \/ Release(o) /\ ready' \in BOOLEAN
      BY <1>0, <2>4 DEF TitleSent, TitleRetired, TitleSettled
    <3> QED  BY <1>1, <1>2, <3>1 DEF Locked, Working
  <2>5. CASE SessionRetired(o) \/ SessionCreated(o)
    <3>1. GoTo(o, "creating") \/ GoTo(o, "projecting")
      BY <2>5 DEF SessionRetired, SessionCreated
    <3> QED  BY <1>1, <3>1 DEF Locked, Working
  <2>6. CASE FirstBatchHandled(o)
    <3>1. \/ GoTo(o, "submitting") \/ LockAndWait(o, "relock")
          \/ Release(o) /\ ready' \in BOOLEAN
      BY <1>0, <2>6 DEF FirstBatchHandled
    <3> QED  BY <1>1, <1>2, <3>1 DEF Locked, Working, LockAndWait
  <2>7. CASE ReplacementFails(o) \/ Submitted(o)
    BY <1>0, <1>2, <2>7 DEF ReplacementFails, Submitted, RetireSession
  <2>8. CASE SubmissionFails(o)
    BY <1>0, <1>1, <1>2, <1>a, <2>8 DEF SubmissionFails, LockAndWait
  <2> QED  BY <1>5, <2>1, <2>2, <2>3, <2>4, <2>5, <2>6, <2>7, <2>8 DEF Advance
<1> QED  BY <1>4, <1>5

\* The preparation: it makes the session ready without a timer, and arms one, or lets an open
\* take the lock, when the first batch is handled.
LEMMA PreparationOwed ==
  ASSUME SessionInv, StoreOwed, StartPreparation \/ Prepare
  PROVE  StoreOwed'
<1>0. /\ phase \in [Clients -> Phases] /\ ready \in BOOLEAN
      /\ preparation \in {"none", "creating", "projecting"}
      /\ {"ensuring", "off"} \cap Locked = {}
  BY DEF SessionInv, TypeInv, TypeOK, Locked, Working
<1>1. CASE StartPreparation
  BY <1>1 DEF StartPreparation, StoreOwed, Held, Owed, vars
<1>2. CASE PreparationCreated
  BY <1>2 DEF PreparationCreated, StoreOwed
<1>3. CASE PreparationHandled
  <2>1. CASE timer' = Scheduled("now") /\ UNCHANGED <<transitioning, phase>>
    <3>1. (Held' <=> Held) /\ (transitioning => Held)
      BY <2>1 DEF Held, SessionInv, Operations, LockOwned
    <3> QED  BY <1>3, <2>1, <3>1 DEF PreparationHandled, StoreOwed, Scheduled
  <2>2. ASSUME NEW o \in Clients, NEW x \in {"relock", "barrier"}, LockAndWait(o, x)
        PROVE  StoreOwed'
    BY <1>0, <2>2 DEF LockAndWait, GoTo, Held, StoreOwed, Locked
  <2> QED  BY <1>3, <2>1, <2>2 DEF PreparationHandled
<1>4. CASE PreparationFails
  <2>1. \A p \in Clients : phase'[p] \in Locked <=> phase[p] \in Locked
    BY <1>0, <1>4 DEF PreparationFails, End, GoTo
  <2>2. Held' <=> Held
    BY <2>1 DEF Held
  <2>3. ready' = (ready /\ preparation = "creating")
        /\ UNCHANGED <<pumping, failed, timer, pc>>
    BY <1>4 DEF PreparationFails, coordinator
  <2>4. CASE preparation = "creating"
    BY <2>2, <2>3, <2>4 DEF StoreOwed, Owed
  <2>5. CASE preparation # "creating"
    BY <2>3, <2>5 DEF StoreOwed
  <2> QED  BY <2>4, <2>5
<1> QED  BY <1>1, <1>2, <1>3, <1>4 DEF Prepare

\* The pump is owed a turn throughout.
LEMMA OwedInvariant == SessionSpec => []StoreOwed
<1>1. SessionInit => StoreOwed
  BY DEF SessionInit, Init, StoreOwed
<1>2. SessionInv /\ StoreOwed /\ [SessionNext]_allVars => StoreOwed'
  <2> SUFFICES ASSUME SessionInv, StoreOwed, [SessionNext]_allVars PROVE StoreOwed'
    OBVIOUS
  <2>1. CASE UNCHANGED allVars
    BY <2>1 DEF allVars, opVars, vars, StoreOwed, Owed, Held
  <2>2. CASE PumpTurn
    BY <2>2, PumpTurnOwed
  <2>3. ASSUME NEW o \in Clients, Start(o) \/ Advance(o) PROVE StoreOwed'
    BY <2>3, OperationOwed
  <2>4. CASE StartPreparation \/ Prepare
    BY <2>4, PreparationOwed
  <2>5. ASSUME \/ LoadReported \/ \E r \in Responses : BeginService(r)
               \/ \E retired \in SUBSET Responses : RetireServices(retired)
        PROVE  StoreOwed'
    <3>1. UNCHANGED <<coordinator, ready, timer, pc, phase, preparation>>
      BY <2>5 DEF LoadReported, BeginService, RetireServices, vars, opVars, coordinator
    <3> QED  BY <3>1 DEF StoreOwed, Owed, Held, coordinator
  <2>6. CASE OrdinarySend
    <3>1. UNCHANGED <<coordinator, ready, pc, phase, preparation>> /\ timer' \in {timer, "now"}
      BY <2>6 DEF OrdinarySend, Scheduled, opVars
    <3> QED  BY <3>1 DEF StoreOwed, Owed, Held, coordinator
  <2> QED  BY <2>1, <2>2, <2>3, <2>4, <2>5, <2>6 DEF SessionNext
<1> QED  BY <1>1, <1>2, SessionInvariant, PTL DEF SessionSpec

(* No path that clears the timer forgets the pump: at the end of a turn a ready session is
   driven, armed or about to be acknowledged, or an operation under the lock or the session's
   first batch will schedule it, or its last drive failed. *)
THEOREM PumpNeverForgotten == SessionSpec => []PumpScheduled
<1>1. SessionInv /\ StoreOwed => PumpScheduled
  <2> SUFFICES ASSUME SessionInv, StoreOwed, Quiet, ready, ~Held, ~pumping, ~failed,
                      preparation # "projecting", timer = "none"
               PROVE  \E s \in Skips : pc[s] = "plain"
    BY DEF PumpScheduled
  <2>1. idleWaiters = {}
    BY DEF SessionInv, PumpInv, NoLostWakeup
  <2>2. \A s \in Submitters : pc[s] \notin {"waiting", "idle"}
    BY <2>1 DEF Quiet, Runnable, WaitPCs, IdlePCs, Tasks
  <2> QED  BY <2>2 DEF StoreOwed, Owed
<1> QED  BY <1>1, OwedInvariant, SessionInvariant, PTL
=============================================================================
