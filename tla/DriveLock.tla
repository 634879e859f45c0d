----------------------------- MODULE DriveLock -----------------------------
(***************************************************************************)
(* What the pump coordinator promises: a lock on the bridge drive.  One    *)
(* task holds it at a time and releases it before another acquires it; a   *)
(* batch is projected only while the lock is held, and its holder may      *)
(* drive and project again, or give up after a failure.                    *)
(***************************************************************************)
CONSTANTS Tasks, NoTask

VARIABLES holder, projecting

lockVars == <<holder, projecting>>

Init == holder = NoTask /\ projecting = FALSE

Acquire(t) ==
  /\ holder = NoTask
  /\ holder' = t
  /\ UNCHANGED projecting

Project ==
  /\ holder # NoTask /\ ~projecting
  /\ projecting' = TRUE
  /\ UNCHANGED holder

\* The batch is done: the holder drives again or releases.
Projected ==
  /\ projecting
  /\ projecting' = FALSE
  /\ holder' \in {holder, NoTask}

GiveUp ==
  /\ holder # NoTask
  /\ holder' = NoTask
  /\ projecting' = FALSE

Next == (\E t \in Tasks : Acquire(t)) \/ Project \/ Projected \/ GiveUp

Spec == Init /\ [][Next]_lockVars
=============================================================================
