---------------------- MODULE PresentationProjection ----------------------
(***************************************************************************)
(* What the player sees of the runtime's frame (stores/                    *)
(* runtimePresentation.ts).  The projection p keeps the visible frame and, *)
(* while a change must not be seen half done, a staged one that receives   *)
(* the runtime's updates in its place.  The operations are functions from  *)
(* projection to projection, as the class's methods run without an await;  *)
(* RuntimeInput composes them with the store's handlers.                   *)
(*                                                                         *)
(* A frame is its revision, its input wait and its redraw switch: the      *)
(* content stands behind the revision.  A delta carries, in the order of   *)
(* its operations, the redraw switches and the input waits it sets, and    *)
(* whether it erases lines.                                                *)
(***************************************************************************)
EXTENDS Naturals, Sequences

CONSTANTS Waits, None

Frame == [rev: Nat, wait: Waits \cup {None}, redraw: BOOLEAN]

ASSUME NoneAssumption == None \notin Waits /\ None \notin Frame

emptyPresentation == [rev |-> 0, wait |-> None, redraw |-> TRUE]

\* stagedPresentation, stagedReady, stagedCanFlushWhenIdle, stagedForInputTransition
Projection ==
  [visible: Frame, staged: Frame \cup {None},
   ready: BOOLEAN, flush: BOOLEAN, transition: BOOLEAN]

initial == [visible |-> emptyPresentation, staged |-> None,
            ready |-> FALSE, flush |-> FALSE, transition |-> FALSE]

IsStaged(p) == p.staged # None

current(p) == IF IsStaged(p) THEN p.staged ELSE p.visible

WithCurrent(p, frame) == IF IsStaged(p) THEN [p EXCEPT !.staged = frame]
                                        ELSE [p EXCEPT !.visible = frame]

stage(p) == IF IsStaged(p) THEN p
            ELSE [p EXCEPT !.staged = p.visible, !.ready = FALSE, !.flush = FALSE]

discard(p) == [initial EXCEPT !.visible = p.visible]

publish(p) == IF IsStaged(p) THEN [initial EXCEPT !.visible = p.staged] ELSE p

beginInputTransition(p) ==
  IF current(p).wait = None THEN p
  ELSE [stage(p) EXCEPT !.flush = TRUE, !.transition = TRUE]

cancelInputTransition(p) == IF p.transition THEN discard(p) ELSE p

OpensUnready(p, wait) == WithCurrent(p, [current(p) EXCEPT !.wait = wait])
openInputWait(p, wait) ==
  LET opened == WithCurrent(p, [current(p) EXCEPT !.wait = wait])
  IN IF IsStaged(p) THEN [opened EXCEPT !.ready = TRUE]
                    ELSE [opened EXCEPT !.transition = FALSE]

ClosesPublished(p) == [beginInputTransition(p) EXCEPT !.visible.wait = None]
closeInputWait(p) ==
  LET begun == beginInputTransition(p)
  IN WithCurrent(begun, [current(begun) EXCEPT !.wait = None])

\* An observation must see what the runtime has: the staged frame is published, and only
\* the marker of the transition stays.
PublishesAndStages(p) ==
  IF IsStaged(p)
  THEN [stage(publish(p)) EXCEPT !.transition = p.transition /\ p.staged.wait = None]
  ELSE p
publishForObservationBarrier(p) ==
  IF IsStaged(p)
  THEN [publish(p) EXCEPT !.transition = p.transition /\ p.staged.wait = None]
  ELSE p

shouldPublish(p, state) ==
  \/ p.ready
  \/ IsStaged(p) /\ state \in {"stopped", "faulted"}
  \/ IsStaged(p) /\ ~p.transition /\ p.flush /\ state = "idle"

projectSnapshot(p, frame) ==
  IF ~frame.redraw /\ frame.wait = None
  THEN [initial EXCEPT !.visible = p.visible, !.staged = frame]
  ELSE [initial EXCEPT !.visible = frame]

---------------------------------------------------------------------------
(* Deltas. *)

Delta == [base: Nat, new: Nat, redraws: Seq(BOOLEAN), waits: Seq(Waits \cup {None}), erases: BOOLEAN]

Values(s) == {s[i] : i \in DOMAIN s}
LastOr(s, default) == IF s = <<>> THEN default ELSE s[Len(s)]

disablesRedraw(delta) == FALSE \in Values(delta.redraws)
opensInputWait(delta) == Values(delta.waits) \cap Waits # {}
closesInputWait(delta) == None \in Values(delta.waits)
completesFrame(delta) == TRUE \in Values(delta.redraws) \/ opensInputWait(delta)

\* Lines erased with nothing in their place yet.
startsTransientReplacement(p, delta) ==
  p.visible.wait = None /\ ~completesFrame(delta) /\ delta.erases

shouldStage(p, delta) ==
  \/ IsStaged(p)
  \/ p.transition
  \/ /\ ~completesFrame(delta)
     /\ \/ ~p.visible.redraw /\ p.visible.wait = None
        \/ disablesRedraw(delta)
        \/ startsTransientReplacement(p, delta)

\* applyDelta refuses a delta whose base is not the frame's revision.
Applies(p, delta) == delta.base = current(p).rev

applyDelta(frame, delta) ==
  [rev |-> delta.new, wait |-> LastOr(delta.waits, frame.wait),
   redraw |-> LastOr(delta.redraws, frame.redraw)]

\* A new wait ends an input transition, a redraw boundary does not.
ReadyAtRedraw(p, delta) == completesFrame(delta)
becomesReady(p, delta) ==
  opensInputWait(delta) \/ (completesFrame(delta) /\ ~p.transition)

\* The projection after a delta; one that does not apply ends in discard.
projectDelta(p, delta) ==
  LET closing == IF closesInputWait(delta) THEN beginInputTransition(p) ELSE p
      target == IF shouldStage(closing, delta) THEN stage(closing) ELSE closing
      frame == applyDelta(current(target), delta)
      quiet == disablesRedraw(delta) \/ ~frame.redraw
      flush == ~quiet /\ (startsTransientReplacement(p, delta) \/ target.flush)
      ready == target.ready \/ becomesReady(target, delta)
  IN CASE ~Applies(target, delta) -> discard(target)
       [] Applies(target, delta) /\ ~IsStaged(target) -> [target EXCEPT !.visible = frame]
       [] Applies(target, delta) /\ IsStaged(target) ->
            [target EXCEPT !.staged = frame, !.flush = flush, !.ready = ready]
===========================================================================
