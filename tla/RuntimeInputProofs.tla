------------------------ MODULE RuntimeInputProofs ------------------------
(***************************************************************************)
(* Proofs about the projection under the store's handlers, for any waits,  *)
(* kinds, hosts and bounds: no staged frame is stranded, the store works   *)
(* on the runtime's own frame unless a staged one was discarded, an input  *)
(* is taken once, and the player can answer when the runtime waits.        *)
(* The lemmas say what each operation of the projection does to its        *)
(* current frame; the steps of RuntimeInput are made of them.              *)
(***************************************************************************)
EXTENDS RuntimeInput, TLAPS

---------------------------------------------------------------------------
(* The operations of the projection. *)

\* A projection whose staged frame, if any, has a way to the screen.
Sound(p) == p \in Projection /\ HasExit(p)

\* Staging hides nothing that is current and keeps the marker of the transition.
LEMMA StageLemma ==
  ASSUME NEW p \in Projection
  PROVE  /\ stage(p) \in Projection /\ IsStaged(stage(p))
         /\ current(stage(p)) = current(p)
         /\ stage(p).transition = p.transition
BY NoneAssumption DEF stage, Projection, IsStaged, current

\* The current frame is a frame.
LEMMA CurrentLemma ==
  ASSUME NEW p \in Projection
  PROVE  current(p) \in Frame
BY DEF current, Projection, IsStaged

\* Replacing the current frame replaces exactly that.
LEMMA WithCurrentLemma ==
  ASSUME NEW p \in Projection, NEW f \in Frame
  PROVE  /\ WithCurrent(p, f) \in Projection
         /\ current(WithCurrent(p, f)) = f
         /\ IsStaged(WithCurrent(p, f)) = IsStaged(p)
BY NoneAssumption DEF WithCurrent, Projection, IsStaged, current

\* Discarding falls back to the visible frame.
LEMMA DiscardLemma ==
  ASSUME NEW p \in Projection
  PROVE  Sound(discard(p)) /\ current(discard(p)) = p.visible /\ ~IsStaged(discard(p))
BY NoneAssumption DEF discard, initial, Sound, HasExit, Projection, IsStaged, current

\* Publishing, with or without the end of the transition, keeps the current frame.
LEMMA PublishLemma ==
  ASSUME NEW p \in Projection, Sound(p)
  PROVE  /\ Sound(publish(p)) /\ current(publish(p)) = current(p)
         /\ Sound(publishForObservationBarrier(p))
         /\ current(publishForObservationBarrier(p)) = current(p)
BY NoneAssumption
DEF publish, publishForObservationBarrier, initial, Sound, HasExit, Projection, IsStaged, current

\* A snapshot becomes the current frame, staged or not.
LEMMA SnapshotLemma ==
  ASSUME NEW p \in Projection, NEW f \in Frame
  PROVE  Sound(projectSnapshot(p, f)) /\ current(projectSnapshot(p, f)) = f
BY NoneAssumption DEF projectSnapshot, initial, Sound, HasExit, Projection, IsStaged, current

\* An input transition stages the current frame as it is.
LEMMA BeginLemma ==
  ASSUME NEW p \in Projection, Sound(p)
  PROVE  /\ Sound(beginInputTransition(p))
         /\ current(beginInputTransition(p)) = current(p)
<1>1. CASE current(p).wait = None
  BY <1>1 DEF beginInputTransition
<1>2. CASE current(p).wait # None
  BY <1>2, StageLemma DEF beginInputTransition, Sound, HasExit, Projection, IsStaged, current
<1> QED BY <1>1, <1>2

\* An opened wait is shown by the current frame, which becomes ready.
LEMMA OpenLemma ==
  ASSUME NEW p \in Projection, Sound(p), NEW w \in Waits
  PROVE  /\ Sound(openInputWait(p, w))
         /\ current(openInputWait(p, w)) = [current(p) EXCEPT !.wait = w]
<1> DEFINE f == [current(p) EXCEPT !.wait = w]
<1>1. f \in Frame
  BY CurrentLemma DEF Frame
<1> HIDE DEF f
<1>2. /\ WithCurrent(p, f) \in Projection
      /\ current(WithCurrent(p, f)) = f
      /\ IsStaged(WithCurrent(p, f)) = IsStaged(p)
  BY <1>1, WithCurrentLemma
<1>3. openInputWait(p, w) = IF IsStaged(p) THEN [WithCurrent(p, f) EXCEPT !.ready = TRUE]
                                           ELSE [WithCurrent(p, f) EXCEPT !.transition = FALSE]
  BY DEF openInputWait, f
<1>4. Sound(openInputWait(p, w)) /\ current(openInputWait(p, w)) = f
  BY <1>2, <1>3 DEF Sound, HasExit, Projection, IsStaged, current
<1> QED BY <1>4 DEF f

\* A closed wait disappears from the current frame, in a transition.
LEMMA CloseLemma ==
  ASSUME NEW p \in Projection, Sound(p)
  PROVE  /\ Sound(closeInputWait(p))
         /\ current(closeInputWait(p)) = [current(p) EXCEPT !.wait = None]
<1> DEFINE b == beginInputTransition(p)
           f == [current(b) EXCEPT !.wait = None]
<1>1. Sound(b) /\ b \in Projection /\ current(b) = current(p)
  BY BeginLemma DEF Sound
<1>2. f \in Frame /\ f.redraw = current(b).redraw
  BY <1>1, CurrentLemma DEF Frame
<1>3. closeInputWait(p) = WithCurrent(b, f)
  BY DEF closeInputWait
<1> HIDE DEF b, f
<1>4. WithCurrent(b, f) \in Projection /\ current(WithCurrent(b, f)) = f
  BY <1>1, <1>2, WithCurrentLemma
<1>5. HasExit(WithCurrent(b, f))
  BY <1>1, <1>2 DEF Sound, HasExit, WithCurrent, Projection, IsStaged, current
<1> QED BY <1>1, <1>3, <1>4, <1>5 DEF Sound, f

\* A delta's last switch is one it carries.
LEMMA LastLemma ==
  ASSUME NEW S, NEW s \in Seq(S), NEW x
  PROVE  /\ s = <<>> => LastOr(s, x) = x
         /\ s # <<>> => LastOr(s, x) \in Values(s) /\ LastOr(s, x) \in S
         /\ s = <<>> => Values(s) = {}
<1>1. CASE s = <<>>
  BY <1>1 DEF LastOr, Values
<1>2. CASE s # <<>>
  <2>1. Len(s) \in DOMAIN s /\ s[Len(s)] \in S
    BY <1>2
  <2>2. LastOr(s, x) = s[Len(s)]
    BY <1>2 DEF LastOr
  <2> QED BY <1>2, <2>1, <2>2 DEF Values
<1> QED BY <1>1, <1>2

\* A delta turns a frame into a frame.
LEMMA ApplyLemma ==
  ASSUME NEW f \in Frame, NEW d \in Delta
  PROVE  applyDelta(f, d) \in Frame
<1>1. d.waits \in Seq(Waits \cup {None}) /\ d.redraws \in Seq(BOOLEAN) /\ d.new \in Nat
  BY DEF Delta
<1>2. LastOr(d.waits, f.wait) \in Waits \cup {None}
  BY <1>1, LastLemma DEF Frame
<1>3. LastOr(d.redraws, f.redraw) \in BOOLEAN
  BY <1>1, LastLemma DEF Frame
<1> QED BY <1>1, <1>2, <1>3 DEF applyDelta, Frame

\* A delta that applies becomes part of the current frame, and what was staged stays so;
\* any other leaves nothing staged.
LEMMA DeltaLemma ==
  ASSUME NEW p \in Projection, Sound(p), NEW d \in Delta
  PROVE  /\ Sound(projectDelta(p, d))
         /\ Applies(p, d) => /\ current(projectDelta(p, d)) = applyDelta(current(p), d)
                             /\ IsStaged(p) => IsStaged(projectDelta(p, d))
<1> DEFINE closing == IF closesInputWait(d) THEN beginInputTransition(p) ELSE p
           target == IF shouldStage(closing, d) THEN stage(closing) ELSE closing
           frame == applyDelta(current(target), d)
           quiet == disablesRedraw(d) \/ ~frame.redraw
           flush == ~quiet /\ (startsTransientReplacement(p, d) \/ target.flush)
           ready == target.ready \/ becomesReady(target, d)
<1>1. Sound(closing) /\ closing \in Projection /\ current(closing) = current(p)
  BY BeginLemma DEF Sound
<1>2. IsStaged(p) => IsStaged(closing)
  BY DEF beginInputTransition, stage, IsStaged
<1>3. closing.visible = p.visible
  BY DEF beginInputTransition, stage, Projection
<1>4. target \in Projection /\ current(target) = current(p)
  BY <1>1, StageLemma
<1>5. IsStaged(closing) => target = closing
  BY DEF stage
<1>6. frame \in Frame
  BY <1>4, CurrentLemma, ApplyLemma
<1>7. projectDelta(p, d) = CASE ~Applies(target, d) -> discard(target)
        [] Applies(target, d) /\ ~IsStaged(target) -> [target EXCEPT !.visible = frame]
        [] Applies(target, d) /\ IsStaged(target) ->
             [target EXCEPT !.staged = frame, !.flush = flush, !.ready = ready]
  BY DEF projectDelta
<1>8. Applies(target, d) <=> Applies(p, d)
  BY <1>4 DEF Applies
<1> DEFINE next == projectDelta(p, d)
<1> HIDE DEF closing, frame
<1>9. CASE ~Applies(target, d)
  <2>1. next = discard(target)
    BY <1>7, <1>9
  <2> QED BY <1>4, <1>8, <1>9, <2>1, DiscardLemma
<1>10. CASE Applies(target, d) /\ ~IsStaged(target)
  <2>1. next = [target EXCEPT !.visible = frame]
    BY <1>7, <1>10
  <2>2. Sound(next) /\ current(next) = frame
    BY <1>4, <1>6, <1>10, <2>1 DEF Sound, HasExit, Projection, IsStaged, current
  <2>3. ~IsStaged(p)
    BY <1>2, <1>5, <1>10
  <2> QED BY <1>4, <2>2, <2>3 DEF frame
<1>11. CASE Applies(target, d) /\ IsStaged(target)
  <2>1. next = [target EXCEPT !.staged = frame, !.flush = flush, !.ready = ready]
    BY <1>7, <1>11
  <2>2. flush \in BOOLEAN /\ ready \in BOOLEAN
    BY <1>4 DEF Projection, becomesReady, opensInputWait, completesFrame
  <2>3. ready \/ flush \/ target.transition \/ ~frame.redraw
    <3>1. SUFFICES ASSUME frame.redraw, ~target.transition, ~ready PROVE flush
      BY <1>6 DEF Frame
    <3>2. ~completesFrame(d) /\ ~target.ready
      BY <3>1 DEF becomesReady
    <3>3. frame.redraw = LastOr(d.redraws, current(target).redraw)
      BY DEF frame, applyDelta
    <3>4. d.redraws \in Seq(BOOLEAN)
      BY DEF Delta
    <3>5. d.redraws = <<>>
      <4>1. d.redraws # <<>> => frame.redraw \in Values(d.redraws)
        BY <3>3, <3>4, LastLemma
      <4>2. frame.redraw = TRUE
        BY <3>1, <1>6 DEF Frame
      <4> QED BY <3>2, <4>1, <4>2 DEF completesFrame
    <3>6. ~disablesRedraw(d)
      BY <3>4, <3>5, LastLemma DEF disablesRedraw
    <3>7. ~quiet
      BY <3>1, <3>6
    <3>8. current(target).redraw
      BY <3>1, <3>3, <3>4, <3>5, LastLemma
    <3>9. CASE IsStaged(closing)
      <4>1. target = closing
        BY <1>5, <3>9
      <4>2. target.flush
        BY <1>1, <1>11, <3>1, <3>2, <3>8, <4>1 DEF Sound, HasExit, current
      <4> QED BY <3>7, <4>2
    <3>10. CASE ~IsStaged(closing)
      <4>1. shouldStage(closing, d)
        BY <1>11, <3>10
      <4>2. target = stage(closing)
        BY <4>1
      <4>3. ~closing.transition
        BY <1>1, <3>1, <4>2, StageLemma
      <4>4. current(closing) = closing.visible
        BY <3>10 DEF current
      <4>5. closing.visible.redraw
        BY <1>1, <1>4, <3>8, <4>4
      <4>6. startsTransientReplacement(closing, d)
        BY <3>6, <3>10, <4>1, <4>3, <4>5 DEF shouldStage
      <4>7. startsTransientReplacement(p, d)
        BY <1>3, <4>6 DEF startsTransientReplacement
      <4> QED BY <3>7, <4>7
    <3> QED BY <3>9, <3>10
  <2> HIDE DEF flush, ready
  <2>4. Sound(next) /\ current(next) = frame /\ IsStaged(next)
    BY <1>4, <1>6, <1>11, <2>1, <2>2, <2>3, NoneAssumption
    DEF Sound, HasExit, Projection, IsStaged, current
  <2> QED BY <1>4, <2>4 DEF frame
<1> QED BY <1>9, <1>10, <1>11

---------------------------------------------------------------------------
(* The invariant: sound projection, runtime's frame, and the relation of the two. *)

Tracks(f) ==
  f.rev = canon.rev /\ f.redraw = canon.redraw /\ (owed = "none" => f.wait = canon.wait)

ProjectionInv == Sound(proj) /\ canon \in Frame /\ (~lost => Tracks(current(proj)))

\* The initial projection shows the empty frame the runtime starts with.
LEMMA InitLemma ==
  ASSUME Init
  PROVE  ProjectionInv
<1>1. proj = initial /\ canon = emptyPresentation
  BY DEF Init
<1>2. emptyPresentation \in Frame
  BY DEF emptyPresentation, Frame
<1> QED BY <1>1, <1>2, NoneAssumption
    DEF initial, ProjectionInv, Sound, HasExit, Projection, IsStaged, current, Tracks

\* Handlers that only stage or publish keep the invariant.
LEMMA KeepsLemma ==
  ASSUME ProjectionInv, UNCHANGED <<canon, owed, lost>>,
         \/ proj' = proj \/ proj' = beginInputTransition(proj)
         \/ proj' = publish(proj) \/ proj' = publishForObservationBarrier(proj)
  PROVE  ProjectionInv'
<1>1. Sound(proj) /\ proj \in Projection
  BY DEF ProjectionInv, Sound
<1>2. Sound(proj') /\ current(proj') = current(proj)
  BY <1>1, BeginLemma, PublishLemma
<1>3. Sound(proj)' /\ current(proj)' = current(proj)
  BY <1>2 DEF Sound, HasExit, IsStaged, Projection, Frame, current
<1> QED BY <1>3 DEF ProjectionInv, Tracks

\* A cancelled transition falls back to the visible frame; when that is not the staged
\* one, the loss is recorded.
LEMMA CancelsLemma ==
  ASSUME ProjectionInv, Cancels, UNCHANGED <<canon, owed>>
  PROVE  ProjectionInv'
<1>1. Sound(proj) /\ proj \in Projection
  BY DEF ProjectionInv, Sound
<1>2. CASE ~proj.transition
  <2>1. proj' = proj
    BY <1>2 DEF Cancels, Discards, cancelInputTransition
  <2>2. ~lost' => ~lost
    BY DEF Cancels, Discards
  <2> QED BY <2>1, <2>2 DEF ProjectionInv, Sound, HasExit, IsStaged, current, Tracks
<1>3. CASE proj.transition
  <2>1. proj' = discard(proj)
    BY <1>3 DEF Cancels, Discards, cancelInputTransition
  <2>2. Sound(proj') /\ current(proj') = proj.visible /\ ~IsStaged(proj')
    BY <1>1, <2>1, DiscardLemma
  <2>3. ~lost' => ~lost /\ (IsStaged(proj) => proj.staged = proj.visible)
    BY <2>1, <2>2 DEF Cancels, Discards, cancelInputTransition, IsStaged, discard
  <2>4. ~lost' => current(proj') = current(proj)
    BY <2>2, <2>3 DEF current
  <2> QED BY <2>2, <2>3, <2>4 DEF ProjectionInv, Sound, HasExit, IsStaged, current, Tracks
<1> QED BY <1>2, <1>3

\* A wait_changed message puts its wait into the current frame.
LEMMA MessageLemma ==
  ASSUME ProjectionInv, NEW w \in Waits \cup {None}, ToldByMessage(w)
  PROVE  /\ Sound(proj')
         /\ current(proj') = [current(proj) EXCEPT !.wait = w]
         /\ lost' = lost
<1>1. Sound(proj) /\ proj \in Projection
  BY DEF ProjectionInv, Sound
<1>2. proj' = IF w = None THEN closeInputWait(proj) ELSE openInputWait(proj, w)
  BY DEF ToldByMessage, handleRuntimeWaitChanged
<1>3. CASE w = None
  BY <1>1, <1>2, <1>3, CloseLemma DEF ToldByMessage
<1>4. CASE w # None
  BY <1>1, <1>2, <1>4, OpenLemma DEF ToldByMessage
<1> QED BY <1>3, <1>4

\* A delta of the runtime applies to the frame of the store unless one was lost.
LEMMA DeltaStepLemma ==
  ASSUME ProjectionInv, NEW d \in Delta, d.base = canon.rev,
         handlePresentationDelta(d), canon' = applyDelta(canon, d)
  PROVE  /\ Sound(proj') /\ canon' \in Frame
         /\ ~lost' => /\ ~lost
                      /\ current(proj') = applyDelta(current(proj), d)
<1>1. Sound(proj) /\ proj \in Projection /\ canon \in Frame
  BY DEF ProjectionInv, Sound
<1>2. proj' = projectDelta(proj, d)
  BY DEF handlePresentationDelta, Discards
<1>3. Sound(proj') /\ canon' \in Frame
  BY <1>1, <1>2, DeltaLemma, ApplyLemma
<1>4. ~lost' => ~lost
  BY DEF handlePresentationDelta, Discards
<1>5. ASSUME ~lost PROVE Applies(proj, d)
  BY <1>5 DEF ProjectionInv, Tracks, Applies
<1>6. Applies(proj, d) => current(proj') = applyDelta(current(proj), d)
  BY <1>1, <1>2, DeltaLemma
<1> QED BY <1>3, <1>4, <1>5, <1>6

\* The deltas the runtime sends are deltas.
LEMMA DeltasLemma ==
  ASSUME canon \in Frame, NEW w \in Waits \cup {None}
  PROVE  /\ \A d \in Deltas({<<w>>}) : d \in Delta /\ d.base = canon.rev /\ d.waits = <<w>>
         /\ \A d \in Deltas({<<>>}) : d \in Delta /\ d.base = canon.rev /\ d.waits = <<>>
<1>1. canon.rev \in Nat /\ canon.rev + 1 \in Nat
  BY DEF Frame
<1>2. <<w>> \in Seq(Waits \cup {None}) /\ <<>> \in Seq(Waits \cup {None})
  OBVIOUS
<1>3. {<<>>, <<FALSE>>, <<TRUE>>, <<FALSE, TRUE>>} \subseteq Seq(BOOLEAN)
  <2>1. <<>> \in Seq(BOOLEAN)
    OBVIOUS
  <2>2. <<FALSE>> \in Seq(BOOLEAN)
    OBVIOUS
  <2>3. <<TRUE>> \in Seq(BOOLEAN)
    OBVIOUS
  <2>4. <<FALSE, TRUE>> \in Seq(BOOLEAN)
    OBVIOUS
  <2> QED BY <2>1, <2>2, <2>3, <2>4
<1> DEFINE R == {<<>>, <<FALSE>>, <<TRUE>>, <<FALSE, TRUE>>}
<1> HIDE DEF R
<1>4. R \subseteq Seq(BOOLEAN)
  BY <1>3 DEF R
<1>5. \A W : Deltas(W) = [base: {canon.rev}, new: {canon.rev + 1}, redraws: R, waits: W, erases: BOOLEAN]
  BY DEF Deltas, R
<1> QED BY <1>1, <1>2, <1>4, <1>5 DEF Delta

\* After the notice of a wait by message the store and the runtime show that wait.
LEMMA ToldByMessageLemma ==
  ASSUME ProjectionInv, NEW w \in Waits \cup {None}, ToldByMessage(w),
         canon' = [canon EXCEPT !.wait = w]
  PROVE  ProjectionInv'
<1>1. canon \in Frame /\ current(proj) \in Frame
  BY CurrentLemma DEF ProjectionInv, Sound
<1>2. canon' \in Frame
  BY <1>1 DEF Frame
<1>3. Sound(proj') /\ current(proj') = [current(proj) EXCEPT !.wait = w] /\ lost' = lost
  BY MessageLemma
<1>4. ~lost => current(proj').rev = canon'.rev /\ current(proj').redraw = canon'.redraw
  BY <1>1, <1>3 DEF ProjectionInv, Tracks, Frame
<1>5. current(proj').wait = canon'.wait
  BY <1>1, <1>3 DEF Frame
<1> QED BY <1>2, <1>3, <1>4, <1>5
    DEF ProjectionInv, Sound, HasExit, IsStaged, current, Tracks

\* The same for its notice by delta.
LEMMA ToldByDeltaLemma ==
  ASSUME ProjectionInv, NEW w \in Waits \cup {None}, ToldByDelta(w)
  PROVE  ProjectionInv'
<1>1. canon \in Frame
  BY DEF ProjectionInv
<1>2. PICK d \in Deltas({<<w>>}) :
        handlePresentationDelta(d) /\ canon' = applyDelta(canon, d)
  BY DEF ToldByDelta
<1>3. d \in Delta /\ d.base = canon.rev
  BY <1>1, <1>2, DeltasLemma
<1>4. /\ Sound(proj') /\ canon' \in Frame
      /\ ~lost' => ~lost /\ current(proj') = applyDelta(current(proj), d)
  BY <1>2, <1>3, DeltaStepLemma
<1>5. d.waits = <<w>>
  BY <1>1, <1>2, DeltasLemma
<1>6. ~lost' => /\ current(proj').rev = canon'.rev
                /\ current(proj').redraw = canon'.redraw
                /\ current(proj').wait = canon'.wait
  <2>1. SUFFICES ASSUME ~lost'
                 PROVE  /\ current(proj').rev = canon'.rev
                        /\ current(proj').redraw = canon'.redraw
                        /\ current(proj').wait = canon'.wait
    OBVIOUS
  <2>2. current(proj).redraw = canon.redraw
    BY <1>4, <2>1 DEF ProjectionInv, Tracks
  <2>3. \A x : LastOr(d.waits, x) = w
    BY <1>5 DEF LastOr
  <2> QED BY <1>2, <1>4, <2>1, <2>2, <2>3 DEF applyDelta
<1> QED BY <1>4, <1>6 DEF ProjectionInv, Sound, HasExit, IsStaged, current, Tracks

\* A change of the runtime's wait, with the first notice of it.
LEMMA WaitBecomesLemma ==
  ASSUME ProjectionInv, NEW w \in Waits \cup {None}, WaitBecomes(w)
  PROVE  ProjectionInv'
BY ToldByMessageLemma, ToldByDeltaLemma DEF WaitBecomes

\* The second notice of a change brings what the runtime has.
LEMMA SecondNoticeLemma ==
  ASSUME ProjectionInv, SecondNotice
  PROVE  ProjectionInv'
<1>1. canon \in Frame /\ canon.wait \in Waits \cup {None}
  BY DEF ProjectionInv, Frame
<1>2. CASE ToldByMessage(canon.wait) /\ UNCHANGED canon
  <2>1. canon' = [canon EXCEPT !.wait = canon.wait]
    BY <1>1, <1>2 DEF Frame
  <2> QED BY <1>1, <1>2, <2>1, ToldByMessageLemma
<1>3. CASE ToldByDelta(canon.wait)
  BY <1>1, <1>3, ToldByDeltaLemma
<1> QED BY <1>2, <1>3 DEF SecondNotice

\* A revision of the frame alone.
LEMMA DrawsLemma ==
  ASSUME ProjectionInv, Draws
  PROVE  ProjectionInv'
<1>1. canon \in Frame
  BY DEF ProjectionInv
<1>2. PICK d \in Deltas({<<>>}) :
        handlePresentationDelta(d) /\ canon' = applyDelta(canon, d)
  BY DEF Draws
<1>3. d \in Delta /\ d.base = canon.rev
  BY <1>1, <1>2, DeltasLemma
<1>4. /\ Sound(proj') /\ canon' \in Frame
      /\ ~lost' => ~lost /\ current(proj') = applyDelta(current(proj), d)
  BY <1>2, <1>3, DeltaStepLemma
<1>5. owed' = owed
  BY DEF Draws
<1>6. ASSUME ~lost' PROVE Tracks(current(proj))'
  <2>1. Tracks(current(proj)) /\ current(proj') = applyDelta(current(proj), d)
    BY <1>4, <1>6 DEF ProjectionInv
  <2>2. current(proj).redraw = canon.redraw /\ (owed = "none" => current(proj).wait = canon.wait)
    BY <2>1 DEF Tracks
  <2>3. /\ current(proj').rev = canon'.rev
        /\ current(proj').redraw = canon'.redraw
        /\ owed' = "none" => current(proj').wait = canon'.wait
    BY <1>2, <1>5, <2>1, <2>2 DEF applyDelta
  <2> QED BY <2>3 DEF Tracks, current, IsStaged
<1> QED BY <1>4, <1>6 DEF ProjectionInv, Sound, HasExit, IsStaged

\* A snapshot replaces the frame and ends a loss.
LEMMA SnapshotsLemma ==
  ASSUME ProjectionInv, Snapshots
  PROVE  ProjectionInv'
<1>1. canon \in Frame /\ proj \in Projection
  BY DEF ProjectionInv, Sound
<1>2. canon' \in Frame
  <2>1. CASE UNCHANGED canon
    BY <1>1, <2>1
  <2>2. ASSUME NEW redraw \in BOOLEAN,
               canon' = [canon EXCEPT !.rev = canon.rev + 1, !.redraw = redraw]
        PROVE  canon' \in Frame
    <3>1. canon.rev + 1 \in Nat /\ canon.wait \in Waits \cup {None}
      BY <1>1 DEF Frame
    <3>2. canon' = [rev |-> canon.rev + 1, wait |-> canon.wait, redraw |-> redraw]
      BY <1>1, <2>2, Zenon DEF Frame
    <3> QED BY <3>1, <3>2 DEF Frame
  <2> QED BY <2>1, <2>2 DEF Snapshots
<1>3. proj' = projectSnapshot(proj, canon')
  BY DEF Snapshots
<1>4. Sound(proj') /\ current(proj') = canon'
  BY <1>1, <1>2, <1>3, SnapshotLemma
<1> QED BY <1>2, <1>4 DEF ProjectionInv, Sound, HasExit, IsStaged, current, Tracks

---------------------------------------------------------------------------
(* The theorems. *)

\* Every step of the store, the bridge and the runtime keeps the invariant.
LEMMA StepLemma ==
  ASSUME ProjectionInv, [Next]_vars
  PROVE  ProjectionInv'
<1>1. CASE Answer
  BY <1>1, KeepsLemma DEF Answer, submit, runtime, history
<1>2. CASE requestMessageSkip
  BY <1>2, KeepsLemma DEF requestMessageSkip, submit, runtime, history
<1>3. CASE SkipSignalled
  BY <1>3, KeepsLemma DEF SkipSignalled, SettleSkip, Refused, submit, runtime, history
<1>4. ASSUME NEW s \in sends, BridgeAccepts(s) \/ Acknowledged(s)
      PROVE  ProjectionInv'
  BY <1>4, KeepsLemma DEF BridgeAccepts, Acknowledged, runtime, store, history
<1>5. ASSUME NEW s \in sends, SendFails(s) PROVE ProjectionInv'
  BY <1>5, CancelsLemma DEF SendFails, runtime
<1>6. CASE PumpReturns
  BY <1>6, KeepsLemma DEF PumpReturns, runtime, store, history
<1>7. CASE SecondNotice
  BY <1>7, SecondNoticeLemma
<1>8. CASE Opens
  <2>1. opened + 1 \in Waits \cup {None} /\ WaitBecomes(opened + 1)
    BY <1>8 DEF Opens
  <2> QED BY <2>1, WaitBecomesLemma
<1>9. CASE TimesOut \/ \E m \in inbox : Takes(m)
  <2>1. WaitBecomes(None)
    BY <1>9 DEF TimesOut, Takes, Closes
  <2> QED BY <2>1, WaitBecomesLemma
<1>10. CASE Draws
  BY <1>10, DrawsLemma
<1>11. CASE Snapshots
  BY <1>11, SnapshotsLemma
<1>12. ASSUME NEW m \in inbox, Rejects(m) PROVE ProjectionInv'
  <2>1. canon' = canon /\ owed' = owed
    BY <1>12 DEF Rejects, runtime
  <2>2. CASE proj' = proj /\ lost' = lost
    BY <2>1, <2>2, KeepsLemma
  <2>3. CASE Cancels
    BY <2>1, <2>3, CancelsLemma
  <2> QED BY <1>12, <2>2, <2>3 DEF Rejects
<1>13. CASE Observes
  BY <1>13, KeepsLemma DEF Observes, runtime, history
<1>14. ASSUME NEW state \in {"idle", "more_work", "stopped"}, BatchEnds(state)
       PROVE  ProjectionInv'
  <2>1. proj' = proj \/ proj' = publish(proj)
    BY <1>14 DEF BatchEnds
  <2>2. UNCHANGED <<canon, owed, lost>>
    BY <1>14 DEF BatchEnds, history
  <2> QED BY <2>1, <2>2, KeepsLemma
<1>15. CASE settle
  <2>1. UNCHANGED <<canon, owed, lost>>
    BY <1>15 DEF settle, runtime, history
  <2>2. proj' = proj \/ proj' = beginInputTransition(proj)
    <3>1. SettlePending => proj' = proj \/ proj' = beginInputTransition(proj)
      BY DEF SettlePending, Forgets, Keeps, Resends
    <3>2. SettleSkip("skip") => proj' = proj \/ proj' = beginInputTransition(proj)
      BY DEF SettleSkip, submit
    <3> QED BY <1>15, <3>1, <3>2 DEF settle
  <2> QED BY <2>1, <2>2, KeepsLemma
<1>16. CASE UNCHANGED vars
  BY <1>16, KeepsLemma DEF vars, runtime, store, history
<1> QED BY <1>1, <1>2, <1>3, <1>4, <1>5, <1>6, <1>7, <1>8, <1>9, <1>10, <1>11, <1>12, <1>13,
          <1>14, <1>15, <1>16 DEF Next, Player, Bridge, Events

\* The invariant holds of every state of the specification.
LEMMA ProjectionInvariant == Spec => []ProjectionInv
<1>1. Init => ProjectionInv
  BY InitLemma
<1>2. ProjectionInv /\ [Next]_vars => ProjectionInv'
  BY StepLemma
<1> QED BY <1>1, <1>2, PTL DEF Spec

\* No staged frame is ever left without a way to the screen: publishing for an observation,
\* cancelling, closing, a delta or a snapshot never strands it.
THEOREM NeverStranded == Spec => []NoStrandedFrame
<1>1. ProjectionInv => NoStrandedFrame
  BY DEF ProjectionInv, Sound, NoStrandedFrame
<1> QED BY <1>1, ProjectionInvariant, PTL

\* The frame the store works on is the runtime's: staging, publishing and the two notices of
\* a wait lose nothing; only a discarded staged frame does, until the next snapshot.
THEOREM StoreFollowsRuntime == Spec => []CurrentIsCanonical
<1>1. ProjectionInv => CurrentIsCanonical
  BY DEF ProjectionInv, CurrentIsCanonical, Tracks
<1> QED BY <1>1, ProjectionInvariant, PTL

\* While nothing was lost, every delta the runtime sends finds the revision it is based on.
THEOREM DeltasApply ==
  Spec => [](~lost => \A w \in Waits \cup {None} : \A d \in Deltas({<<>>, <<w>>}) : Applies(proj, d))
<1>1. ASSUME ProjectionInv, ~lost, NEW w \in Waits \cup {None}, NEW d \in Deltas({<<>>, <<w>>})
      PROVE  Applies(proj, d)
  BY <1>1 DEF ProjectionInv, Tracks, Applies, Deltas
<1>2. ProjectionInv =>
        (~lost => \A w \in Waits \cup {None} : \A d \in Deltas({<<>>, <<w>>}) : Applies(proj, d))
  BY <1>1
<1> QED BY <1>2, ProjectionInvariant, PTL

-----------------------------------------------------------------------------
(***************************************************************************)
(* What single steps of RuntimeInput do, for every number of waits, presses *)
(* and revisions.                                                          *)
(*                                                                         *)
(* The transition of an input is shown whole.  A staged frame is ready for *)
(* the screen only within the batch that made it so, where a new wait has  *)
(* come or the runtime does not wait at all (Timely).  Such a wait is not  *)
(* closed in its batch; so a close never finds a frame that is ready and   *)
(* asks for input, and a ready frame of a transition asks for input (Apt). *)
(*                                                                         *)
(* An intent is taken once.  What the runtime may still take of an intent  *)
(* is one copy, and none when it was taken or is to be sent again (Once).  *)
(* This rests on the store giving an answer to the input it belongs to,    *)
(* though a first submission is matched by its wait alone: while such a    *)
(* submission is awaited, the pending input that has its wait is its own   *)
(* and has no number yet (Matched); waits are opened in their order, and a *)
(* wait of the runtime that is shown is not replaced by a staged one       *)
(* (Opened, Ahead).                                                        *)
(***************************************************************************)

\* A ready frame of a transition asks for input, and a transition in which nothing is staged
\* shows no wait.
Apt(p) ==
  /\ p.ready => IsStaged(p) /\ (p.transition => p.staged.wait # None)
  /\ p.transition /\ ~IsStaged(p) => p.visible.wait = None

\* No frame is ready that asks for input.
NothingToClose(p) == p.ready => current(p).wait = None

---------------------------------------------------------------------------
(* The operations of the projection. *)

\* A transition makes nothing ready and shows nothing.
LEMMA BeginIsApt ==
  ASSUME NEW p \in Projection, Apt(p)
  PROVE  /\ Apt(beginInputTransition(p))
         /\ beginInputTransition(p).ready => p.ready
         /\ beginInputTransition(p).visible = p.visible
         /\ p.transition => beginInputTransition(p).transition
<1>1. CASE current(p).wait = None
  BY <1>1 DEF beginInputTransition
<1>2. CASE current(p).wait # None
  <2>1. beginInputTransition(p) = [stage(p) EXCEPT !.flush = TRUE, !.transition = TRUE]
    BY <1>2 DEF beginInputTransition
  <2>2. /\ stage(p) \in Projection /\ IsStaged(stage(p))
        /\ current(stage(p)).wait # None
    BY <1>2, StageLemma
  <2>3. (stage(p).ready => p.ready) /\ stage(p).visible = p.visible
    BY DEF stage, Projection
  <2> QED BY <2>1, <2>2, <2>3 DEF Apt, Projection, IsStaged, current
<1> QED BY <1>1, <1>2

\* What is published or discarded leaves nothing ready.
LEMMA EndsAreApt ==
  ASSUME NEW p \in Projection, Apt(p)
  PROVE  /\ Apt(publish(p)) /\ ~publish(p).ready
         /\ Apt(publishForObservationBarrier(p)) /\ ~publishForObservationBarrier(p).ready
         /\ Apt(discard(p)) /\ ~discard(p).ready /\ discard(p).visible = p.visible
BY NoneAssumption
   DEF publish, publishForObservationBarrier, discard, initial, Apt, Projection, IsStaged

\* Nor does a snapshot.
LEMMA SnapshotIsApt ==
  ASSUME NEW p \in Projection, NEW f \in Frame
  PROVE  Apt(projectSnapshot(p, f)) /\ ~projectSnapshot(p, f).ready
BY NoneAssumption DEF projectSnapshot, initial, Apt, Projection, Frame, IsStaged

\* A wait that opens is shown, or makes the staged frame ready.
LEMMA OpenIsApt ==
  ASSUME NEW p \in Projection, Apt(p), NEW w \in Waits
  PROVE  /\ Apt(openInputWait(p, w))
         /\ openInputWait(p, w).visible = p.visible \/ openInputWait(p, w).visible.wait # None
<1> DEFINE f == [current(p) EXCEPT !.wait = w]
<1>1. f \in Frame /\ f.wait = w /\ w # None /\ f # None
  BY CurrentLemma, NoneAssumption DEF Frame
<1>2. openInputWait(p, w) = IF IsStaged(p) THEN [[p EXCEPT !.staged = f] EXCEPT !.ready = TRUE]
                                           ELSE [[p EXCEPT !.visible = f] EXCEPT !.transition = FALSE]
  BY DEF openInputWait, WithCurrent
<1> HIDE DEF f
<1> QED BY <1>1, <1>2 DEF Apt, Projection, IsStaged

\* A wait that closes is taken from a frame that is not ready.
LEMMA CloseIsApt ==
  ASSUME NEW p \in Projection, Apt(p), NothingToClose(p)
  PROVE  /\ Apt(closeInputWait(p)) /\ NothingToClose(closeInputWait(p))
         /\ closeInputWait(p).ready => p.ready
         /\ p.transition => closeInputWait(p).visible = p.visible
<1> DEFINE f == [current(p) EXCEPT !.wait = None]
<1>1. current(p) \in Frame /\ f \in Frame /\ f.wait = None /\ f # None
  BY CurrentLemma, NoneAssumption DEF Frame
<1>2. CASE current(p).wait = None
  <2>1. beginInputTransition(p) = p
    BY <1>2 DEF beginInputTransition
  <2>2. f = current(p)
    BY <1>1, <1>2 DEF Frame
  <2>3. WithCurrent(p, current(p)) = p
    BY DEF WithCurrent, current, IsStaged, Projection
  <2>4. closeInputWait(p) = p
    BY <2>1, <2>2, <2>3 DEF closeInputWait
  <2> QED BY <2>4
<1>3. CASE current(p).wait # None
  <2>1. ~p.ready
    BY <1>3 DEF NothingToClose
  <2>2. beginInputTransition(p) = [stage(p) EXCEPT !.flush = TRUE, !.transition = TRUE]
    BY <1>3 DEF beginInputTransition
  <2>3. stage(p) \in Projection /\ IsStaged(stage(p)) /\ current(stage(p)) = current(p)
        /\ stage(p).visible = p.visible /\ ~stage(p).ready
    BY <2>1, StageLemma DEF stage, Projection
  <2>4. closeInputWait(p) = [stage(p) EXCEPT !.flush = TRUE, !.transition = TRUE, !.staged = f]
    BY <2>2, <2>3 DEF closeInputWait, WithCurrent, current, IsStaged, Projection
  <2> HIDE DEF f
  <2> QED BY <1>1, <2>3, <2>4 DEF Apt, NothingToClose, Projection, IsStaged
<1> QED BY <1>2, <1>3

\* What a delta does.  A new wait makes the staged frame ready, a redraw boundary only
\* outside a transition; and what a transition shows does not change.
LEMMA DeltaIsApt ==
  ASSUME NEW p \in Projection, Apt(p), NEW d \in Delta,
         \/ d.waits = <<>>
         \/ d.waits = <<None>> /\ NothingToClose(p)
         \/ \E w \in Waits : d.waits = <<w>>
  PROVE  /\ Apt(projectDelta(p, d))
         /\ p.transition => projectDelta(p, d).visible = p.visible
         /\ d.waits = <<>> /\ projectDelta(p, d).ready => p.ready \/ d.redraws # <<>>
         /\ d.waits = <<None>> => NothingToClose(projectDelta(p, d))
<1> DEFINE closing == IF closesInputWait(d) THEN beginInputTransition(p) ELSE p
           target == IF shouldStage(closing, d) THEN stage(closing) ELSE closing
           frame == applyDelta(current(target), d)
           quiet == disablesRedraw(d) \/ ~frame.redraw
           flush == ~quiet /\ (startsTransientReplacement(p, d) \/ target.flush)
           ready == target.ready \/ becomesReady(target, d)
           next == projectDelta(p, d)
<1>1. /\ closing \in Projection /\ Apt(closing)
      /\ closing.visible = p.visible /\ (closing.ready => p.ready)
      /\ p.transition => closing.transition
  <2>1. beginInputTransition(p) \in Projection
    BY StageLemma DEF beginInputTransition, Projection
  <2> QED BY <2>1, BeginIsApt
<1>2. closesInputWait(d) <=> d.waits = <<None>>
  BY NoneAssumption DEF closesInputWait, Values
<1>3. opensInputWait(d) <=> \E w \in Waits : d.waits = <<w>>
  BY NoneAssumption DEF opensInputWait, Values
<1>4. next = CASE ~Applies(target, d) -> discard(target)
        [] Applies(target, d) /\ ~IsStaged(target) -> [target EXCEPT !.visible = frame]
        [] Applies(target, d) /\ IsStaged(target) ->
             [target EXCEPT !.staged = frame, !.flush = flush, !.ready = ready]
  BY DEF projectDelta
<1>5. d.waits = <<None>> /\ p.ready => closing = p /\ ~p.transition
  <2>1. SUFFICES ASSUME d.waits = <<None>>, p.ready PROVE closing = p /\ ~p.transition
    OBVIOUS
  <2>2. NothingToClose(p)
    BY <2>1, NoneAssumption
  <2>3. current(p).wait = None /\ current(p) = p.staged
    BY <2>1, <2>2 DEF NothingToClose, Apt, current
  <2> QED BY <2>1, <2>3 DEF beginInputTransition, Apt
<1> HIDE DEF closing
<1>6. /\ target \in Projection /\ Apt(target)
      /\ target.visible = p.visible /\ (target.ready => p.ready)
      /\ target.transition = closing.transition
      /\ closing.transition => IsStaged(target)
  <2>1. /\ stage(closing) \in Projection /\ IsStaged(stage(closing))
        /\ stage(closing).transition = closing.transition
    BY <1>1, StageLemma
  <2>2. /\ stage(closing).visible = closing.visible
        /\ stage(closing).ready => closing.ready
        /\ Apt(stage(closing))
    BY <1>1 DEF stage, Apt, Projection, IsStaged
  <2>3. closing.transition => shouldStage(closing, d)
    BY DEF shouldStage
  <2> QED BY <1>1, <2>1, <2>2, <2>3
<1>7. d.waits = <<None>> /\ target.ready => ~target.transition
  BY <1>5, <1>6
<1> HIDE DEF target
<1>8. frame \in Frame /\ frame # None
  BY <1>6, CurrentLemma, ApplyLemma, NoneAssumption
<1>9. /\ d.waits = <<>> => frame.wait = current(target).wait
      /\ \A x \in Waits \cup {None} : d.waits = <<x>> => frame.wait = x
  BY DEF applyDelta, LastOr
<1> HIDE DEF frame, quiet, flush
<1>10. CASE ~Applies(target, d)
  <2>1. next = discard(target)
    BY <1>4, <1>10
  <2> HIDE DEF next
  <2> QED BY <1>6, <2>1, EndsAreApt DEF NothingToClose, next
<1>11. CASE Applies(target, d) /\ ~IsStaged(target)
  <2>1. next = [target EXCEPT !.visible = frame]
    BY <1>4, <1>11
  <2>2. ~target.ready /\ ~target.transition
    BY <1>6, <1>11 DEF Apt
  <2> HIDE DEF next
  <2>3. ~next.ready /\ ~next.transition
    BY <1>6, <2>1, <2>2 DEF Projection
  <2> QED BY <1>1, <1>6, <2>2, <2>3 DEF Apt, NothingToClose, next
<1>12. CASE Applies(target, d) /\ IsStaged(target)
  <2>1. next = [target EXCEPT !.staged = frame, !.flush = flush, !.ready = ready]
    BY <1>4, <1>12
  <2> HIDE DEF next
  <2>2. /\ next.staged = frame /\ next.ready = ready /\ IsStaged(next) /\ current(next) = frame
        /\ next.transition = target.transition /\ next.visible = p.visible
    BY <1>6, <1>8, <2>1 DEF Projection, IsStaged, current
  <2>3. ready /\ target.transition => opensInputWait(d) \/ target.ready
    BY DEF becomesReady
  <2>4. ASSUME next.ready, next.transition PROVE frame.wait # None
    <3>1. CASE opensInputWait(d)
      BY <1>3, <1>9, <3>1, NoneAssumption
    <3>2. CASE ~opensInputWait(d)
      <4>1. target.ready /\ target.transition
        BY <2>2, <2>3, <2>4, <3>2
      <4>2. d.waits = <<>>
        BY <1>3, <1>7, <3>2, <4>1
      <4>3. current(target).wait # None
        BY <1>6, <4>1 DEF Apt, current
      <4> QED BY <1>9, <4>2, <4>3
    <3> QED BY <3>1, <3>2
  <2>5. Apt(next)
    BY <2>2, <2>4 DEF Apt
  <2>6. d.waits = <<>> /\ ready => p.ready \/ d.redraws # <<>>
    <3>1. d.redraws = <<>> => TRUE \notin Values(d.redraws)
      BY DEF Values
    <3>2. d.waits = <<>> => ~opensInputWait(d)
      BY <1>3
    <3> QED BY <1>6, <3>1, <3>2 DEF becomesReady, completesFrame
  <2>7. d.waits = <<None>> => NothingToClose(next)
    BY <1>9, <2>2 DEF NothingToClose
  <2> QED BY <2>2, <2>5, <2>6, <2>7 DEF next
<1> QED BY <1>10, <1>11, <1>12

---------------------------------------------------------------------------
(* The invariant. *)

\* A batch in which a wait has come, or the runtime does not wait.
InBatch == pump = "handling" /\ (newest \/ canon.wait = None)

\* When a frame is ready; and between the two notices of a closed wait there is nothing to close.
Timely ==
  /\ proj.ready \/ owed # "none" => InBatch
  /\ owed # "none" /\ canon.wait = None => NothingToClose(proj)

\* The batch awaits the one submission of its own, and handles nothing meanwhile.
Held(s) == s.by \in {"settle", "skip"}
Awaited ==
  /\ \A s \in sends : DOMAIN s = {"no", "of", "wait", "skip", "by", "accepted"}
  /\ \A s \in sends : Held(s) => pump = "resending"
  /\ \A s, t \in sends : Held(s) /\ Held(t) => s = t

TransitionInv == ProjectionInv /\ Apt(proj) /\ Timely /\ Awaited

\* What a step shows of a transition.
Shows == proj.transition => proj'.visible = proj.visible \/ proj'.visible.wait # None

\* Nothing is staged at the start.
LEMMA TransitionInit == Init => TransitionInv
<1> SUFFICES ASSUME Init PROVE TransitionInv
  OBVIOUS
<1>1. ProjectionInv
  BY InitLemma
<1>2. Apt(proj) /\ Timely /\ Awaited
  BY NoneAssumption DEF Init, initial, emptyPresentation, Apt, Timely, NothingToClose, Awaited
<1> QED BY <1>1, <1>2 DEF TransitionInv

\* Of the invariant, what is about the projection.
LEMMA Primed ==
  ASSUME Apt(proj'), proj'.ready \/ owed' # "none" => InBatch',
         owed' # "none" /\ canon'.wait = None => NothingToClose(proj')
  PROVE  Apt(proj)' /\ Timely'
BY DEF Apt, Timely, NothingToClose, current, IsStaged

\* An act of the player, an answer of the bridge, a rejection: none makes a frame ready.
LEMMA ActKeeps ==
  ASSUME TransitionInv, UNCHANGED <<canon, owed, newest>>, pump' = pump \/ pump # "handling",
         \/ proj' = proj \/ proj' = beginInputTransition(proj) \/ proj' = cancelInputTransition(proj)
  PROVE  Apt(proj)' /\ Timely' /\ Shows
<1>1. proj \in Projection /\ Apt(proj)
  BY DEF TransitionInv, ProjectionInv, Sound
<1>2. /\ Apt(proj') /\ proj'.visible = proj.visible
      /\ proj'.ready => proj.ready /\ current(proj') = current(proj)
  <2>1. CASE proj' = beginInputTransition(proj)
    BY <1>1, <2>1, BeginIsApt, BeginLemma DEF TransitionInv, ProjectionInv
  <2>2. CASE proj' = cancelInputTransition(proj)
    BY <1>1, <2>2, EndsAreApt DEF cancelInputTransition
  <2> QED BY <1>1, <2>1, <2>2
<1>3. proj'.ready \/ owed' # "none" => InBatch'
  BY <1>2 DEF TransitionInv, Timely, InBatch
<1>4. owed' # "none" /\ canon'.wait = None => NothingToClose(proj')
  BY <1>2 DEF TransitionInv, Timely, NothingToClose
<1> QED BY <1>2, <1>3, <1>4, Primed DEF Shows

\* The notices of a wait that opens.
LEMMA OpenKeeps ==
  ASSUME TransitionInv, NEW w \in Waits, ToldByMessage(w) \/ ToldByDelta(w),
         pump' = "handling", newest', canon'.wait = w
  PROVE  Apt(proj)' /\ Timely' /\ Shows
<1>1. proj \in Projection /\ Apt(proj) /\ canon \in Frame
  BY DEF TransitionInv, ProjectionInv, Sound
<1>2. Apt(proj') /\ Shows
  <2>1. CASE ToldByMessage(w)
    <3>1. proj' = openInputWait(proj, w)
      BY <2>1, NoneAssumption DEF ToldByMessage, handleRuntimeWaitChanged
    <3> QED BY <1>1, <3>1, OpenIsApt DEF Shows
  <2>2. CASE ToldByDelta(w)
    <3>1. PICK d \in Deltas({<<w>>}) : proj' = projectDelta(proj, d)
      BY <2>2 DEF ToldByDelta, handlePresentationDelta, Discards
    <3>2. d \in Delta /\ d.waits = <<w>>
      BY <1>1, DeltasLemma
    <3> QED BY <1>1, <3>1, <3>2, DeltaIsApt DEF Shows
  <2> QED BY <2>1, <2>2
<1>3. InBatch' /\ canon'.wait # None
  BY NoneAssumption DEF InBatch
<1> QED BY <1>2, <1>3, Primed

\* The notices of a wait that closes.
LEMMA CloseKeeps ==
  ASSUME TransitionInv, ToldByMessage(None) \/ ToldByDelta(None), NothingToClose(proj),
         pump' = "handling", canon'.wait = None
  PROVE  Apt(proj)' /\ Timely' /\ Shows
<1>1. proj \in Projection /\ Apt(proj) /\ canon \in Frame
  BY DEF TransitionInv, ProjectionInv, Sound
<1>2. Apt(proj') /\ NothingToClose(proj') /\ Shows
  <2>1. CASE ToldByMessage(None)
    <3>1. proj' = closeInputWait(proj)
      BY <2>1 DEF ToldByMessage, handleRuntimeWaitChanged
    <3> QED BY <1>1, <3>1, CloseIsApt DEF Shows
  <2>2. CASE ToldByDelta(None)
    <3>1. PICK d \in Deltas({<<None>>}) : proj' = projectDelta(proj, d)
      BY <2>2 DEF ToldByDelta, handlePresentationDelta, Discards
    <3>2. d \in Delta /\ d.waits = <<None>>
      BY <1>1, DeltasLemma
    <3> QED BY <1>1, <3>1, <3>2, DeltaIsApt DEF Shows
  <2> QED BY <2>1, <2>2
<1>3. InBatch'
  BY DEF InBatch
<1> QED BY <1>2, <1>3, Primed

\* The runtime's own wait follows the notice.
LEMMA NoticeFollows ==
  ASSUME ProjectionInv, NEW w \in Waits \cup {None}, WaitBecomes(w) \/ (SecondNotice /\ w = canon.wait)
  PROVE  canon'.wait = w /\ (ToldByMessage(w) \/ ToldByDelta(w))
<1>1. canon \in Frame
  BY DEF ProjectionInv
<1>2. ToldByDelta(w) => canon'.wait = w
  <2>1. SUFFICES ASSUME ToldByDelta(w) PROVE canon'.wait = w
    OBVIOUS
  <2>2. PICK d \in Deltas({<<w>>}) : canon' = applyDelta(canon, d)
    BY <2>1 DEF ToldByDelta
  <2>3. d.waits = <<w>>
    BY <1>1, DeltasLemma
  <2> QED BY <2>2, <2>3 DEF applyDelta, LastOr
<1>3. canon' = [canon EXCEPT !.wait = w] => canon'.wait = w
  BY <1>1 DEF Frame
<1> QED BY <1>2, <1>3 DEF WaitBecomes, SecondNotice

---------------------------------------------------------------------------
(* The steps. *)

\* The events of a batch.
LEMMA EventKeeps ==
  ASSUME TransitionInv, Events
  PROVE  Apt(proj)' /\ Timely' /\ (Snapshots \/ Shows)
<1>1. ProjectionInv /\ canon \in Frame /\ proj \in Projection /\ Apt(proj) /\ Timely
  BY DEF TransitionInv, ProjectionInv, Sound
<1>2. CASE SecondNotice
  <2>1. canon.wait \in Waits \cup {None} /\ pump' = "handling" /\ newest' = newest /\ owed # "none"
    BY <1>1, <1>2 DEF SecondNotice, Handling, Frame
  <2>2. canon'.wait = canon.wait /\ (ToldByMessage(canon.wait) \/ ToldByDelta(canon.wait))
    BY <1>1, <1>2, <2>1, NoticeFollows
  <2>3. CASE canon.wait = None
    BY <1>1, <2>1, <2>2, <2>3, CloseKeeps DEF Timely
  <2>4. CASE canon.wait # None
    <3>1. newest'
      BY <1>1, <2>1, <2>4 DEF Timely, InBatch
    <3> QED BY <2>1, <2>2, <2>4, <3>1, OpenKeeps
  <2> QED BY <2>3, <2>4
<1>3. CASE Opens
  <2>1. opened + 1 \in Waits /\ WaitBecomes(opened + 1) /\ newest' /\ pump' = "handling"
    BY <1>3 DEF Opens, Handling, WaitBecomes
  <2> QED BY <1>1, <2>1, NoticeFollows, OpenKeeps
<1>4. CASE TimesOut \/ \E m \in inbox : Takes(m)
  <2>1. WaitBecomes(None) /\ canon.wait # None /\ ~newest /\ pump' = "handling"
    BY <1>4 DEF TimesOut, Takes, Closes, Handling, WaitBecomes
  <2>2. NothingToClose(proj)
    BY <1>1, <2>1 DEF Timely, InBatch, NothingToClose
  <2> QED BY <1>1, <2>1, <2>2, NoticeFollows, CloseKeeps
<1>5. CASE Draws
  <2>1. PICK d \in Deltas({<<>>}) : /\ canon.wait # None => d.redraws = <<>>
                                    /\ proj' = projectDelta(proj, d) /\ canon' = applyDelta(canon, d)
    BY <1>5 DEF Draws, handlePresentationDelta, Discards
  <2>2. d \in Delta /\ d.waits = <<>>
    BY <1>1, DeltasLemma
  <2>3. Apt(proj') /\ Shows /\ (proj'.ready => proj.ready \/ d.redraws # <<>>)
    BY <1>1, <2>1, <2>2, DeltaIsApt DEF Shows
  <2>4. canon'.wait = canon.wait /\ owed' = "none" /\ pump' = "handling" /\ newest' = newest
    BY <1>5, <2>1, <2>2 DEF Draws, Handling, applyDelta, LastOr
  <2>5. proj'.ready => InBatch'
    BY <1>1, <2>1, <2>3, <2>4 DEF Timely, InBatch
  <2> QED BY <2>3, <2>4, <2>5, Primed
<1>6. CASE Snapshots
  <2>1. proj' = projectSnapshot(proj, canon') /\ owed' = "none"
    BY <1>6 DEF Snapshots
  <2>2. canon' \in Frame
    BY <1>1, <1>6, SnapshotsLemma DEF ProjectionInv
  <2> QED BY <1>1, <1>6, <2>1, <2>2, SnapshotIsApt, Primed
<1>7. ASSUME NEW m \in inbox, Rejects(m)
      PROVE  Apt(proj)' /\ Timely' /\ Shows
  <2>1. UNCHANGED <<canon, owed, newest, pump>>
    BY <1>7 DEF Rejects, runtime
  <2>2. proj' = proj \/ proj' = cancelInputTransition(proj)
    BY <1>7 DEF Rejects, Cancels, Discards
  <2> QED BY <2>1, <2>2, ActKeeps
<1> QED BY <1>2, <1>3, <1>4, <1>5, <1>6, <1>7 DEF Events

\* settle only begins transitions.
LEMMA SettleKeeps ==
  ASSUME TransitionInv, settle
  PROVE  Apt(proj)' /\ Timely' /\ Shows
<1>1. UNCHANGED <<canon, owed, newest>> /\ pump # "handling"
  BY DEF settle, runtime
<1>2. SettlePending => proj' = proj \/ proj' = beginInputTransition(proj)
  BY DEF SettlePending, Forgets, Keeps, Resends
<1>3. SettleSkip("skip") => proj' = proj \/ proj' = beginInputTransition(proj)
  BY DEF SettleSkip, submit
<1>4. proj' = proj \/ proj' = beginInputTransition(proj)
  BY <1>2, <1>3 DEF settle
<1> QED BY <1>1, <1>4, ActKeeps

\* Everything but observations, snapshots and a runtime that stops shows a transition whole.
LEMMA ShowsWhole ==
  ASSUME TransitionInv, [Next]_vars
  PROVE  /\ Apt(proj)' /\ Timely'
         /\ Shows \/ Observes \/ Snapshots \/ last' = "stopped"
<1>1. proj \in Projection /\ Apt(proj) /\ Timely /\ Awaited
  BY DEF TransitionInv, ProjectionInv, Sound
<1>2. CASE Player
  <2>1. UNCHANGED <<canon, owed, newest, pump>>
    BY <1>2 DEF Player, Answer, requestMessageSkip, SkipSignalled, runtime
  <2>2. proj' = proj \/ proj' = beginInputTransition(proj)
    BY <1>2 DEF Player, Answer, requestMessageSkip, SkipSignalled, SettleSkip, Refused, submit
  <2> QED BY <2>1, <2>2, ActKeeps
<1>3. CASE Bridge
  <2>1. PICK s \in sends : BridgeAccepts(s) \/ Acknowledged(s) \/ SendFails(s)
    BY <1>3 DEF Bridge
  <2>2. UNCHANGED <<canon, owed, newest>>
    BY <2>1 DEF BridgeAccepts, Acknowledged, SendFails, runtime
  <2>3. proj' = proj \/ proj' = cancelInputTransition(proj)
    BY <2>1 DEF BridgeAccepts, Acknowledged, SendFails, Cancels, Discards, store
  <2>4. pump' = pump \/ pump # "handling"
    BY <1>1, <2>1 DEF BridgeAccepts, Acknowledged, SendFails, AfterSend, Awaited, Held
  <2> QED BY <2>2, <2>3, <2>4, ActKeeps
<1>4. CASE PumpReturns
  <2>1. UNCHANGED <<canon, owed, newest, proj>> /\ pump # "handling"
    BY <1>4 DEF PumpReturns, runtime, store
  <2> QED BY <2>1, ActKeeps
<1>5. CASE Events
  BY <1>5, EventKeeps
<1>6. CASE Observes
  <2>1. Apt(proj') /\ ~proj'.ready
    BY <1>1, <1>6, EndsAreApt DEF Observes
  <2>2. UNCHANGED <<canon, owed, newest, pump>>
    BY <1>6 DEF Observes, runtime
  <2>3. owed' # "none" => InBatch'
    BY <1>1, <2>2 DEF Timely, InBatch
  <2> QED BY <1>6, <2>1, <2>3, Primed DEF NothingToClose
<1>7. ASSUME NEW state \in {"idle", "more_work", "stopped"}, BatchEnds(state)
      PROVE  Apt(proj)' /\ Timely' /\ (Shows \/ last' = "stopped")
  <2>1. owed' = "none" /\ last' = state
    BY <1>7 DEF BatchEnds
  <2>2. CASE shouldPublish(proj, state)
    <3>1. proj' = publish(proj)
      BY <1>7, <2>2 DEF BatchEnds
    <3>2. Apt(proj') /\ ~proj'.ready
      BY <1>1, <3>1, EndsAreApt
    <3>3. Shows \/ state = "stopped"
      BY <1>1, <2>2, <3>1 DEF shouldPublish, Shows, publish, initial, Apt, Projection
    <3> QED BY <2>1, <3>2, <3>3, Primed
  <2>3. CASE ~shouldPublish(proj, state)
    <3>1. proj' = proj /\ ~proj.ready
      BY <1>7, <2>3 DEF BatchEnds, shouldPublish
    <3> QED BY <1>1, <2>1, <3>1, Primed DEF Shows
  <2> QED BY <2>2, <2>3
<1>8. CASE settle
  BY <1>8, SettleKeeps
<1>9. CASE UNCHANGED vars
  BY <1>9, ActKeeps DEF vars, runtime, store
<1> QED BY <1>2, <1>3, <1>4, <1>5, <1>6, <1>7, <1>8, <1>9 DEF Next

\* What happens while something is awaited: the player, the bridge, observations.
LEMMA AwaitedKeeps ==
  ASSUME Awaited, [Next]_vars
  PROVE  Awaited'
<1>1. CASE sends' = sends /\ (pump' = pump \/ pump # "resending")
  BY <1>1 DEF Awaited, Held
<1>2. ASSUME NEW w, NEW intent, NEW skip, NEW by, Sends(w, intent, skip, by),
             \/ by \in {"player", "press"} /\ pump' = pump
             \/ pump # "resending" /\ pump' = "resending"
      PROVE  Awaited'
  <2> DEFINE new == [no |-> sent + 1, of |-> intent, wait |-> w, skip |-> skip,
                     by |-> by, accepted |-> FALSE]
  <2>1. sends' = sends \cup {new} /\ new.by = by
        /\ DOMAIN new = {"no", "of", "wait", "skip", "by", "accepted"}
    BY <1>2 DEF Sends
  <2> HIDE DEF new
  <2> QED BY <1>2, <2>1 DEF Awaited, Held
<1>3. CASE Player
  <2>1. pump' = pump
    BY <1>3 DEF Player, Answer, requestMessageSkip, SkipSignalled
  <2>2. \/ sends' = sends
        \/ \E w, intent, skip : \E by \in {"player", "press"} : Sends(w, intent, skip, by)
    BY <1>3 DEF Player, Answer, requestMessageSkip, SkipSignalled, SettleSkip, Refused, submit
  <2>3. CASE sends' = sends
    BY <1>1, <2>1, <2>3
  <2>4. ASSUME NEW w, NEW intent, NEW skip, NEW by \in {"player", "press"}, Sends(w, intent, skip, by)
        PROVE  Awaited'
    BY <1>2, <2>1, <2>4
  <2> QED BY <2>2, <2>3, <2>4
<1>4. CASE Bridge
  <2>1. ASSUME NEW s \in sends, BridgeAccepts(s) PROVE Awaited'
    <3> DEFINE again == [s EXCEPT !.accepted = TRUE]
    <3>1. again.by = s.by /\ DOMAIN again = {"no", "of", "wait", "skip", "by", "accepted"}
      BY DEF Awaited
    <3>2. sends' = (sends \ {s}) \cup {again} /\ pump' = pump
      BY <2>1 DEF BridgeAccepts
    <3> HIDE DEF again
    <3> QED BY <3>1, <3>2 DEF Awaited, Held
  <2>2. ASSUME NEW s \in sends, Acknowledged(s) \/ SendFails(s) PROVE Awaited'
    <3>1. sends' = sends \ {s} /\ AfterSend(s)
      BY <2>2 DEF Acknowledged, SendFails
    <3> QED BY <3>1 DEF AfterSend, Awaited, Held
  <2> QED BY <1>4, <2>1, <2>2 DEF Bridge
<1>5. CASE PumpReturns
  BY <1>1, <1>5 DEF PumpReturns
<1>6. CASE Events
  BY <1>1, <1>6 DEF Events, SecondNotice, Opens, TimesOut, Closes, WaitBecomes, Draws, Snapshots,
     Takes, Rejects, transport
<1>7. CASE Observes
  BY <1>1, <1>7 DEF Observes, transport
<1>8. ASSUME NEW state, BatchEnds(state) PROVE Awaited'
  BY <1>1, <1>8 DEF BatchEnds, Handling, transport
<1>9. CASE settle
  <2>1. CASE sends' = sends
    BY <1>1, <1>9, <2>1 DEF settle
  <2>2. CASE sends' # sends
    <3>1. CASE SettlePending
      <4>1. PICK w : Resends(w)
        BY <2>2, <3>1 DEF SettlePending, Forgets, Keeps
      <4> QED BY <1>2, <1>9, <4>1 DEF Resends, settle
    <3>2. CASE SettleSkip("skip") /\ pump' = IF sends' = sends THEN "idle" ELSE "resending"
      <4>1. PICK w, intent, skip : Sends(w, intent, skip, "skip")
        BY <2>2, <3>2 DEF SettleSkip, submit
      <4> QED BY <1>2, <1>9, <2>2, <3>2, <4>1 DEF settle
    <3> QED BY <1>9, <3>1, <3>2 DEF settle
  <2> QED BY <2>1, <2>2
<1>10. CASE UNCHANGED vars
  BY <1>1, <1>10 DEF vars, transport
<1> QED BY <1>3, <1>4, <1>5, <1>6, <1>7, <1>8, <1>9, <1>10 DEF Next

\* The invariant holds of every state of the specification.
LEMMA TransitionInvariant == Spec => []TransitionInv
<1>1. TransitionInv /\ [Next]_vars => TransitionInv'
  BY ShowsWhole, AwaitedKeeps, StepLemma DEF TransitionInv
<1> QED BY <1>1, TransitionInit, PTL DEF Spec

\* While the transition of an input is staged, the screen changes only to a frame that asks for
\* the next input (observations, snapshots and a stopped runtime excepted), however redraw
\* boundaries, waits, rejections and pumps follow each other (runtimePresentation.ts).
THEOREM TransitionsAreAtomic == Spec => TransitionIsAtomic
<1>1. TransitionInv /\ [Next]_vars =>
        [proj.transition /\ proj'.visible # proj.visible =>
           \/ proj'.visible.wait # None
           \/ Observes \/ Snapshots \/ last' = "stopped"]_vars
  BY ShowsWhole DEF Shows
<1> QED BY <1>1, TransitionInvariant, PTL DEF Spec, TransitionIsAtomic

---------------------------------------------------------------------------
(* Inputs under way.  An intent has a number, that of the message which first carried it. *)

All == sends \cup inbox

\* What the runtime may still take, message skips excepted; and now.
Copies == {x \in All : ~x.skip /\ (x \in inbox \/ ~x.accepted)}
Live == {x \in Copies : x.wait = canon.wait}

\* A submission that is settled by its wait, not by the pending input.
First(s) == s.by # "settle"

\* An intent that the runtime has not taken, and cannot take now.
Free(of) == of \notin taken /\ \A x \in Live : x.of # of

\* A message of another intent whose number the pending input has, or may get: while its own
\* message is awaited no batch is handled, and that message brings its number.
Foreign(x) ==
  /\ x.of # pending.of
  /\ \/ pending.msg = x.no /\ \A s \in sends : First(s) \/ s.of # pending.of
     \/ x \in sends /\ First(x) /\ x.wait = pending.wait

NetType ==
  /\ kinds \in [Waits -> Kinds]
  /\ sends \subseteq Sent /\ inbox \subseteq Message
  /\ pending \in PendingInput \cup {None}
  /\ sent \in Nat /\ taken \subseteq 1..sent

Numbered ==
  /\ \A x \in All : x.no \in 1..sent /\ x.of \in 1..sent
  /\ pending # None => pending.of \in 1..sent /\ pending.msg \in 0..sent

\* Messages of one number carry one intent.
Named ==
  /\ \A x, y \in All : x.no = y.no => x.of = y.of
  /\ \A x \in All : pending # None /\ x.of = pending.of => x.skip = pending.skip

\* For the runtime's wait an intent is under way once, until it is taken.
Once ==
  /\ \A x, y \in Live : x.of = y.of => x = y
  /\ \A x \in Live : x.of \notin taken

\* An intent is free when it is to be sent again, and when the rejection of another message
\* may have it sent again; and it is under way once until it is.
Again ==
  pending # None /\ ~pending.skip =>
    /\ pending.retry \/ (\E x \in All : Foreign(x)) => Free(pending.of)
    /\ pending.retries = 0 =>
         \A x, y \in Copies : x.of = pending.of /\ y.of = pending.of => x = y /\ x.of \notin taken

Net == NetType /\ Numbered /\ Named /\ Once /\ Again

\* A submission is not a message.
LEMMA Distinct == Message \cap Sent = {}
<1>1. \A x \in Message : "driven" \in DOMAIN x
  BY DEF Message
<1>2. \A x \in Sent : "driven" \notin DOMAIN x
  BY DEF Sent
<1> QED BY <1>1, <1>2

\* So nothing awaited is accepted.
LEMMA Apart ==
  ASSUME NetType
  PROVE  sends \cap inbox = {}
BY Distinct DEF NetType

\* The pending input is kept, forgotten or closed; ...
PendingStays ==
  \/ pending' = pending \/ pending' = None
  \/ pending # None /\ pending' = [pending EXCEPT !.closed = TRUE]

\* ... or gets the number of a submission whose answer settles it.
PendingNumbered ==
  pending # None /\ \E s \in sends : Owns(s) /\ pending' = [pending EXCEPT !.msg = s.no]

\* An awaited message of the pending input stays awaited.
Heirs ==
  \A s \in sends : ~First(s) /\ pending # None /\ s.of = pending.of =>
    \E t \in sends' : ~First(t) /\ t.of = s.of

PendingGoesOn == pending' = None \/ (PendingStays /\ Heirs) \/ PendingNumbered

\* A pending input that stays keeps all but its closed mark.
LEMMA PendingStaysLemma ==
  ASSUME NetType, PendingStays, pending' # None
  PROVE  /\ pending # None /\ pending' \in PendingInput
         /\ pending'.of = pending.of /\ pending'.msg = pending.msg /\ pending'.wait = pending.wait
         /\ pending'.skip = pending.skip /\ pending'.retry = pending.retry
         /\ pending'.retries = pending.retries
BY DEF PendingStays, NetType, PendingInput

\* A pending input that goes on keeps its intent and its wait.
LEMMA PendingNextLemma ==
  ASSUME NetType, Numbered, PendingGoesOn, pending' # None
  PROVE  /\ pending # None /\ pending' \in PendingInput
         /\ pending'.of = pending.of /\ pending'.skip = pending.skip /\ pending'.retry = pending.retry
         /\ pending'.wait = pending.wait /\ pending'.retries = pending.retries
         /\ pending'.of \in 1..sent /\ pending'.msg \in 0..sent
<1>1. CASE PendingStays
  BY <1>1, PendingStaysLemma DEF Numbered
<1>2. CASE PendingNumbered
  <2>1. PICK s \in sends : pending' = [pending EXCEPT !.msg = s.no]
    BY <1>2 DEF PendingNumbered
  <2>2. pending # None /\ pending \in PendingInput /\ s \in Sent /\ s \in All
    BY <1>2 DEF PendingNumbered, NetType, All
  <2>3. /\ pending' \in PendingInput /\ pending'.msg = s.no /\ pending'.of = pending.of
        /\ pending'.skip = pending.skip /\ pending'.retry = pending.retry
        /\ pending'.wait = pending.wait /\ pending'.retries = pending.retries
    BY <2>1, <2>2 DEF PendingInput, Sent
  <2>4. s.no \in 1..sent /\ pending.of \in 1..sent /\ sent \in Nat
    BY <2>2 DEF NetType, Numbered
  <2> QED BY <2>2, <2>3, <2>4
<1> QED BY <1>1, <1>2 DEF PendingGoesOn

\* What is under way was under way before, and no wait that is answered becomes the runtime's.
Inherited ==
  /\ \A x \in All' : \E y \in All :
       /\ x.no = y.no /\ x.of = y.of /\ x.wait = y.wait /\ x.skip = y.skip
       /\ x \in sends' /\ First(x) => y \in sends /\ First(y)
  /\ \A x \in Copies' : \E y \in Copies : x.of = y.of /\ x.wait = y.wait
  /\ \A x, y \in Copies' : x # y =>
       \E u, v \in Copies : /\ u # v /\ x.of = u.of /\ x.wait = u.wait
                            /\ y.of = v.of /\ y.wait = v.wait
  /\ canon'.wait = canon.wait \/ \A x \in All : x.wait # canon'.wait

\* A foreign message was foreign before.
LEMMA ForeignStays ==
  ASSUME NetType, Numbered, Named, Inherited, PendingGoesOn, pending' # None, NEW x \in All', Foreign(x)'
  PROVE  \E y \in All : Foreign(y)
<1>1. PICK y \in All : /\ x.no = y.no /\ x.of = y.of /\ x.wait = y.wait
                       /\ x \in sends' /\ First(x) => y \in sends /\ First(y)
  BY DEF Inherited
<1>2. pending # None /\ pending'.of = pending.of /\ pending'.wait = pending.wait
  BY PendingNextLemma
<1>3. y.of # pending.of
  BY <1>1, <1>2 DEF Foreign
<1>4. CASE x \in sends' /\ First(x) /\ x.wait = pending'.wait
  BY <1>1, <1>2, <1>3, <1>4 DEF Foreign
<1>5. CASE pending'.msg = x.no /\ \A s \in sends' : First(s) \/ s.of # pending'.of
  <2>1. CASE PendingStays /\ Heirs
    <3>1. pending'.msg = pending.msg
      BY <2>1, PendingStaysLemma
    <3>2. \A s \in sends : First(s) \/ s.of # pending.of
      BY <1>2, <1>5, <2>1 DEF Heirs
    <3> QED BY <1>1, <1>3, <1>5, <3>1, <3>2 DEF Foreign
  <2>2. CASE PendingNumbered
    <3>1. PICK s \in sends : Owns(s) /\ pending' = [pending EXCEPT !.msg = s.no]
      BY <2>2 DEF PendingNumbered
    <3>2. pending'.msg = s.no /\ s \in All
      BY <1>2, <3>1 DEF NetType, PendingInput, All
    <3>3. s.of # pending.of
      BY <1>1, <1>3, <1>5, <3>2 DEF Named
    <3>4. First(s) /\ s.wait = pending.wait
      BY <3>1, <3>3 DEF Owns, First
    <3> QED BY <3>2, <3>3, <3>4 DEF Foreign
  <2> QED BY <2>1, <2>2 DEF PendingGoesOn
<1> QED BY <1>4, <1>5 DEF Foreign, First

\* Nothing new is under way.
LEMMA Inherits ==
  ASSUME Net, NetType', Inherited, PendingGoesOn, UNCHANGED <<sent, taken>>
  PROVE  Net'
<1>1. NetType /\ Numbered /\ Named /\ Once /\ Again
  BY DEF Net
<1>2. pending' # None => /\ pending # None /\ pending'.of = pending.of /\ pending'.skip = pending.skip
                         /\ pending'.retry = pending.retry /\ pending'.retries = pending.retries
                         /\ pending'.of \in 1..sent /\ pending'.msg \in 0..sent
  BY <1>1, PendingNextLemma
<1>3. Numbered' /\ Named'
  BY <1>1, <1>2 DEF Inherited, Numbered, Named
<1>4. \A x \in Copies' : x.wait = canon'.wait => \E y \in Live : x.of = y.of /\ x.wait = y.wait
  <2>1. Copies \subseteq All
    BY DEF Copies
  <2> QED BY <2>1 DEF Inherited, Live
<1>5. Once'
  <2>1. ASSUME NEW x \in Live', NEW y \in Live', x.of = y.of PROVE x = y
    <3>1. SUFFICES ASSUME x # y PROVE FALSE
      OBVIOUS
    <3>2. x \in Copies' /\ y \in Copies' /\ x.wait = canon'.wait /\ y.wait = canon'.wait
      BY DEF Live
    <3>3. PICK u \in Copies, v \in Copies : /\ u # v /\ x.of = u.of /\ x.wait = u.wait
                                            /\ y.of = v.of /\ y.wait = v.wait
      BY <3>1, <3>2 DEF Inherited
    <3>4. u \in All /\ v \in All
      BY DEF Copies
    <3>5. canon'.wait = canon.wait
      BY <3>2, <3>3, <3>4 DEF Inherited
    <3>6. u \in Live /\ v \in Live
      BY <3>2, <3>3, <3>5 DEF Live
    <3> QED BY <1>1, <2>1, <3>3, <3>6 DEF Once
  <2>2. \A x \in Live' : x \in Copies' /\ x.wait = canon'.wait
    BY DEF Live
  <2>3. \A x \in Live' : x.of \notin taken'
    BY <1>1, <1>4, <2>2 DEF Once
  <2> QED BY <2>1, <2>3 DEF Once
<1>6. ASSUME pending' # None, ~pending'.skip,
             pending'.retry \/ \E x \in All' : Foreign(x)'
      PROVE  Free(pending.of)'
  <2>1. pending # None /\ ~pending.skip /\ (pending.retry \/ \E x \in All : Foreign(x))
    BY <1>1, <1>2, <1>6, ForeignStays
  <2>2. Free(pending.of)
    BY <1>1, <2>1 DEF Again
  <2>3. \A x \in Live' : x \in Copies' /\ x.wait = canon'.wait
    BY DEF Live
  <2>4. \A x \in Live' : x.of # pending.of
    BY <1>4, <2>2, <2>3 DEF Free
  <2> QED BY <1>2, <1>6, <2>2, <2>4 DEF Free
<1>7. ASSUME pending' # None, ~pending'.skip, pending'.retries = 0,
             NEW x \in Copies', NEW y \in Copies', x.of = pending'.of, y.of = pending'.of
      PROVE  x = y /\ x.of \notin taken'
  <2>1. pending # None /\ ~pending.skip /\ pending.retries = 0 /\ pending'.of = pending.of
    BY <1>2, <1>7
  <2>2. \A u, v \in Copies : u.of = pending.of /\ v.of = pending.of => u = v /\ u.of \notin taken
    BY <1>1, <2>1 DEF Again
  <2>3. x = y
    BY <1>7, <2>1, <2>2 DEF Inherited
  <2>4. x.of \notin taken
    BY <1>7, <2>1, <2>2 DEF Inherited
  <2> QED BY <2>3, <2>4
<1>8. Again'
  BY <1>6, <1>7 DEF Again
<1> QED BY <1>3, <1>5, <1>8 DEF Net

\* Fewer messages are under way.
LEMMA FewerKeep ==
  ASSUME Net, PendingGoesOn, sends' \subseteq sends, inbox' \subseteq inbox, UNCHANGED <<sent, taken, kinds>>,
         canon'.wait = canon.wait \/ \A x \in All : x.wait # canon'.wait
  PROVE  Net'
<1>1. All' \subseteq All /\ Copies' \subseteq Copies
  BY DEF All, Copies
<1>2. NetType'
  BY PendingNextLemma DEF Net, NetType
<1>3. Inherited
  BY <1>1 DEF Inherited, First
<1> QED BY <1>2, <1>3, Inherits

\* A new message, of a new intent or of the pending one that is to be sent again; no other is
\* awaited for the runtime's wait.
LEMMA SendKeeps ==
  ASSUME Net, UNCHANGED <<inbox, taken, kinds>>, canon'.wait = canon.wait,
         NEW w \in Waits, NEW i \in Nat, NEW k \in BOOLEAN, NEW by \in {"player", "press", "skip", "settle"},
         Sends(w, i, k, by), pending' \in PendingInput,
         pending'.of = i, pending'.skip = k, ~pending'.retry, pending'.wait = w,
         \A s \in sends : First(s) => s.wait # canon.wait,
         \/ pending = None /\ i = sent + 1 /\ pending'.msg = 0
         \/ /\ pending # None /\ pending.of = i /\ pending.skip = k /\ pending'.msg = pending.msg
            /\ by = "settle" /\ pending'.retries # 0
            /\ pending.retry \/ pending.skip
  PROVE  Net'
<1> DEFINE new == [no |-> sent + 1, of |-> i, wait |-> w, skip |-> k, by |-> by, accepted |-> FALSE]
<1>1. /\ new \in Sent /\ new.no = sent + 1 /\ new.of = i /\ new.skip = k /\ new.by = by /\ new.wait = w
      /\ ~new.accepted
  BY DEF Sent, Net, NetType
<1>2. sends' = sends \cup {new} /\ sent' = sent + 1
  BY DEF Sends
<1> HIDE DEF new
<1>3. All' = All \cup {new} /\ Copies' \subseteq Copies \cup {new} /\ (k => Copies' \subseteq Copies)
  BY <1>1, <1>2 DEF All, Copies
<1>4. sent \in Nat /\ i \in 1..sent + 1
  BY DEF Net, NetType, Numbered
<1>5. NetType'
  BY <1>1, <1>2, <1>4 DEF Net, NetType
<1>6. Numbered'
  <2>1. \A x \in All' : x.no \in 1..sent' /\ x.of \in 1..sent'
    BY <1>1, <1>2, <1>3, <1>4 DEF Net, Numbered
  <2>2. pending'.of \in 1..sent' /\ pending'.msg \in 0..sent'
    BY <1>2, <1>4 DEF Net, Numbered
  <2> QED BY <2>1, <2>2 DEF Numbered
<1>7. \A x \in All : x.no # sent + 1 /\ (pending = None => x.of # i)
  BY <1>4 DEF Net, Numbered
<1>8. Named'
  <2>1. \A x, y \in All' : x.no = y.no => x.of = y.of
    BY <1>1, <1>3, <1>7 DEF Net, Named
  <2>2. \A x \in All' : x.of = pending'.of => x.skip = pending'.skip
    BY <1>1, <1>3, <1>7 DEF Net, Named
  <2> QED BY <2>1, <2>2 DEF Named
<1>9. ~k => i \notin taken /\ \A x \in Live : x.of # i
  <2>1. CASE pending = None
    BY <1>4, <1>7, <2>1 DEF Net, NetType, Live, Copies
  <2>2. CASE pending # None
    BY <2>2 DEF Net, Again, Free
  <2> QED BY <2>1, <2>2
<1>10. Live' \subseteq Live \cup {new} /\ (k => Live' \subseteq Live) /\ (w # canon.wait => Live' \subseteq Live)
  BY <1>1, <1>3 DEF Live
<1>11. Once'
  BY <1>1, <1>9, <1>10 DEF Net, Once
<1>12. ASSUME ~k, NEW x \in All', Foreign(x)' PROVE Free(i)'
  <2>1. x.of # i /\ x # new /\ x \in All /\ x.no # 0
    BY <1>1, <1>3, <1>4, <1>12 DEF Foreign, Net, Numbered
  <2>2. ~(pending'.msg = x.no /\ \A s \in sends' : First(s) \/ s.of # i)
    <3>1. CASE pending'.msg = 0
      BY <2>1, <3>1
    <3>2. CASE by = "settle"
      BY <1>1, <1>2, <3>2 DEF First
    <3> QED BY <3>1, <3>2
  <2>3. x \in sends' /\ First(x) /\ x.wait = w
    BY <1>12, <2>2 DEF Foreign, First
  <2>4. w # canon.wait
    BY <1>2, <2>1, <2>3
  <2> QED BY <1>9, <1>10, <1>12, <2>4 DEF Free
<1>13. ASSUME ~k, pending'.retries = 0, NEW x \in Copies', NEW y \in Copies', x.of = i, y.of = i
       PROVE  x = y /\ x.of \notin taken'
  <2>1. pending = None
    BY <1>13
  <2>2. \A z \in Copies' : z.of = i => z = new
    BY <1>3, <1>7, <2>1 DEF Copies
  <2>3. i \notin taken
    BY <1>9, <1>13
  <2> QED BY <1>13, <2>2, <2>3
<1>14. Again'
  BY <1>12, <1>13 DEF Again
<1> QED BY <1>5, <1>6, <1>8, <1>11, <1>14 DEF Net

\* The bridge accepts a submission: its message takes the place of the submission.
LEMMA AcceptKeeps ==
  ASSUME Net, NEW s \in sends, ~s.accepted, UNCHANGED <<sent, taken, kinds>>, Accepted(s),
         PendingGoesOn, canon'.wait = canon.wait,
         sends' = sends \ {s} \/ sends' = (sends \ {s}) \cup {[s EXCEPT !.accepted = TRUE]}
  PROVE  Net'
<1> DEFINE new == [no |-> s.no, of |-> s.of, wait |-> s.wait, skip |-> s.skip, driven |-> FALSE]
           again == [s EXCEPT !.accepted = TRUE]
<1>1. s \in Sent /\ Named /\ NetType /\ Numbered
  BY DEF Net, NetType
<1>2. new \in Message /\ new.no = s.no /\ new.of = s.of /\ new.wait = s.wait /\ new.skip = s.skip
  BY <1>1 DEF Sent, Message
<1>3. /\ again \in Sent /\ again.no = s.no /\ again.of = s.of /\ again.wait = s.wait /\ again.skip = s.skip
      /\ again.accepted /\ again.by = s.by
  BY <1>1 DEF Sent
<1>4. inbox' = inbox \cup {new} /\ sends' \subseteq (sends \ {s}) \cup {again}
  BY DEF Accepted
<1>5. s \notin inbox /\ s \in All /\ (~s.skip => s \in Copies)
  BY <1>1, Apart DEF All, Copies
<1> HIDE DEF new, again
<1>6. All' \subseteq All \cup {new, again}
  BY <1>4 DEF All
<1>7. new \notin sends'
  <2>1. NetType'
    BY <1>1, <1>2, <1>3, <1>4, PendingNextLemma DEF NetType
  <2> QED BY <1>4, <2>1, Distinct DEF NetType
<1>8. \A x \in Copies' : x = new \/ (x \in Copies /\ x # s)
  BY <1>3, <1>4, <1>5 DEF All, Copies
<1>9. new \in Copies' => s \in Copies
  BY <1>2, <1>5 DEF Copies
<1>10. NetType'
  BY <1>1, <1>2, <1>3, <1>4, PendingNextLemma DEF NetType
<1>11. \A x \in All' : \E y \in All :
         /\ x.no = y.no /\ x.of = y.of /\ x.wait = y.wait /\ x.skip = y.skip
         /\ x \in sends' /\ First(x) => y \in sends /\ First(y)
  <2>1. ASSUME NEW x \in All', x \notin {new, again}
        PROVE  x \in All /\ (x \in sends' => x \in sends)
    BY <1>4, <1>6, <2>1
  <2> QED BY <1>2, <1>3, <1>5, <1>7, <2>1 DEF First
<1>12. \A x \in Copies' : \E y \in Copies : x.of = y.of /\ x.wait = y.wait
  BY <1>2, <1>8, <1>9
<1>13. \A x, y \in Copies' : x # y =>
         \E u, v \in Copies : /\ u # v /\ x.of = u.of /\ x.wait = u.wait
                              /\ y.of = v.of /\ y.wait = v.wait
  BY <1>2, <1>8, <1>9
<1>14. Inherited
  BY <1>11, <1>12, <1>13 DEF Inherited
<1> QED BY <1>10, <1>14, Inherits

\* The runtime takes an input, for the wait it closes.
LEMMA TakeKeeps ==
  ASSUME Net, NEW m \in inbox, PendingStays, inbox' = inbox \ {m}, UNCHANGED <<sends, sent, kinds>>,
         m.wait = canon.wait, canon'.wait = None,
         taken' = IF m.skip THEN taken ELSE taken \cup {m.of}
  PROVE  Net' /\ (~m.skip => m.of \notin taken)
<1>1. /\ All' \subseteq All /\ Copies' \subseteq Copies /\ m \in All
      /\ ~m.skip => m \in Copies /\ m \in Live
  BY DEF All, Copies, Live
<1>2. m \notin Copies' /\ NetType /\ Numbered /\ Named /\ Once /\ Again
  <2>1. m \notin sends
    BY Apart DEF Net
  <2> QED BY <2>1 DEF All, Copies, Net
<1>3. NetType'
  BY <1>1, <1>2, PendingStaysLemma DEF NetType, Numbered
<1>4. Numbered' /\ Named'
  BY <1>1, <1>2, PendingStaysLemma DEF Numbered, Named
<1>5. Live' = {}
  <2>1. \A x \in All : x.wait \in Waits
    BY <1>2 DEF NetType, Sent, Message, All
  <2> QED BY <1>1, <2>1, NoneAssumption DEF Live, Copies
<1>6. Heirs /\ Inherited
  <2>1. \A x \in All : x.wait # None
    BY <1>2, NoneAssumption DEF NetType, Sent, Message, All
  <2> QED BY <1>1, <2>1 DEF Heirs, Inherited, First
<1>7. ASSUME pending' # None
      PROVE  /\ pending # None /\ pending'.of = pending.of /\ pending'.skip = pending.skip
             /\ pending'.retry = pending.retry /\ pending'.retries = pending.retries
  BY <1>2, <1>7, PendingStaysLemma
<1>8. ASSUME pending' # None, ~pending'.skip, pending'.retry \/ \E x \in All' : Foreign(x)'
      PROVE  Free(pending.of)'
  <2>1. pending.retry \/ \E x \in All : Foreign(x)
    BY <1>2, <1>6, <1>7, <1>8, ForeignStays DEF PendingGoesOn
  <2>2. Free(pending.of)
    BY <1>2, <1>7, <1>8, <2>1 DEF Again
  <2>3. pending.of \notin taken'
    BY <1>1, <2>2 DEF Free
  <2> QED BY <1>5, <1>7, <1>8, <2>3 DEF Free
<1>9. ASSUME pending' # None, ~pending'.skip, pending'.retries = 0,
             NEW x \in Copies', NEW y \in Copies', x.of = pending'.of, y.of = pending'.of
      PROVE  x = y /\ x.of \notin taken'
  <2>1. \A u, v \in Copies : u.of = pending.of /\ v.of = pending.of => u = v /\ u.of \notin taken
    BY <1>2, <1>7, <1>9 DEF Again
  <2>2. x \in Copies /\ y \in Copies /\ x # m
    BY <1>1, <1>2
  <2> QED BY <1>1, <1>7, <1>9, <2>1, <2>2
<1>10. Once' /\ Again'
  BY <1>5, <1>8, <1>9 DEF Once, Again
<1>11. ~m.skip => m.of \notin taken
  BY <1>1, <1>2 DEF Once
<1> QED BY <1>3, <1>4, <1>10, <1>11 DEF Net

\* The pending input was rejected, by its own number or that of another message, and is to be
\* sent again.
LEMMA RetryKeeps ==
  ASSUME Net, NEW m \in inbox, pending # None, pending.msg = m.no, inbox' = inbox \ {m},
         pending' = [pending EXCEPT !.msg = 0, !.retry = TRUE, !.closed = FALSE],
         pending.skip \/ pending.retries = 0,
         \A s \in sends : First(s),
         UNCHANGED <<sends, sent, taken, kinds>>, canon'.wait = canon.wait
  PROVE  Net'
<1>1. /\ pending' \in PendingInput /\ pending'.msg = 0 /\ pending'.of = pending.of
      /\ pending'.skip = pending.skip /\ pending'.wait = pending.wait /\ pending'.retries = pending.retries
  BY DEF Net, NetType, PendingInput
<1>2. /\ All' \subseteq All /\ Copies' \subseteq Copies /\ Live' \subseteq Live /\ m \in All
      /\ ~m.skip => m \in Copies
  BY DEF All, Copies, Live
<1>3. m \notin Copies' /\ NetType /\ Numbered /\ Named /\ Once /\ Again
  <2>1. m \notin sends
    BY Apart DEF Net
  <2> QED BY <2>1 DEF All, Copies, Net
<1>4. NetType'
  BY <1>1 DEF Net, NetType
<1>5. Numbered'
  <2>1. sent \in Nat
    BY DEF Net, NetType
  <2> QED BY <1>1, <1>2, <2>1 DEF Net, Numbered
<1>6. Named'
  BY <1>1, <1>2, <1>3 DEF Named
<1>7. Once'
  BY <1>2, <1>3 DEF Once
<1>8. ASSUME ~pending.skip PROVE Free(pending.of)'
  <2>1. CASE m.of = pending.of
    <3>1. m \in Copies /\ m.of \notin taken
      BY <1>2, <1>3, <1>8, <2>1 DEF Named, Again
    <3>2. \A x \in Copies : x.of = pending.of => x = m
      BY <1>3, <1>8, <2>1, <3>1 DEF Again
    <3>3. \A x \in Live' : x \in Copies'
      BY DEF Live
    <3> QED BY <1>1, <1>2, <1>3, <2>1, <3>1, <3>2, <3>3 DEF Free
  <2>2. CASE m.of # pending.of
    <3>1. Foreign(m)
      BY <2>2 DEF Foreign
    <3>2. Free(pending.of)
      BY <1>2, <1>3, <1>8, <3>1 DEF Again
    <3> QED BY <1>1, <1>2, <3>2 DEF Free
  <2> QED BY <2>1, <2>2
<1>9. ~pending.skip /\ pending.retries = 0 =>
        \A x, y \in Copies' : x.of = pending.of /\ y.of = pending.of => x = y /\ x.of \notin taken
  BY <1>2, <1>3 DEF Again
<1>10. Again'
  BY <1>1, <1>8, <1>9 DEF Again, Free
<1> QED BY <1>4, <1>5, <1>6, <1>7, <1>10 DEF Net

\* The batch drives what it has accepted.
LEMMA DriveKeeps ==
  ASSUME Net, inbox' = {[m EXCEPT !.driven = TRUE] : m \in inbox},
         UNCHANGED <<sends, sent, taken, kinds, pending>>, canon'.wait = canon.wait
  PROVE  Net'
<1> DEFINE drive(m) == [m EXCEPT !.driven = TRUE]
<1>1. \A m \in inbox : /\ drive(m) \in Message /\ drive(m).no = m.no /\ drive(m).of = m.of
                       /\ drive(m).skip = m.skip /\ drive(m).wait = m.wait
  BY DEF Net, NetType, Message
<1>2. inbox' = {drive(m) : m \in inbox}
  OBVIOUS
<1> HIDE DEF drive
<1>3. NetType' /\ NetType
  BY <1>1, <1>2 DEF Net, NetType
<1>4. \A x \in All' : \E y \in All : /\ x.no = y.no /\ x.of = y.of /\ x.skip = y.skip /\ x.wait = y.wait
                                     /\ x \in sends' /\ First(x) => y \in sends /\ First(y)
  <2>1. \A x \in All' : x \in sends \/ \E m \in inbox : x = drive(m)
    BY <1>2 DEF All
  <2>2. ASSUME NEW m \in inbox PROVE drive(m) \notin sends' /\ m \in All
    BY <1>1, <1>2, <1>3, Distinct DEF All, NetType
  <2>3. \A x \in sends : x \in All
    BY DEF All
  <2> QED BY <1>1, <2>1, <2>2, <2>3
<1>5. \A x \in Copies' : \E y \in Copies : /\ x.of = y.of /\ x.wait = y.wait
                                           /\ x = IF y \in inbox THEN drive(y) ELSE y
  <2>1. \A m \in inbox : m \notin sends
    BY <1>3, Apart
  <2> QED BY <1>1, <1>2, <2>1 DEF All, Copies
<1>6. Inherited
  BY <1>4, <1>5 DEF Inherited
<1>7. PendingGoesOn
  BY DEF PendingGoesOn, PendingStays, Heirs
<1> QED BY <1>3, <1>6, <1>7, Inherits

---------------------------------------------------------------------------
(* Submissions and the wait they answer. *)

\* While the runtime has the wait of a first submission, the submission is that of the pending
\* input, which has no number yet and is neither closed nor to be sent again.
Matched ==
  \A s \in sends : First(s) /\ s.wait = canon.wait =>
    /\ pending # None /\ pending.of = s.of /\ pending.wait = s.wait /\ pending.msg = 0
    /\ ~pending.closed /\ ~pending.retry
    /\ \A t \in sends : ~First(t) => t.of # s.of
    /\ \A t \in sends : First(t) /\ t.wait = s.wait => t = s

\* Waits are opened in their order.
Known(w) == w # None => w <= opened
Opened ==
  /\ opened \in Nat
  /\ \A x \in All : x.wait \in Waits /\ x.wait <= opened
  /\ Known(proj.visible.wait) /\ Known(current(proj).wait) /\ Known(canon.wait)

Match == Opened /\ Matched

\* A change of the projection that shows no other wait than it has ...
Quietly(p, q) ==
  /\ q.visible.wait \in {p.visible.wait, current(p).wait}
  /\ current(q).wait = current(p).wait \/ (~IsStaged(q) /\ q.visible.wait = p.visible.wait)
  /\ IsStaged(q) => q.visible.wait = p.visible.wait

\* ... and one that shows wait w.
Noticed(p, q, w) ==
  /\ q.visible.wait \in {p.visible.wait, w}
  /\ IsStaged(q) => q.visible.wait = p.visible.wait /\ q.staged.wait = w


\* A change that shows no other wait keeps submissions matched.
LEMMA QuietMatches ==
  ASSUME Match, sends' = sends, All' \subseteq All, pending' = pending,
         canon'.wait = canon.wait, opened' = opened, Quietly(proj, proj')
  PROVE  Match'
<1>1. \A w : /\ w = proj'.visible.wait => w = proj.visible.wait \/ w = current(proj).wait
             /\ w = current(proj').wait => w = proj.visible.wait \/ w = current(proj).wait
  BY DEF Quietly, current
<1>2. Opened'
  BY <1>1 DEF Match, Opened, Known
<1>3. Matched'
  BY DEF Match, Matched, First
<1> QED BY <1>2, <1>3 DEF Match

\* So does the notice of a wait: nothing is sent for a wait that opens, and the input that is
\* pending for the wait is not closed.
LEMMA NoticeMatches ==
  ASSUME NetType, Match, proj \in Projection, sends' = sends, All' \subseteq All,
         NEW w \in Waits \cup {None}, canon'.wait = w, opened' \in Nat, opened' >= opened, Known(w)',
         w = None \/ w = canon.wait \/ w > opened, Noticed(proj, proj', w),
         pending' = pending \/ (pending # None /\ pending.wait # w)
  PROVE  Match'
<1>1. \A s \in sends : s.wait = w => w = canon.wait
  <2>1. ASSUME NEW s \in sends, s.wait = w PROVE w = canon.wait
    <3>1. s \in All /\ w \in Waits /\ w \in Nat /\ opened \in Nat /\ w <= opened
      BY <2>1, WaitsAssumption DEF Match, Opened, All
    <3>2. ~(w > opened)
      BY <3>1
    <3> QED BY <3>1, <3>2, NoneAssumption
  <2> QED BY <2>1
<1>2. /\ proj'.visible.wait = proj.visible.wait \/ proj'.visible.wait = w
      /\ IsStaged(proj') => proj'.visible.wait = proj.visible.wait /\ proj'.staged.wait = w
  BY DEF Noticed
<1>3. current(proj').wait = proj'.visible.wait \/ current(proj').wait = w
  BY <1>2 DEF current
<1>4. Opened'
  <2>0. \A x \in Waits : x <= opened => x <= opened'
    BY WaitsAssumption DEF Match, Opened
  <2>1. \A x \in All' : x.wait \in Waits /\ x.wait <= opened'
    BY <2>0 DEF Match, Opened
  <2>2. \A x \in {proj'.visible.wait, current(proj').wait} : x = w \/ x = proj.visible.wait
    BY <1>2, <1>3
  <2>3. proj.visible.wait # None => proj.visible.wait <= opened'
    BY <2>0 DEF Match, Opened, Known, Projection, Frame
  <2> QED BY <1>2, <2>1, <2>2, <2>3 DEF Opened, Known, current, IsStaged
<1>5. Matched'
  <2>1. SUFFICES ASSUME NEW s \in sends, First(s), s.wait = w
                 PROVE  /\ pending' # None /\ pending'.of = s.of /\ pending'.wait = s.wait /\ pending'.msg = 0
                        /\ ~pending'.closed /\ ~pending'.retry
                        /\ \A t \in sends : ~First(t) => t.of # s.of
                        /\ \A t \in sends : First(t) /\ t.wait = s.wait => t = s
    BY DEF Matched, First
  <2>2. s.wait = canon.wait
    BY <1>1, <2>1
  <2>3. pending' = pending
    BY <2>1, <2>2 DEF Match, Matched
  <2> QED BY <2>1, <2>2, <2>3 DEF Match, Matched
<1> QED BY <1>4, <1>5 DEF Match

\* The operations of the projection.
LEMMA QuietOperations ==
  ASSUME NEW p \in Projection
  PROVE  /\ Quietly(p, p) /\ Quietly(p, beginInputTransition(p))
         /\ beginInputTransition(p).visible = p.visible
         /\ Quietly(p, publish(p)) /\ Quietly(p, publishForObservationBarrier(p))
         /\ Quietly(p, cancelInputTransition(p)) /\ cancelInputTransition(p).visible = p.visible
<1>1. Quietly(p, p)
  BY DEF Quietly, current
<1>2. Quietly(p, beginInputTransition(p)) /\ beginInputTransition(p).visible = p.visible
  <2>1. CASE current(p).wait = None
    BY <1>1, <2>1 DEF beginInputTransition
  <2>2. CASE current(p).wait # None
    <3>1. stage(p) \in Projection /\ current(stage(p)) = current(p) /\ stage(p).visible = p.visible
      BY StageLemma DEF stage, Projection
    <3>2. beginInputTransition(p) = [stage(p) EXCEPT !.flush = TRUE, !.transition = TRUE]
      BY <2>2 DEF beginInputTransition
    <3> QED BY <3>1, <3>2 DEF Quietly, Projection, current, IsStaged
  <2> QED BY <2>1, <2>2
<1>3. Quietly(p, publish(p)) /\ Quietly(p, publishForObservationBarrier(p))
  BY <1>1 DEF publish, publishForObservationBarrier, initial, Quietly, Projection, current, IsStaged
<1>4. Quietly(p, cancelInputTransition(p)) /\ cancelInputTransition(p).visible = p.visible
  BY <1>1 DEF cancelInputTransition, discard, initial, Quietly, Projection, current, IsStaged
<1> QED BY <1>1, <1>2, <1>3, <1>4

\* A wait that opens or closes is noticed at once or staged.
LEMMA NoticeOperations ==
  ASSUME NEW p \in Projection, Sound(p)
  PROVE  /\ \A w \in Waits : Noticed(p, openInputWait(p, w), w)
         /\ Noticed(p, closeInputWait(p), None)
<1>1. current(p) \in Frame
  BY CurrentLemma
<1>2. ASSUME NEW w \in Waits PROVE Noticed(p, openInputWait(p, w), w)
  <2> DEFINE f == [current(p) EXCEPT !.wait = w]
  <2>1. f.wait = w /\ f # None
    BY <1>1, NoneAssumption DEF Frame
  <2>2. openInputWait(p, w) = IF IsStaged(p) THEN [[p EXCEPT !.staged = f] EXCEPT !.ready = TRUE]
                                             ELSE [[p EXCEPT !.visible = f] EXCEPT !.transition = FALSE]
    BY DEF openInputWait, WithCurrent
  <2> HIDE DEF f
  <2> QED BY <2>1, <2>2 DEF Noticed, Projection, IsStaged
<1>3. Noticed(p, closeInputWait(p), None)
  <2> DEFINE b == beginInputTransition(p)
             f == [current(b) EXCEPT !.wait = None]
  <2>1. b \in Projection /\ current(b) = current(p) /\ b.visible = p.visible
    BY BeginLemma, QuietOperations DEF Sound
  <2>2. f.wait = None
    BY <1>1, <2>1 DEF Frame
  <2>3. closeInputWait(p) = WithCurrent(b, f)
    BY DEF closeInputWait
  <2> HIDE DEF b, f
  <2> QED BY <2>1, <2>2, <2>3 DEF WithCurrent, Noticed, Projection, IsStaged
<1> QED BY <1>2, <1>3

\* So is the wait of a snapshot,
LEMMA SnapshotNotice ==
  ASSUME NEW p \in Projection, NEW f \in Frame
  PROVE  Noticed(p, projectSnapshot(p, f), f.wait)
BY DEF projectSnapshot, initial, Noticed, IsStaged

\* ... and that of a delta; a delta without a wait changes none.
LEMMA DeltaOperation ==
  ASSUME NEW p \in Projection, Sound(p), NEW d \in Delta
  PROVE  /\ d.waits = <<>> => Quietly(p, projectDelta(p, d))
         /\ \A w \in Waits \cup {None} : d.waits = <<w>> => Noticed(p, projectDelta(p, d), w)
<1> DEFINE closing == IF closesInputWait(d) THEN beginInputTransition(p) ELSE p
           target == IF shouldStage(closing, d) THEN stage(closing) ELSE closing
           frame == applyDelta(current(target), d)
           quiet == disablesRedraw(d) \/ ~frame.redraw
           flush == ~quiet /\ (startsTransientReplacement(p, d) \/ target.flush)
           ready == target.ready \/ becomesReady(target, d)
           next == projectDelta(p, d)
<1>1. closing \in Projection /\ current(closing) = current(p) /\ closing.visible = p.visible
  BY BeginLemma, QuietOperations DEF Sound
<1>2. next = CASE ~Applies(target, d) -> discard(target)
        [] Applies(target, d) /\ ~IsStaged(target) -> [target EXCEPT !.visible = frame]
        [] Applies(target, d) /\ IsStaged(target) ->
             [target EXCEPT !.staged = frame, !.flush = flush, !.ready = ready]
  BY DEF projectDelta
<1> HIDE DEF closing
<1>3. /\ target \in Projection /\ current(target) = current(p) /\ target.visible = p.visible
  BY <1>1, StageLemma DEF stage, Projection
<1> HIDE DEF target
<1>4. frame \in Frame /\ frame # None
  BY <1>3, CurrentLemma, ApplyLemma, NoneAssumption
<1>5. /\ d.waits = <<>> => frame.wait = current(p).wait
      /\ \A x \in Waits \cup {None} : d.waits = <<x>> => frame.wait = x
  BY <1>3 DEF applyDelta, LastOr
<1> HIDE DEF frame, quiet, flush, ready
<1>6. CASE ~Applies(target, d)
  <2>1. next.visible = p.visible /\ ~IsStaged(next)
    BY <1>2, <1>3, <1>6 DEF discard, initial, IsStaged
  <2> QED BY <2>1 DEF Quietly, Noticed, next
<1>7. CASE Applies(target, d) /\ ~IsStaged(target)
  <2>1. next.visible = frame /\ ~IsStaged(next)
    BY <1>2, <1>3, <1>7 DEF Projection, IsStaged
  <2>2. current(next) = frame
    BY <2>1 DEF current
  <2> HIDE DEF next
  <2> QED BY <1>3, <1>5, <1>7, <2>1, <2>2 DEF Quietly, Noticed, current, next
<1>8. CASE Applies(target, d) /\ IsStaged(target)
  <2>1. next.visible = p.visible /\ next.staged = frame /\ current(next) = frame
    BY <1>2, <1>3, <1>4, <1>8 DEF Projection, IsStaged, current
  <2> HIDE DEF next
  <2> QED BY <1>5, <2>1 DEF Quietly, Noticed, next
<1> QED BY <1>6, <1>7, <1>8

---------------------------------------------------------------------------
(* Submissions come and go. *)

\* A new intent answers a wait the runtime may have: no other first submission answers it.
LEMMA SubmitMatches ==
  ASSUME Net, Match, proj \in Projection, UNCHANGED <<canon, opened, inbox>>,
         pending = None, NEW w \in Waits, w = current(proj).wait, NEW k \in BOOLEAN,
         NEW by \in {"player", "press", "skip"}, Sends(w, sent + 1, k, by),
         pending' # None, pending'.of = sent + 1, pending'.wait = w, pending'.msg = 0,
         ~pending'.closed, ~pending'.retry, proj' = beginInputTransition(proj)
  PROVE  Match'
<1> DEFINE new == [no |-> sent + 1, of |-> sent + 1, wait |-> w, skip |-> k, by |-> by, accepted |-> FALSE]
<1>1. new.wait = w /\ First(new) /\ new.of = sent + 1
  BY DEF First
<1>2. sends' = sends \cup {new} /\ All' = All \cup {new}
  BY DEF Sends, All
<1> HIDE DEF new
<1>3. \A s \in sends : First(s) => s.wait # canon.wait
  BY DEF Match, Matched
<1>4. \A s \in sends : s.of # sent + 1
  BY DEF Net, NetType, Numbered, All
<1>5. Quietly(proj, proj') /\ proj'.visible = proj.visible
  BY QuietOperations
<1>6. current(proj').wait = current(proj).wait \/ current(proj').wait = proj.visible.wait
  BY <1>5 DEF Quietly, current
<1>7. Opened'
  BY <1>1, <1>2, <1>5, <1>6, NoneAssumption DEF Match, Opened, Known, current, IsStaged
<1>8. Matched'
  <2>1. \A s \in sends' : First(s) /\ s.wait = canon.wait => s = new
    BY <1>2, <1>3
  <2>2. \A t \in sends' : ~First(t) => t.of # new.of
    BY <1>1, <1>2, <1>4
  <2> QED BY <1>1, <2>1, <2>2 DEF Matched, First
<1> QED BY <1>7, <1>8 DEF Match

\* The pending intent is sent again, when no first submission answers the runtime's wait.
LEMMA ResendMatches ==
  ASSUME Net, Match, proj \in Projection, UNCHANGED <<canon, opened, inbox>>,
         pending # None, pending.closed \/ pending.retry,
         NEW w \in Waits, w = current(proj).wait, NEW k \in BOOLEAN,
         Sends(w, pending.of, k, "settle"), proj' = beginInputTransition(proj)
  PROVE  Match'
<1> DEFINE new == [no |-> sent + 1, of |-> pending.of, wait |-> w, skip |-> k,
                   by |-> "settle", accepted |-> FALSE]
<1>1. new.wait = w /\ ~First(new)
  BY DEF First
<1>2. sends' = sends \cup {new} /\ All' = All \cup {new}
  BY DEF Sends, All
<1> HIDE DEF new
<1>3. \A s \in sends' : First(s) => s.wait # canon.wait
  BY <1>1, <1>2 DEF Match, Matched
<1>4. Quietly(proj, proj') /\ proj'.visible = proj.visible
  BY QuietOperations
<1>5. current(proj').wait = current(proj).wait \/ current(proj').wait = proj.visible.wait
  BY <1>4 DEF Quietly, current
<1>6. Opened'
  BY <1>1, <1>2, <1>4, <1>5, NoneAssumption DEF Match, Opened, Known, current, IsStaged
<1>7. Matched'
  BY <1>3 DEF Matched, First
<1> QED BY <1>6, <1>7 DEF Match

\* The bridge accepts a submission.
LEMMA AcceptMatches ==
  ASSUME NetType, Match, NEW s \in sends, sends' = (sends \ {s}) \cup {[s EXCEPT !.accepted = TRUE]},
         Accepted(s), UNCHANGED <<canon, opened, proj, pending>>
  PROVE  Match'
<1> DEFINE again == [s EXCEPT !.accepted = TRUE]
           new == [no |-> s.no, of |-> s.of, wait |-> s.wait, skip |-> s.skip, driven |-> FALSE]
<1>1. again.by = s.by /\ again.of = s.of /\ again.wait = s.wait /\ new.wait = s.wait
  BY DEF NetType, Sent
<1>2. sends' = (sends \ {s}) \cup {again} /\ inbox' = inbox \cup {new}
  BY DEF Accepted
<1> HIDE DEF again, new
<1>3. \A t \in sends' : \E u \in sends : /\ t.by = u.by /\ t.of = u.of /\ t.wait = u.wait
                                         /\ t = IF u = s THEN again ELSE u
  BY <1>1, <1>2
<1>4. Opened'
  <2>1. \A x \in All' : \E y \in All : x.wait = y.wait
    BY <1>1, <1>2 DEF All
  <2> QED BY <2>1 DEF Match, Opened, Known, current, IsStaged
<1>5. Matched'
  BY <1>3 DEF Match, Matched, First
<1> QED BY <1>4, <1>5 DEF Match

\* An answer settles the submission; a number goes to the pending input it belongs to.
LEMMA AcknowledgeMatches ==
  ASSUME NetType, Match, NEW s \in sends, sends' = sends \ {s}, inbox' = inbox \/ Accepted(s),
         pending' = IF Owns(s) THEN [pending EXCEPT !.msg = s.no] ELSE pending,
         UNCHANGED <<canon, opened, proj>>
  PROVE  Match'
<1>1. s \in All /\ \A x \in All' : \E y \in All : x.wait = y.wait
  BY DEF Accepted, All
<1>2. Opened'
  BY <1>1 DEF Match, Opened, Known, current, IsStaged
<1>3. Matched'
  <2>1. ASSUME NEW t \in sends', First(t), t.wait = canon.wait
        PROVE  pending' = pending
    <3>1. t \in sends /\ t # s
      OBVIOUS
    <3>2. /\ pending.of = t.of /\ pending.wait = t.wait
          /\ \A u \in sends : ~First(u) => u.of # t.of
          /\ \A u \in sends : First(u) /\ u.wait = t.wait => u = t
      BY <2>1, <3>1 DEF Match, Matched
    <3>3. ~Owns(s)
      BY <3>1, <3>2 DEF Owns, First
    <3> QED BY <3>3
  <2>2. \A t \in sends' : t \in sends
    OBVIOUS
  <2>3. ASSUME NEW t \in sends', First(t), t.wait = canon.wait
        PROVE  /\ pending # None /\ pending.of = t.of /\ pending.wait = t.wait /\ pending.msg = 0
               /\ ~pending.closed /\ ~pending.retry
               /\ \A u \in sends' : ~First(u) => u.of # t.of
               /\ \A u \in sends' : First(u) /\ u.wait = t.wait => u = t
    BY <2>2, <2>3 DEF Match, Matched
  <2>4. \A t \in sends' : (First(t))' <=> First(t)
    BY DEF First
  <2> QED BY <2>1, <2>3, <2>4 DEF Matched
<1> QED BY <1>2, <1>3 DEF Match

\* The pending input may be changed or given up where no first submission answers the
\* runtime's wait but the one that has ended.
LEMMA GivenUpMatches ==
  ASSUME Match, proj \in Projection, sends' \subseteq sends, inbox' \subseteq inbox, UNCHANGED <<canon, opened>>,
         proj' = proj \/ proj' = cancelInputTransition(proj),
         pending' = pending \/ \A s \in sends' : First(s) => s.wait # canon.wait
  PROVE  Match'
<1>1. Quietly(proj, proj') /\ proj'.visible = proj.visible
  BY QuietOperations
<1>2. current(proj').wait = current(proj).wait \/ current(proj').wait = proj.visible.wait
  BY <1>1 DEF Quietly, current
<1>3. Opened'
  BY <1>1, <1>2 DEF Match, Opened, Known, current, IsStaged, All
<1>4. Matched'
  BY DEF Match, Matched, First
<1> QED BY <1>3, <1>4 DEF Match

---------------------------------------------------------------------------
(* The steps. *)

\* In the browser acceptance and acknowledgement are one.
Ported == host = "browser" => \A s \in sends : ~s.accepted

IntentInv == ProjectionInv /\ Awaited /\ Net /\ Match /\ Ported

\* Nothing is under way at the start.
LEMMA IntentInit == Init => IntentInv
<1> SUFFICES ASSUME Init PROVE IntentInv
  OBVIOUS
<1>1. ProjectionInv
  BY InitLemma
<1>2. sends = {} /\ inbox = {} /\ taken = {} /\ sent = 0 /\ pending = None /\ opened = 0
  BY DEF Init
<1>3. kinds \in [Waits -> Kinds]
  BY KindingsAssumption DEF Init, Kinds
<1>4. Net
  BY <1>2, <1>3 DEF Net, NetType, Numbered, Named, Once, Again, All, Copies, Live
<1>5. Match
  BY <1>2 DEF Init, initial, emptyPresentation, Match, Opened, Known, Matched, All, current, IsStaged
<1> QED BY <1>1, <1>2, <1>4, <1>5 DEF IntentInv, Ported, Awaited


\* A submission of the player or of the batch.
LEMMA SubmitKeeps ==
  ASSUME IntentInv, NEW k \in BOOLEAN, NEW by \in {"player", "press", "skip"}, submit(k, by),
         UNCHANGED <<canon, opened, inbox, taken, kinds>>
  PROVE  Net' /\ Match'
<1> DEFINE w == current(proj).wait
<1>1. proj \in Projection /\ current(proj) \in Frame /\ Net /\ Match /\ sent + 1 \in Nat
  BY CurrentLemma DEF IntentInv, ProjectionInv, Sound, Net, NetType
<1>2. w \in Waits /\ pending = None /\ proj' = beginInputTransition(proj) /\ Sends(w, sent + 1, k, by)
      /\ pending' = [of |-> sent + 1, wait |-> w, kind |-> KindOf(w), skip |-> k,
                     msg |-> 0, closed |-> FALSE, retry |-> FALSE, retries |-> 0]
  BY <1>1 DEF submit, Frame
<1>3. KindOf(w) \in Kinds
  BY <1>1, <1>2 DEF KindOf, Kinds, Net, NetType
<1> HIDE DEF w
<1>4. /\ pending' \in PendingInput /\ pending'.of = sent + 1 /\ pending'.wait = w /\ pending'.skip = k
      /\ pending'.msg = 0 /\ ~pending'.retry /\ ~pending'.closed
  BY <1>1, <1>2, <1>3 DEF PendingInput
<1>5. \A s \in sends : First(s) => s.wait # canon.wait
  BY <1>1, <1>2 DEF Match, Matched
<1>6. Net'
  BY <1>1, <1>2, <1>4, <1>5, SendKeeps
<1>7. pending' # None
  BY <1>4, PendingAssumption
<1>8. Match'
  BY <1>1, <1>2, <1>4, <1>7, SubmitMatches DEF w
<1> QED BY <1>6, <1>8

\* The player's acts.
LEMMA PlayerKeeps ==
  ASSUME IntentInv, Player
  PROVE  Net' /\ Match'
<1>1. UNCHANGED <<canon, opened, inbox, taken, kinds>>
  BY DEF Player, Answer, requestMessageSkip, SkipSignalled, runtime, fixed, history
<1>2. \/ UNCHANGED <<proj, pending, sends, sent>>
      \/ \E k \in BOOLEAN : \E by \in {"player", "press", "skip"} : submit(k, by)
  BY DEF Player, Answer, requestMessageSkip, SkipSignalled, SettleSkip, Refused
<1>3. CASE UNCHANGED <<proj, pending, sends, sent>>
  <2>1. Net'
    BY <1>1, <1>3, FewerKeep DEF IntentInv, PendingGoesOn, PendingStays, Heirs
  <2>2. Match'
    BY <1>1, <1>3 DEF IntentInv, Match, Opened, Known, Matched, All, First, current, IsStaged
  <2> QED BY <2>1, <2>2
<1> QED BY <1>1, <1>2, <1>3, SubmitKeeps

\* The answers of the bridge.
LEMMA BridgeKeeps ==
  ASSUME IntentInv, Bridge
  PROVE  Net' /\ Match'
<1>1. proj \in Projection /\ Net /\ NetType /\ Match
  BY DEF IntentInv, ProjectionInv, Sound, Net
<1>2. ASSUME NEW s \in sends, BridgeAccepts(s) PROVE Net' /\ Match'
  <2>1. /\ ~s.accepted /\ Accepted(s) /\ sends' = (sends \ {s}) \cup {[s EXCEPT !.accepted = TRUE]}
        /\ UNCHANGED <<sent, taken, kinds, pending, proj, canon, opened>>
    BY <1>2 DEF BridgeAccepts, fixed, runtime, store, history
  <2>2. Net'
    <3>1. [s EXCEPT !.accepted = TRUE].by = s.by /\ [s EXCEPT !.accepted = TRUE].of = s.of
      BY <1>1 DEF NetType, Sent
    <3>2. PendingGoesOn
      BY <2>1, <3>1 DEF PendingGoesOn, PendingStays, Heirs, First
    <3> QED BY <1>1, <2>1, <3>2, AcceptKeeps
  <2>3. Match'
    BY <1>1, <2>1, AcceptMatches
  <2> QED BY <2>2, <2>3
<1>3. ASSUME NEW s \in sends, Acknowledged(s) PROVE Net' /\ Match'
  <2>1. /\ sends' = sends \ {s} /\ UNCHANGED <<sent, taken, kinds, proj, canon, opened>>
        /\ pending' = IF Owns(s) THEN [pending EXCEPT !.msg = s.no] ELSE pending
        /\ UNCHANGED inbox \/ (Accepted(s) /\ ~s.accepted)
    BY <1>3 DEF Acknowledged, fixed, runtime, history, IntentInv, Ported
  <2>2. Match'
    BY <1>1, <2>1, AcknowledgeMatches
  <2>3. PendingGoesOn
    <3>1. CASE Owns(s)
      BY <2>1, <3>1 DEF PendingGoesOn, PendingNumbered, Owns
    <3>2. CASE ~Owns(s)
      BY <2>1, <3>2 DEF PendingGoesOn, PendingStays, Heirs, Owns, First
    <3> QED BY <3>1, <3>2
  <2>4. ASSUME UNCHANGED inbox PROVE Net'
    <3>1. sends' \subseteq sends /\ inbox' \subseteq inbox
      BY <2>1, <2>4
    <3> QED BY <1>1, <2>1, <2>3, <3>1, FewerKeep
  <2>5. ASSUME Accepted(s), ~s.accepted PROVE Net'
    BY <1>1, <2>1, <2>3, <2>5, AcceptKeeps
  <2> QED BY <2>1, <2>2, <2>4, <2>5
<1>4. ASSUME NEW s \in sends, SendFails(s) PROVE Net' /\ Match'
  <2>1. /\ sends' = sends \ {s} /\ UNCHANGED <<inbox, sent, taken, kinds, canon, opened>>
        /\ pending' = IF Owns(s) THEN None ELSE pending
        /\ proj' = cancelInputTransition(proj)
    BY <1>4 DEF SendFails, Cancels, Discards, fixed, runtime
  <2>2. Net'
    <3>1. CASE Owns(s)
      BY <1>1, <2>1, <3>1, FewerKeep DEF PendingGoesOn
    <3>2. CASE ~Owns(s)
      <4>1. PendingGoesOn
        BY <2>1, <3>2 DEF PendingGoesOn, PendingStays, Heirs, Owns, First
      <4> QED BY <1>1, <2>1, <4>1, FewerKeep
    <3> QED BY <3>1, <3>2
  <2>3. ASSUME Owns(s), NEW t \in sends', First(t) PROVE t.wait # canon.wait
    <3>1. t \in sends /\ t # s
      BY <2>1
    <3> QED BY <1>1, <2>3, <3>1 DEF Match, Matched, Owns, First
  <2>4. Match'
    BY <1>1, <2>1, <2>3, GivenUpMatches
  <2> QED BY <2>2, <2>4
<1> QED BY <1>2, <1>3, <1>4 DEF Bridge

\* A change of the runtime's wait is noticed, and the pending input stays.
LEMMA ToldStays ==
  ASSUME IntentInv, NEW w \in Waits \cup {None}, ToldByMessage(w) \/ ToldByDelta(w)
  PROVE  /\ PendingStays /\ (pending' = None => pending = None)
         /\ pending' = pending \/ (pending # None /\ pending.wait # w)
         /\ Noticed(proj, proj', w)
<1>1. proj \in Projection /\ Sound(proj) /\ NetType /\ canon \in Frame
  BY DEF IntentInv, ProjectionInv, Sound, Net
<1>2. CASE ToldByMessage(w)
  <2>1. \/ w # None /\ proj' = openInputWait(proj, w)
        \/ w = None /\ proj' = closeInputWait(proj)
    BY <1>2 DEF ToldByMessage, handleRuntimeWaitChanged
  <2>2. \/ pending' = pending
        \/ pending # None /\ pending.wait # w /\ pending' = [pending EXCEPT !.closed = TRUE]
    BY <1>2 DEF ToldByMessage, handleRuntimeWaitChanged
  <2>3. pending # None /\ pending' = [pending EXCEPT !.closed = TRUE] => pending' \in PendingInput
    BY <1>1 DEF NetType, PendingInput
  <2> QED BY <1>1, <2>1, <2>2, <2>3, NoticeOperations, PendingAssumption DEF PendingStays
<1>3. CASE ToldByDelta(w)
  <2>1. PICK d \in Deltas({<<w>>}) : proj' = projectDelta(proj, d)
    BY <1>3 DEF ToldByDelta, handlePresentationDelta, Discards
  <2>2. d \in Delta /\ d.waits = <<w>>
    BY <1>1, DeltasLemma
  <2>3. pending' = pending
    BY <1>3 DEF ToldByDelta
  <2> QED BY <1>1, <2>1, <2>2, <2>3, DeltaOperation DEF PendingStays
<1> QED BY <1>2, <1>3

\* The runtime's wait after a change, and after its second notice.
LEMMA ToldWait ==
  ASSUME IntentInv, NEW w \in Waits \cup {None}
  PROVE  /\ WaitBecomes(w) => canon'.wait = w
         /\ ToldByDelta(w) => canon'.wait = w
<1>1. canon \in Frame
  BY DEF IntentInv, ProjectionInv
<1>2. ASSUME ToldByDelta(w) PROVE canon'.wait = w
  <2>1. PICK d \in Deltas({<<w>>}) : canon' = applyDelta(canon, d)
    BY <1>2 DEF ToldByDelta
  <2>2. d.waits = <<w>>
    BY <1>1, DeltasLemma
  <2> QED BY <2>1, <2>2 DEF applyDelta, LastOr
<1>3. canon' = [canon EXCEPT !.wait = w] => canon'.wait = w
  BY <1>1 DEF Frame
<1> QED BY <1>2, <1>3 DEF WaitBecomes

\* When nothing is sent or answered, the pending input goes on.
LEMMA StaysGoesOn ==
  ASSUME PendingStays, sends' = sends
  PROVE  PendingGoesOn
BY DEF PendingGoesOn, Heirs, First

\* No message answers a wait that is not opened yet.
LEMMA NoneAnswers ==
  ASSUME Opened, NEW w \in Waits \cup {None}, w = None \/ w = canon.wait \/ w > opened
  PROVE  w = canon.wait \/ \A x \in All : x.wait # w
<1>1. ASSUME NEW x \in All, x.wait = w PROVE w = canon.wait
  <2>1. w \in Waits /\ w \in Nat /\ opened \in Nat /\ w <= opened
    BY <1>1, WaitsAssumption DEF Opened
  <2>2. ~(w > opened)
    BY <2>1
  <2> QED BY <2>1, <2>2, NoneAssumption
<1> QED BY <1>1

\* The second notice brings the wait the runtime has.
LEMMA SecondNoticeKeeps ==
  ASSUME IntentInv, SecondNotice
  PROVE  Net' /\ Match'
<1>1. /\ proj \in Projection /\ Net /\ NetType /\ Match /\ opened \in Nat
      /\ canon.wait \in Waits \cup {None} /\ Known(canon.wait)
  BY DEF IntentInv, ProjectionInv, Sound, Net, Match, Opened, Frame
<1>2. /\ UNCHANGED <<opened, sends, inbox, sent, taken, kinds>>
      /\ (ToldByMessage(canon.wait) /\ canon' = canon) \/ ToldByDelta(canon.wait)
  BY DEF SecondNotice, fixed, transport
<1>3. /\ PendingStays /\ (pending' = None => pending = None)
      /\ pending' = pending \/ (pending # None /\ pending.wait # canon.wait)
      /\ Noticed(proj, proj', canon.wait) /\ canon'.wait = canon.wait
  BY <1>1, <1>2, ToldStays, ToldWait
<1>4. Net'
  BY <1>1, <1>2, <1>3, FewerKeep, StaysGoesOn
<1>5. opened' >= opened /\ opened' \in Nat /\ Known(canon.wait)'
  BY <1>1, <1>2, <1>3 DEF Known
<1>6. Match'
  BY <1>1, <1>2, <1>3, <1>5, NoticeMatches DEF All
<1> QED BY <1>4, <1>6

\* A wait that opens is newer than every wait a submission answers.
LEMMA OpensKeeps ==
  ASSUME IntentInv, Opens
  PROVE  Net' /\ Match'
<1>0. PICK w : w = opened + 1
  OBVIOUS
<1>1. proj \in Projection /\ Net /\ NetType /\ Match /\ opened \in Nat
  BY DEF IntentInv, ProjectionInv, Sound, Net, Match, Opened
<1>2. /\ w \in Waits /\ WaitBecomes(w) /\ opened' = w
      /\ UNCHANGED <<sends, inbox, sent, taken, kinds>>
  BY <1>0 DEF Opens, WaitBecomes, fixed
<1>3. w > opened /\ opened' >= opened /\ opened' \in Nat
  BY <1>0, <1>1, <1>2
<1>4. /\ PendingStays /\ (pending' = None => pending = None)
      /\ pending' = pending \/ (pending # None /\ pending.wait # w)
      /\ Noticed(proj, proj', w) /\ canon'.wait = w
  <2>1. ToldByMessage(w) \/ ToldByDelta(w)
    BY <1>2 DEF WaitBecomes
  <2> QED BY <1>2, <2>1, ToldStays, ToldWait
<1>5. Net'
  <2>1. w = canon.wait \/ \A x \in All : x.wait # w
    BY <1>1, <1>2, <1>3, NoneAnswers DEF Match
  <2> QED BY <1>1, <1>2, <1>4, <2>1, FewerKeep, StaysGoesOn
<1>6. Known(w)'
  BY <1>0, <1>1, <1>2 DEF Known
<1>7. Match'
  BY <1>1, <1>2, <1>3, <1>4, <1>6, NoticeMatches DEF All
<1> QED BY <1>5, <1>7

\* A wait that closes, by itself or because its input is taken.
LEMMA ClosesKeeps ==
  ASSUME IntentInv, TimesOut \/ \E m \in inbox : Takes(m)
  PROVE  /\ Net' /\ Match'
         /\ \A m \in inbox : Takes(m) /\ ~m.skip => m.of \notin taken
<1>1. proj \in Projection /\ Net /\ NetType /\ Match /\ opened \in Nat
  BY DEF IntentInv, ProjectionInv, Sound, Net, Match, Opened
<1>2. WaitBecomes(None) /\ opened' = opened /\ UNCHANGED <<sends, sent, kinds>>
  BY DEF TimesOut, Takes, Closes, WaitBecomes, fixed
<1>3. /\ PendingStays /\ (pending' = None => pending = None)
      /\ pending' = pending \/ (pending # None /\ pending.wait # None)
      /\ Noticed(proj, proj', None) /\ canon'.wait = None
  <2>1. ToldByMessage(None) \/ ToldByDelta(None)
    BY <1>2 DEF WaitBecomes
  <2> QED BY <1>2, <2>1, ToldStays, ToldWait
<1>4. opened' >= opened /\ opened' \in Nat /\ Known(None)'
  BY <1>1, <1>2 DEF Known
<1>5. Match'
  <2>1. inbox' \subseteq inbox
    BY DEF TimesOut, Takes
  <2> QED BY <1>1, <1>2, <1>3, <1>4, <2>1, NoticeMatches DEF All
<1>6. ASSUME NEW m \in inbox, Takes(m) PROVE Net' /\ (~m.skip => m.of \notin taken)
  <2>1. m.wait = canon.wait /\ inbox' = inbox \ {m} /\ taken' = IF m.skip THEN taken ELSE taken \cup {m.of}
    BY <1>6 DEF Takes
  <2> QED BY <1>1, <1>2, <1>3, <2>1, TakeKeeps
<1>7. ASSUME TimesOut PROVE Net'
  <2>1. UNCHANGED <<inbox, taken>>
    BY <1>7 DEF TimesOut
  <2>2. sends' \subseteq sends /\ inbox' \subseteq inbox
    BY <1>2, <2>1
  <2>3. None = canon.wait \/ \A x \in All : x.wait # None
    BY <1>1, NoneAnswers DEF Match
  <2>4. Net'
    BY <1>1, <1>2, <1>3, <2>1, <2>2, <2>3, FewerKeep, StaysGoesOn
  <2> QED BY <2>4
<1> QED BY <1>5, <1>6, <1>7

\* A revision that changes no wait.
LEMMA DrawsKeeps ==
  ASSUME IntentInv, Draws
  PROVE  Net' /\ Match'
<1>1. proj \in Projection /\ Sound(proj) /\ Net /\ NetType /\ Match /\ canon \in Frame
  BY DEF IntentInv, ProjectionInv, Sound, Net
<1>2. /\ UNCHANGED <<opened, sends, inbox, sent, taken, kinds, pending>>
      /\ \E d \in Deltas({<<>>}) : proj' = projectDelta(proj, d) /\ canon' = applyDelta(canon, d)
  BY DEF Draws, handlePresentationDelta, Discards, fixed, transport
<1>3. PICK d \in Deltas({<<>>}) : proj' = projectDelta(proj, d) /\ canon' = applyDelta(canon, d)
  BY <1>2
<1>4. PICK w : w = None
  OBVIOUS
<1>5. d \in Delta /\ d.waits = <<>>
  BY <1>1, <1>4, DeltasLemma
<1>6. canon'.wait = canon.wait /\ Quietly(proj, proj')
  BY <1>1, <1>3, <1>5, DeltaOperation DEF applyDelta, LastOr
<1>7. PendingStays /\ (pending' = None => pending = None) /\ sends' = sends
  BY <1>2 DEF PendingStays
<1>8. Net'
  BY <1>1, <1>2, <1>6, <1>7, FewerKeep, StaysGoesOn
<1>9. Match'
  BY <1>1, <1>2, <1>6, <1>7, QuietMatches DEF All
<1> QED BY <1>8, <1>9

\* A snapshot shows the wait of the runtime.
LEMMA SnapshotsKeeps ==
  ASSUME IntentInv, Snapshots
  PROVE  Net' /\ Match'
<1>1. /\ proj \in Projection /\ Net /\ NetType /\ Match /\ opened \in Nat /\ canon \in Frame
      /\ canon.wait \in Waits \cup {None} /\ Known(canon.wait)
  BY DEF IntentInv, ProjectionInv, Sound, Net, Match, Opened, Frame
<1>2. canon' \in Frame
  BY SnapshotsLemma DEF IntentInv, ProjectionInv
<1>3. canon'.wait = canon.wait
  BY <1>1 DEF Snapshots, Frame
<1>4. UNCHANGED <<opened, sends, inbox, sent, taken, kinds, pending>>
  BY DEF Snapshots, fixed, transport
<1>5. PendingStays /\ (pending' = None => pending = None) /\ sends' = sends
  BY <1>4 DEF PendingStays
<1>6. PICK w : w = canon.wait
  OBVIOUS
<1>7. Noticed(proj, proj', w)
  <2>1. proj' = projectSnapshot(proj, canon')
    BY DEF Snapshots
  <2>2. Noticed(proj, proj', canon'.wait)
    BY <1>1, <1>2, <2>1, SnapshotNotice
  <2> QED BY <1>3, <1>6, <2>2
<1>8. Known(w)' /\ opened' >= opened /\ opened' \in Nat /\ canon'.wait = w /\ w \in Waits \cup {None}
  BY <1>1, <1>3, <1>4, <1>6 DEF Known
<1>9. Net'
  BY <1>1, <1>3, <1>4, <1>5, FewerKeep, StaysGoesOn
<1>10. Match'
  BY <1>1, <1>4, <1>5, <1>6, <1>7, <1>8, NoticeMatches DEF All
<1> QED BY <1>9, <1>10

\* A rejection that is matched by number finds no first submission for the runtime's wait.
LEMMA RejectsKeeps ==
  ASSUME IntentInv, NEW m \in inbox, Rejects(m)
  PROVE  Net' /\ Match'
<1>1. proj \in Projection /\ Net /\ NetType /\ Match /\ m.no # 0
  BY DEF IntentInv, ProjectionInv, Sound, Net, NetType, Numbered, All
<1>2. inbox' = inbox \ {m} /\ UNCHANGED <<canon, opened, sends, sent, taken, kinds>>
  BY DEF Rejects, runtime, fixed
<1>3. CASE UNCHANGED <<proj, pending>>
  <2>1. Net'
    BY <1>1, <1>2, <1>3, FewerKeep, StaysGoesOn DEF PendingStays
  <2>2. Match'
    BY <1>1, <1>2, <1>3, GivenUpMatches
  <2> QED BY <2>1, <2>2
<1>4. ASSUME pending # None, pending.msg = m.no
      PROVE  \A s \in sends : First(s) => s.wait # canon.wait
  BY <1>1, <1>4 DEF Match, Matched
<1>5. CASE /\ pending # None /\ pending.msg = m.no /\ UNCHANGED proj
           /\ pending.skip \/ pending.retries = 0
           /\ pending' = [pending EXCEPT !.msg = 0, !.retry = TRUE, !.closed = FALSE]
  <2>1. \A s \in sends : First(s)
    BY DEF IntentInv, Awaited, Held, Rejects, Handling, First
  <2>2. Net'
    BY <1>1, <1>2, <1>5, <2>1, RetryKeeps
  <2>3. Match'
    BY <1>1, <1>2, <1>4, <1>5, GivenUpMatches
  <2> QED BY <2>2, <2>3
<1>6. CASE pending # None /\ pending.msg = m.no /\ pending' = None /\ Cancels
  <2>1. Net'
    BY <1>1, <1>2, <1>6, FewerKeep DEF PendingGoesOn
  <2>2. Match'
    BY <1>1, <1>2, <1>4, <1>6, GivenUpMatches DEF Cancels, Discards
  <2> QED BY <2>1, <2>2
<1> QED BY <1>3, <1>5, <1>6 DEF Rejects, willRetryInput

\* What only shows a frame or drives the inputs that were accepted.
LEMMA FrameKeeps ==
  ASSUME IntentInv, PumpReturns \/ Observes \/ (\E state \in {"idle", "more_work", "stopped"} : BatchEnds(state))
  PROVE  Net' /\ Match'
<1>1. proj \in Projection /\ Net /\ NetType /\ Match
  BY DEF IntentInv, ProjectionInv, Sound, Net
<1>2. UNCHANGED <<pending, canon, opened, sends, sent, taken, kinds>>
  BY DEF PumpReturns, Observes, BatchEnds, runtime, fixed, store, transport, history
<1>3. proj' \in {proj, publish(proj), publishForObservationBarrier(proj)}
  BY DEF PumpReturns, Observes, BatchEnds, store
<1>4. inbox' = inbox \/ inbox' = {[m EXCEPT !.driven = TRUE] : m \in inbox}
  BY DEF PumpReturns, Observes, BatchEnds, transport
<1>5. PendingStays /\ (pending' = None => pending = None) /\ canon'.wait = canon.wait
  BY <1>2 DEF PendingStays
<1>6. Quietly(proj, proj')
  BY <1>1, <1>3, QuietOperations
<1>7. Match'
  <2>1. CASE inbox' = inbox
    BY <1>1, <1>2, <1>5, <1>6, <2>1, QuietMatches DEF All
  <2>2. CASE inbox' # inbox /\ inbox' = {[m EXCEPT !.driven = TRUE] : m \in inbox}
    <3>1. \A x \in All' : \E y \in All : x.wait = y.wait
      BY <1>1, <1>2, <2>2 DEF All, NetType, Message
    <3>2. proj' = proj
      <4>1. Observes \/ (\E state \in {"idle", "more_work", "stopped"} : BatchEnds(state)) => inbox' = inbox
        BY DEF Observes, BatchEnds, transport
      <4>2. PumpReturns
        BY <2>2, <4>1
      <4> QED BY <4>2 DEF PumpReturns, store
    <3> QED BY <1>1, <1>2, <3>1, <3>2 DEF Match, Opened, Matched, First, Known, current, IsStaged
  <2> QED BY <1>4, <2>1, <2>2
<1>8. Net'
  BY <1>1, <1>2, <1>4, <1>5, FewerKeep, StaysGoesOn, DriveKeeps
<1> QED BY <1>7, <1>8

\* settle forgets the pending input, or sends its intent for the wait of the frame.
LEMMA IntentSettles ==
  ASSUME IntentInv, settle
  PROVE  Net' /\ Match'
<1>1. proj \in Projection /\ current(proj) \in Frame /\ Net /\ NetType /\ Match
  BY CurrentLemma DEF IntentInv, ProjectionInv, Sound, Net
<1>2. UNCHANGED <<canon, opened, inbox, taken, kinds>>
  BY DEF settle, runtime, fixed, history
<1>3. ASSUME pending = None, SettleSkip("skip") PROVE Net' /\ Match'
  <2>1. CASE submit(TRUE, "skip")
    BY <1>2, <2>1, SubmitKeeps
  <2>2. CASE UNCHANGED <<proj, pending, sends, sent>>
    <3>1. Net'
      BY <1>1, <1>2, <2>2, FewerKeep, StaysGoesOn DEF PendingStays
    <3>2. Match'
      BY <1>1, <1>2, <2>2, GivenUpMatches
    <3> QED BY <3>1, <3>2
  <2> QED BY <1>3, <2>1, <2>2 DEF SettleSkip
<1>4. ASSUME pending # None, SettlePending PROVE Net' /\ Match'
  <2>1. CASE Keeps
    <3>1. Net'
      BY <1>1, <1>2, <2>1, FewerKeep, StaysGoesOn DEF PendingStays, Keeps
    <3>2. Match'
      BY <1>1, <1>2, <2>1, GivenUpMatches DEF Keeps
    <3> QED BY <3>1, <3>2
  <2>2. CASE Forgets /\ (pending.closed \/ pending.retry)
    <3>1. Net'
      BY <1>1, <1>2, <2>2, FewerKeep DEF PendingGoesOn, Forgets
    <3>2. \A s \in sends : First(s) => s.wait # canon.wait
      BY <1>1, <2>2 DEF Match, Matched
    <3>3. Match'
      BY <1>1, <1>2, <2>2, <3>2, GivenUpMatches DEF Forgets
    <3> QED BY <3>1, <3>3
  <2>3. CASE SendsAgain /\ current(proj).wait # None /\ Resends(current(proj).wait)
    <3>1. PICK w \in Waits : w = current(proj).wait
      BY <1>1, <2>3 DEF Frame
    <3>2. /\ Sends(w, pending.of, pending.skip, "settle") /\ proj' = beginInputTransition(proj)
          /\ pending' = [pending EXCEPT !.wait = w, !.closed = FALSE, !.retry = FALSE,
                                        !.retries = pending.retries + 1]
      BY <2>3, <3>1 DEF Resends
    <3>3. pending \in PendingInput /\ (pending.closed \/ pending.retry) /\ (pending.retry \/ pending.skip)
      BY <1>1, <1>4, <2>3 DEF NetType, SendsAgain
    <3>4. /\ pending' \in PendingInput /\ pending'.wait = w /\ pending'.of = pending.of
          /\ pending'.skip = pending.skip /\ pending'.msg = pending.msg /\ ~pending'.retry
          /\ pending.of \in Nat /\ pending.skip \in BOOLEAN /\ pending'.retries # 0
      <4>1. pending.retries + 1 \in Nat /\ pending.retries + 1 # 0
        BY <3>3 DEF PendingInput
      <4>2. pending' = [of |-> pending.of, wait |-> w, kind |-> pending.kind, skip |-> pending.skip,
                        msg |-> pending.msg, closed |-> FALSE, retry |-> FALSE,
                        retries |-> pending.retries + 1]
        BY <3>2, <3>3, Zenon DEF PendingInput
      <4> QED BY <3>3, <4>1, <4>2 DEF PendingInput
    <3>5. PICK i, k : i = pending.of /\ k = pending.skip
      OBVIOUS
    <3>6. \A s \in sends : First(s) => s.wait # canon.wait
      BY <1>1, <3>3 DEF Match, Matched
    <3>7. Net'
      BY <1>1, <1>2, <1>4, <3>2, <3>3, <3>4, <3>5, <3>6, SendKeeps
    <3>8. Match'
      BY <1>1, <1>2, <1>4, <3>1, <3>2, <3>3, <3>4, <3>5, ResendMatches
    <3> QED BY <3>7, <3>8
  <2> QED BY <1>4, <2>1, <2>2, <2>3 DEF SettlePending, SendsAgain
<1> QED BY <1>3, <1>4 DEF settle

\* Only the native host accepts before it acknowledges.
LEMMA PortedKeeps ==
  ASSUME IntentInv, [Next]_vars
  PROVE  Ported'
<1>1. host' = host
  BY DEF Next, vars, fixed, Player, Answer, requestMessageSkip, SkipSignalled, Bridge, BridgeAccepts,
         Acknowledged, SendFails, PumpReturns, Events, SecondNotice, Opens, WaitBecomes, TimesOut, Closes,
         Draws, Snapshots, Takes, Rejects, Observes, BatchEnds, settle
<1>2. CASE \E s \in sends : BridgeAccepts(s)
  BY <1>1, <1>2 DEF BridgeAccepts, Ported
<1>3. CASE sends' \subseteq sends
  BY <1>1, <1>3 DEF Ported, IntentInv
<1>4. ASSUME NEW w, NEW i, NEW k, NEW by, Sends(w, i, k, by) PROVE Ported'
  BY <1>1, <1>4 DEF Sends, Ported, IntentInv
<1>5. Player => sends' = sends \/ \E w, i, k, by : Sends(w, i, k, by)
  BY DEF Player, Answer, requestMessageSkip, SkipSignalled, SettleSkip, Refused, submit
<1>6. settle => sends' = sends \/ \E w, i, k, by : Sends(w, i, k, by)
  BY DEF settle, SettlePending, SettleSkip, Forgets, Keeps, Resends, submit
<1>7. Bridge => sends' \subseteq sends \/ \E s \in sends : BridgeAccepts(s)
  BY DEF Bridge, Acknowledged, SendFails
<1>8. \/ PumpReturns \/ Events \/ Observes \/ UNCHANGED vars
      \/ \E state \in {"idle", "more_work", "stopped"} : BatchEnds(state)
      => sends' = sends
  BY DEF PumpReturns, Events, SecondNotice, Opens, WaitBecomes, TimesOut, Closes, Draws, Snapshots,
         Takes, Rejects, Observes, BatchEnds, vars, transport
<1> QED BY <1>2, <1>3, <1>4, <1>5, <1>6, <1>7, <1>8 DEF Next

\* Every step keeps the invariant, and what it takes was not taken before.
LEMMA IntentStep ==
  ASSUME IntentInv, [Next]_vars
  PROVE  /\ IntentInv'
         /\ \A m \in inbox : Takes(m) /\ ~m.skip => m.of \notin taken
<1>1. ProjectionInv' /\ Awaited' /\ Ported'
  BY StepLemma, AwaitedKeeps, PortedKeeps DEF IntentInv
<1>2. \A m \in inbox : Takes(m) /\ ~m.skip => m.of \notin taken
  BY ClosesKeeps
<1>3. ASSUME Player PROVE Net' /\ Match'
  BY <1>3, PlayerKeeps
<1>4. ASSUME Bridge PROVE Net' /\ Match'
  BY <1>4, BridgeKeeps
<1>5. ASSUME PumpReturns \/ Observes \/ \E state \in {"idle", "more_work", "stopped"} : BatchEnds(state) PROVE Net' /\ Match'
  BY <1>5, FrameKeeps
<1>6. ASSUME SecondNotice \/ Opens \/ Draws \/ Snapshots PROVE Net' /\ Match'
  BY <1>6, SecondNoticeKeeps, OpensKeeps, DrawsKeeps, SnapshotsKeeps
<1>7. ASSUME TimesOut \/ \E m \in inbox : Takes(m) PROVE Net' /\ Match'
  BY <1>7, ClosesKeeps
<1>8. ASSUME \E m \in inbox : Rejects(m) PROVE Net' /\ Match'
  BY <1>8, RejectsKeeps
<1>9. ASSUME settle PROVE Net' /\ Match'
  BY <1>9, IntentSettles
<1>10. ASSUME UNCHANGED vars PROVE Net' /\ Match'
  <2>1. proj \in Projection /\ Net /\ Match
    BY DEF IntentInv, ProjectionInv, Sound
  <2>2. UNCHANGED <<canon, opened, sends, inbox, sent, taken, kinds, pending, proj>>
    BY <1>10 DEF vars, runtime, fixed, store, transport, history
  <2>3. Net'
    BY <2>1, <2>2, FewerKeep, StaysGoesOn DEF PendingStays
  <2>4. Match'
    BY <2>1, <2>2, GivenUpMatches
  <2> QED BY <2>3, <2>4
<1>11. Net' /\ Match'
  BY <1>3, <1>4, <1>5, <1>6, <1>7, <1>8, <1>9, <1>10 DEF Next, Events
<1> QED BY <1>1, <1>2, <1>11 DEF IntentInv

\* The runtime takes one intent of the player at most once, however often a submission or a
\* rejection made the store send it (settle, runtimeInput.ts:97).
THEOREM IntentTakenOnce == Spec => TakenOnce
<1>1. Init => IntentInv
  BY IntentInit
<1>2. IntentInv /\ [Next]_vars => IntentInv'
  BY IntentStep
<1>3. IntentInv /\ [Next]_vars => [\A m \in inbox : Takes(m) /\ ~m.skip => m.of \notin taken]_vars
  BY IntentStep
<1> QED BY <1>1, <1>2, <1>3, PTL DEF Spec, TakenOnce

---------------------------------------------------------------------------
(***************************************************************************)
(* Why the player can answer (PlayerCanAnswer).  A staged frame that is    *)
(* not ready while the runtime waits belongs to the transition of a        *)
(* pending input for that very wait (Kept).  A pending input is closed or  *)
(* to be sent again only when the runtime's wait is another (Behind), so   *)
(* the settle of an idle batch either forgets it or sends it again         *)
(* (Settled); and one that is neither has its message under way, unless a  *)
(* rejection was missed (Outstanding).  When nothing is under way, nothing *)
(* is pending, so nothing is staged.                                       *)
(***************************************************************************)

\* The store works on the runtime's wait, even between two notices of its change.
Follows == ~lost => current(proj).wait = canon.wait

Kept ==
  ~lost /\ IsStaged(proj) /\ ~proj.ready /\ canon.wait # None =>
    proj.transition /\ pending # None /\ pending.wait = canon.wait

Behind ==
  pending # None =>
    /\ pending.wait <= opened
    /\ pending.closed \/ pending.retry => canon.wait # pending.wait

\* Messages of one number answer one wait: that of the pending input they belong to, unless
\* it is just being sent again.
Answers ==
  /\ \A x, y \in All : x.no = y.no => x.wait = y.wait
  /\ \A s \in sends : ~First(s) /\ pending # None /\ s.of = pending.of => s.wait = pending.wait
  /\ \A x \in All : pending # None /\ pending.msg = x.no /\ x.wait # pending.wait =>
       \E s \in sends : ~First(s) /\ s.of = pending.of

WaitInv == TransitionInv /\ IntentInv /\ Follows /\ Kept /\ Behind /\ Answers

\* At the start the runtime does not wait, and nothing is pending.
LEMMA WaitInit == Init => WaitInv
<1> SUFFICES ASSUME Init PROVE WaitInv
  OBVIOUS
<1>1. TransitionInv /\ IntentInv
  BY TransitionInit, IntentInit
<1>2. proj = initial /\ canon = emptyPresentation /\ pending = None /\ sends = {} /\ inbox = {}
  BY DEF Init
<1>3. Follows /\ Kept /\ Behind /\ Answers
  BY <1>2 DEF initial, emptyPresentation, Follows, Kept, Behind, Answers, All, IsStaged, current
<1> QED BY <1>1, <1>3 DEF WaitInv

---------------------------------------------------------------------------
(* The frame the store works on. *)

\* A handler that leaves the runtime alone keeps the wait of the frame, unless it is lost.
LEMMA StillFollows ==
  ASSUME ProjectionInv, Follows, canon'.wait = canon.wait,
         \/ /\ ~lost' => ~lost
            /\ \/ proj' = proj \/ proj' = beginInputTransition(proj)
               \/ proj' = publish(proj) \/ proj' = publishForObservationBarrier(proj)
         \/ Cancels
  PROVE  Follows'
<1>1. Sound(proj) /\ proj \in Projection
  BY DEF ProjectionInv, Sound
<1>2. CASE Cancels
  <2>1. CASE proj' = proj
    BY <1>2, <2>1 DEF Cancels, Discards, Follows, current, IsStaged
  <2>2. CASE proj' = discard(proj)
    <3>1. current(proj') = proj.visible /\ ~IsStaged(proj')
      BY <1>1, <2>2, DiscardLemma
    <3>2. ~lost' => ~lost /\ (IsStaged(proj) => proj.staged = proj.visible)
      BY <1>2, <2>2, <3>1 DEF Cancels, Discards
    <3>3. ~lost' => current(proj') = current(proj)
      BY <3>1, <3>2 DEF current
    <3> QED BY <3>2, <3>3 DEF Follows, current, IsStaged
  <2> QED BY <1>2, <2>1, <2>2 DEF Cancels, Discards, cancelInputTransition
<1>3. CASE /\ ~lost' => ~lost
           /\ \/ proj' = proj \/ proj' = beginInputTransition(proj)
              \/ proj' = publish(proj) \/ proj' = publishForObservationBarrier(proj)
  <2>1. current(proj') = current(proj)
    BY <1>1, <1>3, BeginLemma, PublishLemma
  <2> QED BY <1>3, <2>1 DEF Follows, current, IsStaged
<1> QED BY <1>2, <1>3

\* A notice, the first or the second, brings the wait the runtime has.
LEMMA NoticeFollowed ==
  ASSUME ProjectionInv, NEW w \in Waits \cup {None}, WaitBecomes(w) \/ (SecondNotice /\ w = canon.wait)
  PROVE  Follows'
<1>1. canon'.wait = w /\ (ToldByMessage(w) \/ ToldByDelta(w))
  BY NoticeFollows
<1>2. CASE ToldByMessage(w)
  <2>1. current(proj) \in Frame
    BY CurrentLemma DEF ProjectionInv, Sound
  <2>2. current(proj') = [current(proj) EXCEPT !.wait = w]
    BY <1>2, MessageLemma
  <2>3. current(proj').wait = w
    BY <2>1, <2>2 DEF Frame
  <2> QED BY <1>1, <2>3 DEF Follows, current, IsStaged
<1>3. CASE ToldByDelta(w)
  <2>1. canon \in Frame
    BY DEF ProjectionInv
  <2>2. PICK d \in Deltas({<<w>>}) : handlePresentationDelta(d) /\ canon' = applyDelta(canon, d)
    BY <1>3 DEF ToldByDelta
  <2>3. d \in Delta /\ d.base = canon.rev /\ d.waits = <<w>>
    BY <2>1, DeltasLemma
  <2>4. ~lost' => current(proj') = applyDelta(current(proj), d)
    BY <2>2, <2>3, DeltaStepLemma
  <2>5. ~lost' => current(proj').wait = w
    BY <2>3, <2>4 DEF applyDelta, LastOr
  <2> QED BY <1>1, <2>5 DEF Follows, current, IsStaged
<1> QED BY <1>1, <1>2, <1>3

\* Every step keeps the store at the runtime's wait.
LEMMA FollowsStep ==
  ASSUME ProjectionInv, Follows, [Next]_vars
  PROVE  Follows'
<1>1. CASE Player
  <2>1. UNCHANGED <<canon, lost>>
    BY <1>1 DEF Player, Answer, requestMessageSkip, SkipSignalled, runtime, history
  <2>2. proj' = proj \/ proj' = beginInputTransition(proj)
    BY <1>1 DEF Player, Answer, requestMessageSkip, SkipSignalled, SettleSkip, Refused, submit
  <2> QED BY <2>1, <2>2, StillFollows
<1>2. ASSUME NEW s \in sends, BridgeAccepts(s) \/ Acknowledged(s) PROVE Follows'
  <2>1. UNCHANGED <<canon, lost, proj>>
    BY <1>2 DEF BridgeAccepts, Acknowledged, runtime, store, history
  <2> QED BY <2>1, StillFollows
<1>3. ASSUME NEW s \in sends, SendFails(s) PROVE Follows'
  BY <1>3, StillFollows DEF SendFails, runtime
<1>4. CASE PumpReturns \/ UNCHANGED vars
  <2>1. UNCHANGED <<canon, lost, proj>>
    BY <1>4 DEF PumpReturns, vars, runtime, store, history
  <2> QED BY <2>1, StillFollows
<1>5. CASE SecondNotice
  <2>1. PICK w : w = canon.wait
    OBVIOUS
  <2>2. w \in Waits \cup {None}
    BY <2>1 DEF ProjectionInv, Frame
  <2> QED BY <1>5, <2>1, <2>2, NoticeFollowed
<1>6. CASE Opens
  BY <1>6, NoticeFollowed DEF Opens
<1>7. CASE TimesOut \/ \E m \in inbox : Takes(m)
  BY <1>7, NoticeFollowed DEF TimesOut, Takes, Closes
<1>8. CASE Draws \/ Snapshots
  <2>1. owed' = "none"
    BY <1>8 DEF Draws, Snapshots
  <2>2. ProjectionInv'
    BY StepLemma
  <2> QED BY <2>1, <2>2 DEF ProjectionInv, Tracks, Follows
<1>9. ASSUME NEW m \in inbox, Rejects(m) PROVE Follows'
  <2>1. canon' = canon /\ (Cancels \/ (proj' = proj /\ lost' = lost))
    BY <1>9 DEF Rejects, runtime
  <2> QED BY <2>1, StillFollows
<1>10. CASE Observes
  BY <1>10, StillFollows DEF Observes, runtime, history
<1>11. ASSUME NEW state, BatchEnds(state) PROVE Follows'
  BY <1>11, StillFollows DEF BatchEnds, history
<1>12. CASE settle
  <2>1. UNCHANGED <<canon, lost>>
    BY <1>12 DEF settle, runtime, history
  <2>2. SettlePending => proj' = proj \/ proj' = beginInputTransition(proj)
    BY DEF SettlePending, Forgets, Keeps, Resends
  <2>3. SettleSkip("skip") => proj' = proj \/ proj' = beginInputTransition(proj)
    BY DEF SettleSkip, submit
  <2>4. proj' = proj \/ proj' = beginInputTransition(proj)
    BY <1>12, <2>2, <2>3 DEF settle
  <2> QED BY <2>1, <2>4, StillFollows
<1> QED BY <1>1, <1>2, <1>3, <1>4, <1>5, <1>6, <1>7, <1>8, <1>9, <1>10, <1>11, <1>12
        DEF Next, Bridge, Events

---------------------------------------------------------------------------
(* A pending input and the wait it answers. *)

\* An input that is submitted for the wait of the frame, or sent again for it.
Fresh ==
  /\ pending' # None /\ pending'.wait = current(proj).wait /\ current(proj).wait \in Waits
  /\ ~pending'.closed /\ ~pending'.retry

\* An input that stays pending keeps its wait and its marks, but for its number.
Same ==
  pending' # None =>
    /\ pending # None /\ pending'.of = pending.of /\ pending'.wait = pending.wait
    /\ pending'.closed = pending.closed /\ pending'.retry = pending.retry
    /\ pending'.retries = pending.retries

\* A submission answers the wait of the frame, with an intent of its own.
LEMMA SubmitIsFresh ==
  ASSUME IntentInv, NEW k \in BOOLEAN, NEW by, submit(k, by)
  PROVE  /\ Fresh /\ pending = None /\ current(proj).wait # None
         /\ pending'.of = sent + 1 /\ pending'.msg = 0 /\ pending'.retries = 0
         /\ Sends(current(proj).wait, sent + 1, k, by)
         /\ proj' = beginInputTransition(proj)
<1>1. current(proj) \in Frame /\ kinds \in [Waits -> Kinds] /\ sent \in Nat
  BY CurrentLemma DEF IntentInv, ProjectionInv, Sound, Net, NetType
<1>2. PICK w : w = current(proj).wait
  OBVIOUS
<1>3. /\ pending = None /\ w # None /\ Sends(w, sent + 1, k, by) /\ proj' = beginInputTransition(proj)
      /\ pending' = [of |-> sent + 1, wait |-> w, kind |-> KindOf(w), skip |-> k,
                     msg |-> 0, closed |-> FALSE, retry |-> FALSE, retries |-> 0]
  BY <1>2 DEF submit
<1>4. w \in Waits
  BY <1>1, <1>2, <1>3 DEF Frame
<1>5. pending' \in PendingInput
  <2>1. KindOf(w) \in Kinds
    BY <1>1, <1>4 DEF KindOf, Kinds
  <2> QED BY <1>1, <1>3, <1>4, <2>1 DEF PendingInput
<1>6. pending' # None
  BY <1>5, PendingAssumption
<1> QED BY <1>2, <1>3, <1>4, <1>6 DEF Fresh

\* The pending input is sent again for the wait of the frame, as the one submission of the batch.
LEMMA ResendIsFresh ==
  ASSUME IntentInv, pending # None, NEW w, w = current(proj).wait, w \notin {None, pending.wait}, Resends(w)
  PROVE  /\ Fresh /\ pending'.of = pending.of /\ pending'.msg = pending.msg /\ pending'.retries > 0
         /\ Sends(w, pending.of, pending.skip, "settle")
         /\ proj' = beginInputTransition(proj)
<1>1. current(proj) \in Frame /\ pending \in PendingInput
  BY CurrentLemma DEF IntentInv, ProjectionInv, Sound, Net, NetType
<1>2. w \in Waits
  BY <1>1 DEF Frame
<1>3. /\ pending' = [pending EXCEPT !.wait = w, !.closed = FALSE, !.retry = FALSE,
                                    !.retries = pending.retries + 1]
      /\ Sends(w, pending.of, pending.skip, "settle") /\ proj' = beginInputTransition(proj)
  BY DEF Resends
<1>4. pending.retries + 1 \in Nat /\ pending.retries + 1 > 0
  BY <1>1 DEF PendingInput
<1>5. pending' = [of |-> pending.of, wait |-> w, kind |-> pending.kind, skip |-> pending.skip,
                  msg |-> pending.msg, closed |-> FALSE, retry |-> FALSE,
                  retries |-> pending.retries + 1]
  BY <1>1, <1>3, Zenon DEF PendingInput
<1>6. pending' \in PendingInput
  BY <1>1, <1>2, <1>4, <1>5 DEF PendingInput
<1>7. pending' # None
  BY <1>6, PendingAssumption
<1> QED BY <1>2, <1>3, <1>4, <1>5, <1>7 DEF Fresh

\* An acknowledgement gives the pending input its number at most.
LEMMA AcknowledgeIsSame ==
  ASSUME IntentInv, NEW s \in sends, Acknowledged(s)
  PROVE  /\ Same /\ (pending # None => pending' # None)
         /\ Owns(s) => pending # None /\ pending'.msg = s.no
         /\ ~Owns(s) => pending' = pending
<1>1. s \in Sent /\ pending \in PendingInput \cup {None}
  BY DEF IntentInv, Net, NetType
<1>2. pending' = IF Owns(s) THEN [pending EXCEPT !.msg = s.no] ELSE pending
  BY DEF Acknowledged
<1>3. CASE ~Owns(s)
  BY <1>2, <1>3 DEF Same
<1>4. CASE Owns(s)
  <2>1. pending # None /\ pending \in PendingInput
    BY <1>1, <1>4 DEF Owns
  <2>2. /\ pending' \in PendingInput /\ pending'.msg = s.no /\ pending'.of = pending.of
        /\ pending'.wait = pending.wait /\ pending'.closed = pending.closed /\ pending'.retry = pending.retry
        /\ pending'.retries = pending.retries
    BY <1>1, <1>2, <1>4, <2>1 DEF PendingInput, Sent
  <2> QED BY <1>4, <2>1, <2>2, PendingAssumption DEF Same
<1> QED BY <1>3, <1>4

\* A wait_changed message closes an input that is pending for another wait; a delta none.
LEMMA ToldPending ==
  ASSUME IntentInv, NEW w \in Waits \cup {None}, ToldByMessage(w) \/ ToldByDelta(w), pending' # None
  PROVE  /\ pending # None /\ pending'.of = pending.of /\ pending'.wait = pending.wait
         /\ pending'.msg = pending.msg /\ pending'.retry = pending.retry
         /\ pending'.retries = pending.retries
         /\ pending' = pending \/ (pending.wait # w /\ pending'.closed)
         /\ ToldByMessage(w) /\ pending.wait # w => pending'.closed
<1>1. pending \in PendingInput \cup {None}
  BY DEF IntentInv, Net, NetType
<1>2. CASE ToldByDelta(w)
  <2>1. pending' = pending
    BY <1>2 DEF ToldByDelta
  <2>2. CASE ~ToldByMessage(w)
    BY <2>1, <2>2
  <2>3. CASE ToldByMessage(w)
    BY <1>1, <2>1, <2>3 DEF ToldByMessage, handleRuntimeWaitChanged, PendingInput
  <2> QED BY <2>2, <2>3
<1>3. CASE ToldByMessage(w)
  BY <1>1, <1>3 DEF ToldByMessage, handleRuntimeWaitChanged, PendingInput
<1> QED BY <1>2, <1>3

\* A rejection that is matched, of an input that was not sent again since, is of its wait;
\* what is sent again is behind the runtime.
LEMMA RejectedPending ==
  ASSUME IntentInv, Awaited, Answers, NEW m \in inbox, Rejects(m), pending' # None
  PROVE  /\ pending # None /\ pending'.of = pending.of /\ pending'.wait = pending.wait
         /\ \/ pending' = pending /\ pending.msg # m.no /\ UNCHANGED <<proj, lost>>
            \/ /\ pending'.retry /\ ~pending'.closed /\ pending'.msg = 0
               /\ pending.wait # canon.wait /\ UNCHANGED <<proj, lost>>
<1>1. pending \in PendingInput \cup {None}
  BY DEF IntentInv, Net, NetType
<1>2. CASE ~(pending # None /\ pending.msg = m.no)
  BY <1>2 DEF Rejects
<1>3. CASE pending # None /\ pending.msg = m.no
  <2>1. /\ pending' = [pending EXCEPT !.msg = 0, !.retry = TRUE, !.closed = FALSE]
        /\ m.wait # canon.wait /\ UNCHANGED <<proj, lost>>
    BY <1>3 DEF Rejects, willRetryInput
  <2>2. \A s \in sends : First(s)
    BY DEF Awaited, Held, Rejects, Handling, First
  <2>3. m.wait = pending.wait
    BY <1>3, <2>2 DEF Answers, All
  <2>4. pending'.retry /\ ~pending'.closed /\ pending'.msg = 0 /\ pending'.of = pending.of
        /\ pending'.wait = pending.wait
    BY <1>1, <1>3, <2>1 DEF PendingInput
  <2> QED BY <1>3, <2>1, <2>3, <2>4
<1> QED BY <1>2, <1>3

\* settle forgets the pending input, keeps it or sends it again; or submits the wanted skip.
LEMMA SettlesPending ==
  ASSUME settle
  PROVE  \/ pending' = None
         \/ UNCHANGED <<pending, proj, sends, sent>>
         \/ pending = None /\ submit(TRUE, "skip")
         \/ /\ pending # None /\ SendsAgain /\ Resends(current(proj).wait)
            /\ current(proj).wait \notin {None, pending.wait}
BY DEF settle, SettlePending, SettleSkip, Forgets, Keeps

\* The player submits what is fresh, or changes nothing.
LEMMA PlayerPending ==
  ASSUME Player
  PROVE  /\ UNCHANGED <<canon, opened, owed, inbox, lost, missed, pump, last>>
         /\ \/ UNCHANGED <<pending, proj, sends, sent>>
            \/ \E k \in BOOLEAN : \E by \in {"player", "press"} : submit(k, by)
<1>1. UNCHANGED <<canon, opened, owed, inbox, lost, missed, pump, last>>
  BY DEF Player, Answer, requestMessageSkip, SkipSignalled, runtime, history
<1>2. Answer => submit(FALSE, "player")
  BY DEF Answer
<1>3. requestMessageSkip => UNCHANGED <<pending, proj, sends, sent>> \/ submit(TRUE, "player")
  BY DEF requestMessageSkip
<1>4. SkipSignalled => UNCHANGED <<pending, proj, sends, sent>> \/ submit(TRUE, "player") \/ submit(TRUE, "press")
  BY DEF SkipSignalled, SettleSkip, Refused
<1> QED BY <1>1, <1>2, <1>3, <1>4 DEF Player

\* Where the runtime's wait stays, so do the marks of an input that stays or is fresh.
LEMMA BehindStays ==
  ASSUME IntentInv, Behind, canon'.wait = canon.wait, opened' = opened, Same \/ Fresh,
         Fresh => Known(current(proj).wait)
  PROVE  Behind'
<1>1. CASE Same
  BY <1>1 DEF Behind, Same
<1>2. CASE Fresh
  <2>1. current(proj).wait # None /\ pending'.wait = current(proj).wait /\ ~pending'.closed /\ ~pending'.retry
    BY <1>2, NoneAssumption DEF Fresh
  <2>2. pending'.wait <= opened'
    BY <1>2, <2>1 DEF Known
  <2> QED BY <2>1, <2>2 DEF Behind
<1> QED BY <1>1, <1>2

\* A notice closes what is pending for another wait.
LEMMA BehindNotice ==
  ASSUME IntentInv, Behind, NEW w \in Waits \cup {None}, ToldByMessage(w) \/ ToldByDelta(w), canon'.wait = w,
         opened' >= opened, opened' \in Nat, w \in {None, canon.wait} \/ w > opened
  PROVE  Behind'
<1>1. SUFFICES ASSUME pending' # None
               PROVE  /\ pending'.wait <= opened'
                      /\ pending'.closed \/ pending'.retry => canon'.wait # pending'.wait
  BY DEF Behind
<1>2. /\ pending # None /\ pending'.wait = pending.wait /\ pending'.retry = pending.retry
      /\ pending' = pending \/ (pending.wait # w /\ pending'.closed)
  BY <1>1, ToldPending
<1>3. pending.wait \in Waits /\ pending.wait \in Nat /\ opened \in Nat
  BY <1>2, WaitsAssumption DEF IntentInv, Net, NetType, PendingInput, Match, Opened
<1>4. pending.wait <= opened /\ (pending.closed \/ pending.retry => canon.wait # pending.wait)
  BY <1>2 DEF Behind
<1>5. pending'.wait <= opened'
  BY <1>2, <1>3, <1>4
<1>6. pending.closed \/ pending.retry => w # pending.wait
  BY <1>3, <1>4, NoneAssumption
<1>7. pending'.closed \/ pending'.retry => canon'.wait # pending'.wait
  <2>1. CASE pending' = pending
    BY <1>6, <2>1
  <2>2. CASE pending.wait # w
    BY <1>2, <2>2
  <2> QED BY <1>2, <2>1, <2>2
<1> QED BY <1>5, <1>7

\* Every step keeps what is closed or rejected behind the runtime.
LEMMA BehindStep ==
  ASSUME WaitInv, [Next]_vars
  PROVE  Behind'
<1>1. /\ TransitionInv /\ IntentInv /\ ProjectionInv /\ Follows /\ Kept /\ Behind /\ Answers /\ Awaited
      /\ Known(current(proj).wait) /\ Known(canon.wait) /\ opened \in Nat
      /\ canon \in Frame /\ canon.wait \in Waits \cup {None}
  BY DEF WaitInv, TransitionInv, IntentInv, ProjectionInv, Match, Opened, Frame
<1>2. CASE Player
  <2>1. canon'.wait = canon.wait /\ opened' = opened
    BY <1>2, PlayerPending
  <2>2. Same \/ Fresh
    <3>1. CASE UNCHANGED pending
      BY <3>1 DEF Same
    <3>2. ASSUME NEW k \in BOOLEAN, NEW by, submit(k, by) PROVE Fresh
      BY <1>1, <3>2, SubmitIsFresh
    <3> QED BY <1>2, <3>1, <3>2, PlayerPending
  <2> QED BY <1>1, <2>1, <2>2, BehindStays
<1>3. CASE Bridge
  <2>1. PICK s \in sends : BridgeAccepts(s) \/ Acknowledged(s) \/ SendFails(s)
    BY <1>3 DEF Bridge
  <2>2. canon'.wait = canon.wait /\ opened' = opened
    BY <2>1 DEF BridgeAccepts, Acknowledged, SendFails, runtime
  <2>3. BridgeAccepts(s) \/ SendFails(s) => Same
    BY DEF BridgeAccepts, SendFails, store, Same
  <2> QED BY <1>1, <2>1, <2>2, <2>3, AcknowledgeIsSame, BehindStays
<1>4. CASE PumpReturns \/ Observes \/ (\E state \in {"idle", "more_work", "stopped"} : BatchEnds(state))
           \/ UNCHANGED vars
  <2>1. canon'.wait = canon.wait /\ opened' = opened /\ pending' = pending
    BY <1>4 DEF PumpReturns, Observes, BatchEnds, vars, runtime, store
  <2> QED BY <1>1, <2>1, BehindStays DEF Same
<1>5. CASE SecondNotice
  <2>1. PICK w : w = canon.wait
    OBVIOUS
  <2>2. canon'.wait = w /\ (ToldByMessage(w) \/ ToldByDelta(w))
    BY <1>1, <1>5, <2>1, NoticeFollows
  <2>3. opened' = opened
    BY <1>5 DEF SecondNotice
  <2> QED BY <1>1, <2>1, <2>2, <2>3, BehindNotice
<1>6. CASE Opens
  <2>1. PICK w : w = opened + 1
    OBVIOUS
  <2>2. w \in Waits /\ WaitBecomes(w) /\ opened' = w
    BY <1>6, <2>1 DEF Opens
  <2>3. canon'.wait = w /\ (ToldByMessage(w) \/ ToldByDelta(w))
    BY <1>1, <2>2, NoticeFollows
  <2>4. w > opened /\ opened' >= opened /\ opened' \in Nat
    BY <1>1, <2>1, <2>2
  <2> QED BY <1>1, <2>2, <2>3, <2>4, BehindNotice
<1>7. CASE TimesOut \/ \E m \in inbox : Takes(m)
  <2>1. WaitBecomes(None) /\ opened' = opened
    BY <1>7 DEF TimesOut, Takes, Closes
  <2>2. canon'.wait = None /\ (ToldByMessage(None) \/ ToldByDelta(None))
    BY <1>1, <2>1, NoticeFollows
  <2> QED BY <1>1, <2>1, <2>2, BehindNotice
<1>8. CASE Draws \/ Snapshots
  <2>1. opened' = opened /\ pending' = pending
    BY <1>8 DEF Draws, Snapshots
  <2>2. canon'.wait = canon.wait
    <3>1. CASE Draws
      BY <3>1 DEF Draws, Deltas, applyDelta, LastOr
    <3>2. CASE Snapshots
      BY <1>1, <3>2 DEF Snapshots, Frame
    <3> QED BY <1>8, <3>1, <3>2
  <2> QED BY <1>1, <2>1, <2>2, BehindStays DEF Same
<1>9. ASSUME NEW m \in inbox, Rejects(m) PROVE Behind'
  <2>1. canon' = canon /\ opened' = opened
    BY <1>9 DEF Rejects, runtime
  <2> QED BY <1>1, <1>9, <2>1, RejectedPending DEF Behind
<1>10. CASE settle
  <2>1. canon'.wait = canon.wait /\ opened' = opened
    BY <1>10 DEF settle, runtime
  <2>2. Same \/ Fresh
    <3>1. CASE pending' = None \/ UNCHANGED pending
      BY <3>1 DEF Same
    <3>2. ASSUME submit(TRUE, "skip") PROVE Fresh
      BY <1>1, <3>2, SubmitIsFresh
    <3>3. ASSUME pending # None, Resends(current(proj).wait), current(proj).wait \notin {None, pending.wait}
          PROVE  Fresh
      BY <1>1, <3>3, ResendIsFresh
    <3> QED BY <1>10, <3>1, <3>2, <3>3, SettlesPending
  <2> QED BY <1>1, <2>1, <2>2, BehindStays
<1> QED BY <1>2, <1>3, <1>4, <1>5, <1>6, <1>7, <1>8, <1>9, <1>10 DEF Next, Events

---------------------------------------------------------------------------
(* Messages and the waits they answer. *)

\* The pending input keeps its messages, or is matched with one that answers its wait.
KeepsNumber ==
  \/ /\ pending'.msg = pending.msg
     /\ \A s \in sends : ~First(s) /\ s.of = pending.of => \E t \in sends' : ~First(t) /\ t.of = s.of
  \/ \A x \in All' : x.no # pending'.msg
  \/ \E y \in All : pending'.msg = y.no /\ y.wait = pending.wait

\* No new message, and no other input.
LEMMA AnswersStay ==
  ASSUME Answers,
         \A x \in All' : \E y \in All : x.no = y.no /\ x.wait = y.wait,
         \A s \in sends' : ~First(s) => \E t \in sends : ~First(t) /\ s.of = t.of /\ s.wait = t.wait,
         pending' # None => pending # None /\ pending'.of = pending.of /\ pending'.wait = pending.wait
                            /\ KeepsNumber
  PROVE  Answers'
<1>1. \A x, y \in All' : x.no = y.no => x.wait = y.wait
  BY DEF Answers
<1>2. \A s \in sends' : ~First(s) /\ pending' # None /\ s.of = pending'.of => s.wait = pending'.wait
  BY DEF Answers
<1>3. ASSUME NEW x \in All', pending' # None, pending'.msg = x.no, x.wait # pending'.wait
      PROVE  \E s \in sends' : ~First(s) /\ s.of = pending'.of
  <2>1. pending # None /\ pending'.of = pending.of /\ pending'.wait = pending.wait /\ KeepsNumber
    BY <1>3
  <2>2. PICK y \in All : x.no = y.no /\ x.wait = y.wait
    BY <1>3
  <2>3. \A z \in All : z.no = y.no => z.wait # pending.wait
    BY <1>3, <2>1, <2>2 DEF Answers
  <2>4. pending'.msg = pending.msg
        /\ \A s \in sends : ~First(s) /\ s.of = pending.of => \E t \in sends' : ~First(t) /\ t.of = s.of
    BY <1>3, <2>1, <2>2, <2>3 DEF KeepsNumber
  <2>5. \E s \in sends : ~First(s) /\ s.of = pending.of
    BY <1>3, <2>1, <2>2, <2>4 DEF Answers
  <2> QED BY <2>1, <2>4, <2>5
<1> QED BY <1>1, <1>2, <1>3 DEF Answers, First

\* A new message answers the wait of the input that becomes or stays pending.
LEMMA AnswersSend ==
  ASSUME Net, Answers, NEW w, NEW i, NEW k, NEW by, Sends(w, i, k, by), inbox' = inbox,
         pending' # None, pending'.wait = w, pending'.of = i,
         \/ by # "settle" /\ i = sent + 1 /\ pending'.msg = 0
         \/ by = "settle" /\ \A s \in sends : First(s)
  PROVE  Answers'
<1> DEFINE new == [no |-> sent + 1, of |-> i, wait |-> w, skip |-> k, by |-> by, accepted |-> FALSE]
<1>1. new.no = sent + 1 /\ new.of = i /\ new.wait = w /\ new.by = by
  OBVIOUS
<1>2. sends' = sends \cup {new}
  BY DEF Sends
<1> HIDE DEF new
<1>3. All' = All \cup {new}
  BY <1>2 DEF All
<1>4. sent \in Nat /\ \A x \in All : x.no \in 1..sent /\ x.of \in 1..sent
  BY DEF Net, NetType, Numbered
<1>5. \A x \in All : x.no # sent + 1 /\ x.of # sent + 1
  BY <1>4
<1>6. \A x, y \in All' : x.no = y.no => x.wait = y.wait
  BY <1>1, <1>3, <1>5 DEF Answers
<1>7. \A s \in sends' : ~First(s) /\ s.of = i => s.wait = w
  BY <1>1, <1>2, <1>5 DEF First, All
<1>8. \A x \in All' : pending'.msg = x.no /\ x.wait # w => \E s \in sends' : ~First(s) /\ s.of = i
  <2>1. CASE by = "settle"
    BY <1>1, <1>2, <2>1 DEF First
  <2>2. CASE pending'.msg = 0
    <3>1. \A x \in All' : x.no # 0
      BY <1>1, <1>3, <1>4
    <3> QED BY <2>2, <3>1
  <2> QED BY <2>1, <2>2
<1> QED BY <1>6, <1>7, <1>8 DEF Answers, First

\* A submission of the player or of the batch.
LEMMA SubmitAnswers ==
  ASSUME IntentInv, Answers, NEW k \in BOOLEAN, NEW by \in {"player", "press", "skip"}, submit(k, by), inbox' = inbox
  PROVE  Answers'
<1>1. PICK w, i : w = current(proj).wait /\ i = sent + 1
  OBVIOUS
<1>2. Sends(w, i, k, by) /\ pending' # None /\ pending'.wait = w /\ pending'.of = i /\ pending'.msg = 0
  BY <1>1, SubmitIsFresh DEF Fresh
<1> QED BY <1>1, <1>2, AnswersSend DEF IntentInv

\* What the pending input keeps, its number excepted.
LEMMA SameAnswers ==
  ASSUME Answers, All' \subseteq All, sends' = sends,
         pending' # None => /\ pending # None /\ pending'.of = pending.of /\ pending'.wait = pending.wait
                            /\ pending'.msg = pending.msg \/ \A x \in All : x.no # pending'.msg
  PROVE  Answers'
<1>1. pending' # None => KeepsNumber
  BY DEF KeepsNumber
<1> QED BY <1>1, AnswersStay

\* The answers of the bridge.
LEMMA BridgeAnswers ==
  ASSUME IntentInv, Answers, Bridge
  PROVE  Answers'
<1>1. NetType /\ Match
  BY DEF IntentInv, Net
<1>2. ASSUME NEW s \in sends, NEW t, t = [s EXCEPT !.accepted = TRUE], NEW m,
             m = [no |-> s.no, of |-> s.of, wait |-> s.wait, skip |-> s.skip, driven |-> FALSE]
      PROVE  /\ s \in All /\ t.no = s.no /\ t.wait = s.wait /\ t.by = s.by /\ t.of = s.of
             /\ m.no = s.no /\ m.wait = s.wait
  BY <1>1, <1>2 DEF NetType, Sent, All
<1>3. ASSUME NEW s \in sends, BridgeAccepts(s) PROVE Answers'
  <2>1. PICK t, m : /\ t = [s EXCEPT !.accepted = TRUE]
                    /\ m = [no |-> s.no, of |-> s.of, wait |-> s.wait, skip |-> s.skip, driven |-> FALSE]
    OBVIOUS
  <2>2. sends' = (sends \ {s}) \cup {t} /\ inbox' = inbox \cup {m} /\ pending' = pending
    BY <1>3, <2>1 DEF BridgeAccepts, Accepted, store
  <2>3. /\ s \in All /\ t.no = s.no /\ t.wait = s.wait /\ t.by = s.by /\ t.of = s.of
        /\ m.no = s.no /\ m.wait = s.wait
    BY <1>2, <2>1
  <2>4. All' \subseteq All \cup {t, m}
    BY <2>2 DEF All
  <2>5. \A u \in sends : ~First(u) => \E v \in sends' : ~First(v) /\ v.of = u.of
    BY <2>2, <2>3 DEF First
  <2>6. KeepsNumber
    BY <2>2, <2>5 DEF KeepsNumber
  <2>7. \A u \in sends' : ~First(u) => \E v \in sends : ~First(v) /\ u.of = v.of /\ u.wait = v.wait
    BY <2>2, <2>3 DEF First
  <2> QED BY <2>2, <2>3, <2>4, <2>6, <2>7, AnswersStay
<1>4. ASSUME NEW s \in sends, Acknowledged(s) \/ SendFails(s) PROVE Answers'
  <2>1. PICK t, m : /\ t = [s EXCEPT !.accepted = TRUE]
                    /\ m = [no |-> s.no, of |-> s.of, wait |-> s.wait, skip |-> s.skip, driven |-> FALSE]
    OBVIOUS
  <2>2. sends' = sends \ {s} /\ inbox' \subseteq inbox \cup {m}
    BY <1>4, <2>1 DEF Acknowledged, SendFails, Accepted
  <2>3. s \in All /\ m.no = s.no /\ m.wait = s.wait
    BY <1>2, <2>1
  <2>4. \A x \in All' : \E y \in All : x.no = y.no /\ x.wait = y.wait
    BY <2>2, <2>3 DEF All
  <2>5. ASSUME pending' # None
        PROVE  pending # None /\ pending'.of = pending.of /\ pending'.wait = pending.wait /\ KeepsNumber
    <3>1. CASE Owns(s)
      <4>1. Acknowledged(s)
        BY <1>4, <2>5, <3>1 DEF SendFails
      <4>2. pending # None /\ pending'.of = pending.of /\ pending'.wait = pending.wait /\ pending'.msg = s.no
        BY <2>5, <3>1, <4>1, AcknowledgeIsSame DEF Same
      <4>3. s.wait = pending.wait
        BY <3>1 DEF Owns, Answers, First
      <4> QED BY <2>3, <4>2, <4>3 DEF KeepsNumber
    <3>2. CASE ~Owns(s)
      <4>1. pending' = pending /\ pending # None
        BY <1>4, <2>5, <3>2 DEF Acknowledged, SendFails
      <4>2. First(s) \/ s.of # pending.of
        BY <3>2, <4>1 DEF Owns, First
      <4> QED BY <2>2, <4>1, <4>2 DEF KeepsNumber
    <3> QED BY <3>1, <3>2
  <2> QED BY <2>2, <2>4, <2>5, AnswersStay
<1> QED BY <1>3, <1>4 DEF Bridge

\* Every step keeps messages and waits together.
LEMMA AnswersStep ==
  ASSUME WaitInv, [Next]_vars
  PROVE  Answers'
<1>1. IntentInv /\ Answers /\ Awaited /\ canon.wait \in Waits \cup {None} /\ ProjectionInv
  BY DEF WaitInv, TransitionInv, ProjectionInv, Frame
<1>2. CASE Player
  <2>1. CASE UNCHANGED <<pending, proj, sends, sent>>
    BY <1>1, <1>2, <2>1, PlayerPending, SameAnswers DEF All
  <2> QED BY <1>1, <1>2, <2>1, PlayerPending, SubmitAnswers
<1>3. CASE Bridge
  BY <1>1, <1>3, BridgeAnswers
<1>4. CASE Observes \/ (\E state \in {"idle", "more_work", "stopped"} : BatchEnds(state)) \/ Draws \/ Snapshots
           \/ UNCHANGED vars
  <2>1. UNCHANGED <<pending, sends, inbox>>
    BY <1>4 DEF Observes, BatchEnds, Draws, Snapshots, vars, store, transport
  <2> QED BY <1>1, <2>1, SameAnswers DEF All
<1>5. CASE PumpReturns
  <2>1. sends' = sends /\ pending' = pending
    BY <1>5 DEF PumpReturns, store
  <2>2. \A m \in inbox : [m EXCEPT !.driven = TRUE].no = m.no /\ [m EXCEPT !.driven = TRUE].wait = m.wait
    BY <1>1 DEF IntentInv, Net, NetType, Message
  <2>3. inbox' = {[m EXCEPT !.driven = TRUE] : m \in inbox}
    BY <1>5 DEF PumpReturns
  <2>4. \A x \in All' : \E y \in All : x.no = y.no /\ x.wait = y.wait
    BY <2>1, <2>2, <2>3 DEF All
  <2> QED BY <1>1, <2>1, <2>4, AnswersStay DEF KeepsNumber
<1>6. ASSUME NEW w \in Waits \cup {None}, ToldByMessage(w) \/ ToldByDelta(w), sends' = sends, inbox' \subseteq inbox
      PROVE  Answers'
  <2>1. pending' # None => /\ pending # None /\ pending'.of = pending.of /\ pending'.wait = pending.wait
                           /\ pending'.msg = pending.msg
    BY <1>1, <1>6, ToldPending
  <2> QED BY <1>1, <1>6, <2>1, SameAnswers DEF All
<1>7. CASE SecondNotice
  <2>1. PICK w : w = canon.wait
    OBVIOUS
  <2>2. sends' = sends /\ inbox' = inbox
    BY <1>7 DEF SecondNotice, transport
  <2>3. w \in Waits \cup {None} /\ (ToldByMessage(w) \/ ToldByDelta(w))
    BY <1>1, <1>7, <2>1 DEF SecondNotice
  <2> QED BY <1>6, <2>2, <2>3
<1>8. CASE Opens
  <2>1. PICK w : w = opened + 1
    OBVIOUS
  <2>2. w \in Waits /\ (ToldByMessage(w) \/ ToldByDelta(w)) /\ sends' = sends /\ inbox' = inbox
    BY <1>8, <2>1 DEF Opens, WaitBecomes
  <2> QED BY <1>6, <2>2
<1>9. CASE TimesOut \/ \E m \in inbox : Takes(m)
  <2>1. (ToldByMessage(None) \/ ToldByDelta(None)) /\ sends' = sends /\ inbox' \subseteq inbox
    BY <1>9 DEF TimesOut, Takes, Closes, WaitBecomes
  <2> QED BY <1>6, <2>1
<1>10. ASSUME NEW m \in inbox, Rejects(m) PROVE Answers'
  <2>1. sends' = sends /\ All' \subseteq All
    BY <1>10 DEF Rejects, All
  <2>2. \A x \in All : x.no # 0
    BY <1>1 DEF IntentInv, Net, NetType, Numbered
  <2>3. pending' # None => /\ pending # None /\ pending'.of = pending.of /\ pending'.wait = pending.wait
                           /\ pending'.msg = pending.msg \/ \A x \in All : x.no # pending'.msg
    BY <1>1, <1>10, <2>2, RejectedPending
  <2> QED BY <1>1, <2>1, <2>3, SameAnswers
<1>11. CASE settle
  <2>1. inbox' = inbox
    BY <1>11 DEF settle
  <2>2. CASE (pending' = None /\ UNCHANGED sends) \/ UNCHANGED <<pending, proj, sends, sent>>
    BY <1>1, <2>1, <2>2, SameAnswers DEF All
  <2>3. CASE submit(TRUE, "skip")
    BY <1>1, <2>1, <2>3, SubmitAnswers
  <2>4. ASSUME pending # None, Resends(current(proj).wait), current(proj).wait \notin {None, pending.wait}
        PROVE  Answers'
    <3>1. PICK w, i, k : w = current(proj).wait /\ i = pending.of /\ k = pending.skip
      OBVIOUS
    <3>2. Sends(w, i, k, "settle") /\ pending' # None /\ pending'.wait = w /\ pending'.of = i
      BY <1>1, <2>4, <3>1, ResendIsFresh DEF Fresh
    <3>3. \A s \in sends : First(s)
      BY <1>1, <1>11 DEF settle, Awaited, Held, First
    <3> QED BY <1>1, <2>1, <3>2, <3>3, AnswersSend DEF IntentInv
  <2>5. pending' = None => UNCHANGED sends \/ submit(TRUE, "skip")
    BY <1>1, <1>11, ResendIsFresh DEF settle, SettlePending, SettleSkip, Forgets, Keeps, Fresh
  <2> QED BY <1>11, <2>2, <2>3, <2>4, <2>5, SettlesPending
<1> QED BY <1>2, <1>3, <1>4, <1>5, <1>6, <1>7, <1>8, <1>9, <1>10, <1>11 DEF Next, Events

---------------------------------------------------------------------------
(* What is staged, and why. *)

\* A transition that begins while the frame has a wait is marked.
LEMMA BeginStages ==
  ASSUME NEW p \in Projection, current(p).wait # None
  PROVE  beginInputTransition(p).transition
BY DEF beginInputTransition, stage, Projection

\* A frame that is staged when a wait opens is ready, by message ...
LEMMA OpenedReady ==
  ASSUME NEW p \in Projection, NEW w \in Waits, IsStaged(openInputWait(p, w))
  PROVE  openInputWait(p, w).ready
<1> DEFINE f == [current(p) EXCEPT !.wait = w]
<1>1. openInputWait(p, w) = IF IsStaged(p) THEN [[p EXCEPT !.staged = f] EXCEPT !.ready = TRUE]
                                           ELSE [[p EXCEPT !.visible = f] EXCEPT !.transition = FALSE]
  BY DEF openInputWait, WithCurrent
<1> HIDE DEF f
<1> QED BY <1>1 DEF Projection, IsStaged

\* ... or by delta.  A delta without wait and redraw keeps what is staged as it is, and stages
\* nothing over a wait that is shown.
LEMMA DeltaReady ==
  ASSUME NEW p \in Projection, NEW d \in Delta, IsStaged(projectDelta(p, d))
  PROVE  /\ (\E w \in Waits : d.waits = <<w>>) => projectDelta(p, d).ready
         /\ d.waits = <<>> /\ d.redraws = <<>> /\ IsStaged(p) =>
              projectDelta(p, d).ready = p.ready /\ projectDelta(p, d).transition = p.transition
         /\ d.waits = <<>> /\ d.redraws = <<>> /\ Apt(p) /\ ~IsStaged(p) => p.visible.wait = None
<1> DEFINE closing == IF closesInputWait(d) THEN beginInputTransition(p) ELSE p
           target == IF shouldStage(closing, d) THEN stage(closing) ELSE closing
           frame == applyDelta(current(target), d)
           quiet == disablesRedraw(d) \/ ~frame.redraw
           flush == ~quiet /\ (startsTransientReplacement(p, d) \/ target.flush)
           ready == target.ready \/ becomesReady(target, d)
           next == projectDelta(p, d)
<1>1. closing \in Projection
  BY BeginLemma, StageLemma DEF beginInputTransition, Projection
<1>2. closing = IF closesInputWait(d) THEN beginInputTransition(p) ELSE p
  OBVIOUS
<1>3. next = CASE ~Applies(target, d) -> discard(target)
        [] Applies(target, d) /\ ~IsStaged(target) -> [target EXCEPT !.visible = frame]
        [] Applies(target, d) /\ IsStaged(target) ->
             [target EXCEPT !.staged = frame, !.flush = flush, !.ready = ready]
  BY DEF projectDelta
<1> HIDE DEF closing
<1>4. target \in Projection
  BY <1>1, StageLemma
<1>5. target = IF shouldStage(closing, d) THEN stage(closing) ELSE closing
  OBVIOUS
<1>6. ready = (target.ready \/ becomesReady(target, d))
  OBVIOUS
<1> HIDE DEF target, frame, quiet, flush, ready
<1>7. Applies(target, d) /\ IsStaged(target)
  <2>1. ~Applies(target, d) => ~IsStaged(next)
    BY <1>3 DEF discard, initial, IsStaged
  <2>2. Applies(target, d) /\ ~IsStaged(target) => ~IsStaged(next)
    BY <1>3, <1>4 DEF Projection, IsStaged
  <2> QED BY <2>1, <2>2
<1>8. next = [target EXCEPT !.staged = frame, !.flush = flush, !.ready = ready]
  BY <1>3, <1>7
<1>9. next.ready = ready /\ next.transition = target.transition
  BY <1>4, <1>8 DEF Projection
<1> HIDE DEF next
<1>10. ASSUME NEW w \in Waits, d.waits = <<w>> PROVE ready
  <2>1. w \in Values(d.waits)
    BY <1>10 DEF Values
  <2> QED BY <1>6, <2>1 DEF becomesReady, opensInputWait
<1>11. ASSUME d.waits = <<>>, d.redraws = <<>>
       PROVE  closing = p /\ ~becomesReady(target, d) /\ (shouldStage(p, d) /\ ~IsStaged(p) => p.transition \/ p.visible.wait = None)
  <2>1. Values(d.waits) = {} /\ Values(d.redraws) = {}
    BY <1>11 DEF Values
  <2>2. ~closesInputWait(d) /\ ~opensInputWait(d) /\ ~completesFrame(d) /\ ~disablesRedraw(d)
    BY <2>1 DEF closesInputWait, opensInputWait, completesFrame, disablesRedraw
  <2> QED BY <1>2, <2>2 DEF becomesReady, shouldStage, startsTransientReplacement
<1>12. ASSUME d.waits = <<>>, d.redraws = <<>>, IsStaged(p)
       PROVE  next.ready = p.ready /\ next.transition = p.transition
  <2>1. target = p
    BY <1>5, <1>11, <1>12 DEF stage
  <2> QED BY <1>6, <1>9, <1>11, <1>12, <2>1 DEF Projection
<1>13. ASSUME d.waits = <<>>, d.redraws = <<>>, Apt(p), ~IsStaged(p) PROVE p.visible.wait = None
  <2>1. shouldStage(p, d)
    BY <1>5, <1>7, <1>11, <1>13
  <2> QED BY <1>11, <1>13, <2>1 DEF Apt
<1> QED BY <1>9, <1>10, <1>12, <1>13 DEF next

\* The reason stays with the pending input.
LEMMA KeptStays ==
  ASSUME Kept, ~lost' => ~lost, canon'.wait = canon.wait,
         IsStaged(proj') => IsStaged(proj) /\ proj'.ready = proj.ready /\ proj'.transition = proj.transition,
         pending # None => pending' # None /\ pending'.wait = pending.wait
  PROVE  Kept'
BY DEF Kept, IsStaged

\* Nothing is staged, or it is ready.
LEMMA KeptReady ==
  ASSUME IsStaged(proj') => proj'.ready \/ canon'.wait = None
  PROVE  Kept'
BY DEF Kept, IsStaged

\* What is submitted or sent again for the wait of the frame is staged for it.
LEMMA KeptFresh ==
  ASSUME WaitInv, Fresh, proj' = beginInputTransition(proj), canon' = canon, lost' = lost
  PROVE  Kept'
<1>1. proj \in Projection /\ Follows
  BY DEF WaitInv, IntentInv, ProjectionInv, Sound
<1>2. proj'.transition
  BY <1>1, BeginStages, NoneAssumption DEF Fresh
<1>3. ~lost => pending'.wait = canon.wait
  BY <1>1 DEF Follows, Fresh
<1> QED BY <1>2, <1>3 DEF Kept, Fresh

\* A transition that is cancelled leaves nothing of it staged.
LEMMA KeptCancels ==
  ASSUME Kept, Cancels, canon' = canon
  PROVE  Kept'
<1>1. ~lost' => ~lost
  BY DEF Cancels, Discards
<1>2. CASE proj.transition
  <2>1. ~IsStaged(proj')
    BY <1>2 DEF Cancels, Discards, cancelInputTransition, discard, initial, IsStaged
  <2> QED BY <2>1, KeptReady
<1>3. CASE ~proj.transition
  <2>1. proj' = proj
    BY <1>3 DEF Cancels, Discards, cancelInputTransition
  <2> QED BY <1>1, <1>3, <2>1 DEF Kept, IsStaged
<1> QED BY <1>2, <1>3

\* A notice makes what is staged ready, or ends the runtime's wait.
LEMMA KeptNotice ==
  ASSUME WaitInv, NEW w \in Waits \cup {None}, ToldByMessage(w) \/ ToldByDelta(w), canon'.wait = w
  PROVE  Kept'
<1>1. proj \in Projection /\ canon \in Frame
  BY DEF WaitInv, IntentInv, ProjectionInv, Sound
<1>2. ASSUME w # None, IsStaged(proj') PROVE proj'.ready
  <2>1. CASE ToldByMessage(w)
    <3>1. proj' = openInputWait(proj, w)
      BY <1>2, <2>1 DEF ToldByMessage, handleRuntimeWaitChanged
    <3> QED BY <1>1, <1>2, <3>1, OpenedReady
  <2>2. CASE ToldByDelta(w)
    <3>1. PICK d \in Deltas({<<w>>}) : proj' = projectDelta(proj, d)
      BY <2>2 DEF ToldByDelta, handlePresentationDelta, Discards
    <3>2. d \in Delta /\ d.waits = <<w>>
      BY <1>1, DeltasLemma
    <3> QED BY <1>1, <1>2, <3>1, <3>2, DeltaReady
  <2> QED BY <2>1, <2>2
<1> QED BY <1>2, KeptReady

\* The events of a batch.
LEMMA KeptEvents ==
  ASSUME WaitInv, Events
  PROVE  Kept'
<1>1. /\ IntentInv /\ ProjectionInv /\ proj \in Projection /\ Apt(proj) /\ Kept /\ Follows /\ Awaited /\ Answers
      /\ canon \in Frame /\ canon.wait \in Waits \cup {None}
  BY DEF WaitInv, TransitionInv, ProjectionInv, Sound, Frame
<1>2. CASE SecondNotice
  <2>1. PICK w : w = canon.wait
    OBVIOUS
  <2>2. w \in Waits \cup {None} /\ canon'.wait = w /\ (ToldByMessage(w) \/ ToldByDelta(w))
    BY <1>1, <1>2, <2>1, NoticeFollows
  <2> QED BY <2>2, KeptNotice
<1>3. CASE Opens
  <2>1. PICK w : w = opened + 1
    OBVIOUS
  <2>2. w \in Waits /\ WaitBecomes(w)
    BY <1>3, <2>1 DEF Opens
  <2>3. canon'.wait = w /\ (ToldByMessage(w) \/ ToldByDelta(w))
    BY <1>1, <2>2, NoticeFollows
  <2> QED BY <2>2, <2>3, KeptNotice
<1>4. CASE TimesOut \/ \E m \in inbox : Takes(m)
  <2>1. WaitBecomes(None)
    BY <1>4 DEF TimesOut, Takes, Closes
  <2>2. canon'.wait = None /\ (ToldByMessage(None) \/ ToldByDelta(None))
    BY <1>1, <2>1, NoticeFollows
  <2> QED BY <2>2, KeptNotice
<1>5. CASE Draws
  <2>1. PICK d \in Deltas({<<>>}) : /\ canon.wait # None => d.redraws = <<>>
                                    /\ proj' = projectDelta(proj, d) /\ canon' = applyDelta(canon, d)
    BY <1>5 DEF Draws, handlePresentationDelta, Discards
  <2>2. d \in Delta /\ d.waits = <<>>
    BY <1>1, DeltasLemma
  <2>3. canon'.wait = canon.wait /\ (~lost' => ~lost) /\ pending' = pending
    BY <1>5, <2>1, <2>2 DEF applyDelta, LastOr, Draws, handlePresentationDelta, Discards
  <2>4. CASE canon.wait = None
    BY <2>3, <2>4, KeptReady
  <2>5. CASE canon.wait # None
    <3>1. d.redraws = <<>>
      BY <2>1, <2>5
    <3>2. CASE IsStaged(proj)
      <4>1. IsStaged(proj') => proj'.ready = proj.ready /\ proj'.transition = proj.transition
        BY <1>1, <2>1, <2>2, <3>1, <3>2, DeltaReady
      <4> QED BY <1>1, <2>3, <3>2, <4>1, KeptStays
    <3>3. CASE ~IsStaged(proj)
      <4>1. ~lost => proj.visible.wait # None
        BY <1>1, <2>5, <3>3 DEF Follows, current
      <4>2. ~lost => ~IsStaged(proj')
        BY <1>1, <2>1, <2>2, <3>1, <3>3, <4>1, DeltaReady
      <4> QED BY <2>3, <4>2 DEF Kept, IsStaged
    <3> QED BY <3>2, <3>3
  <2> QED BY <2>4, <2>5
<1>6. CASE Snapshots
  <2>1. proj' = projectSnapshot(proj, canon')
    BY <1>6 DEF Snapshots
  <2>2. IsStaged(proj') => canon'.wait = None
    BY <2>1 DEF projectSnapshot, initial, IsStaged
  <2> QED BY <2>2, KeptReady
<1>7. ASSUME NEW m \in inbox, Rejects(m) PROVE Kept'
  <2>1. canon' = canon
    BY <1>7 DEF Rejects, runtime
  <2>2. CASE Cancels
    BY <1>1, <2>1, <2>2, KeptCancels
  <2>3. CASE ~Cancels
    <3>1. proj' = proj /\ lost' = lost
      BY <1>7, <2>3 DEF Rejects
    <3>2. pending # None => pending' # None /\ pending'.wait = pending.wait
      <4>1. CASE pending' = pending
        BY <4>1
      <4>2. CASE pending' = [pending EXCEPT !.msg = 0, !.retry = TRUE, !.closed = FALSE]
        <5>1. pending # None => pending' \in PendingInput /\ pending'.wait = pending.wait
          BY <1>1, <4>2 DEF IntentInv, Net, NetType, PendingInput
        <5> QED BY <5>1, PendingAssumption
      <4> QED BY <1>7, <2>3, <4>1, <4>2 DEF Rejects
    <3> QED BY <1>1, <2>1, <3>1, <3>2, KeptStays
  <2> QED BY <2>2, <2>3
<1> QED BY <1>2, <1>3, <1>4, <1>5, <1>6, <1>7 DEF Events

\* Every step keeps what is staged with its pending input.
LEMMA KeptStep ==
  ASSUME WaitInv, [Next]_vars
  PROVE  Kept'
<1>1. IntentInv /\ proj \in Projection /\ Kept /\ Follows /\ Behind
  BY DEF WaitInv, IntentInv, ProjectionInv, Sound
<1>2. CASE Player
  <2>1. CASE UNCHANGED <<pending, proj, sends, sent>>
    BY <1>1, <1>2, <2>1, PlayerPending, KeptStays
  <2>2. ASSUME NEW k \in BOOLEAN, NEW by, submit(k, by) PROVE Kept'
    BY <1>1, <1>2, <2>2, PlayerPending, SubmitIsFresh, KeptFresh
  <2> QED BY <1>2, <2>1, <2>2, PlayerPending
<1>3. ASSUME NEW s \in sends, BridgeAccepts(s) \/ Acknowledged(s) PROVE Kept'
  <2>1. UNCHANGED <<canon, lost, proj>>
    BY <1>3 DEF BridgeAccepts, Acknowledged, runtime, store, history
  <2>2. BridgeAccepts(s) => pending' = pending
    BY DEF BridgeAccepts, store
  <2> QED BY <1>1, <1>3, <2>1, <2>2, AcknowledgeIsSame, KeptStays DEF Same
<1>4. ASSUME NEW s \in sends, SendFails(s) PROVE Kept'
  BY <1>1, <1>4, KeptCancels DEF SendFails, runtime
<1>5. CASE PumpReturns \/ UNCHANGED vars
  <2>1. UNCHANGED <<canon, lost, proj, pending>>
    BY <1>5 DEF PumpReturns, vars, runtime, store, history
  <2> QED BY <1>1, <2>1, KeptStays
<1>6. CASE Events
  BY <1>6, KeptEvents
<1>7. CASE Observes
  <2>1. ~IsStaged(proj')
    BY <1>7 DEF Observes, publishForObservationBarrier, publish, initial, IsStaged
  <2> QED BY <2>1, KeptReady
<1>8. ASSUME NEW state, BatchEnds(state) PROVE Kept'
  <2>1. UNCHANGED <<canon, lost, pending>>
    BY <1>8 DEF BatchEnds, store, history
  <2>2. CASE proj' = publish(proj)
    <3>1. ~IsStaged(proj')
      BY <2>2 DEF publish, initial, IsStaged
    <3> QED BY <3>1, KeptReady
  <2>3. CASE proj' = proj
    BY <1>1, <2>1, <2>3, KeptStays
  <2> QED BY <1>8, <2>2, <2>3 DEF BatchEnds
<1>9. CASE settle
  <2>1. UNCHANGED <<canon, lost>>
    BY <1>9 DEF settle, runtime, history
  <2>2. CASE UNCHANGED <<pending, proj, sends, sent>>
    BY <1>1, <2>1, <2>2, KeptStays
  <2>3. ASSUME submit(TRUE, "skip") PROVE Kept'
    BY <1>1, <2>1, <2>3, SubmitIsFresh, KeptFresh
  <2>4. ASSUME pending # None, SendsAgain, Resends(current(proj).wait), current(proj).wait \notin {None, pending.wait}
        PROVE  Kept'
    BY <1>1, <2>1, <2>4, ResendIsFresh, KeptFresh DEF SendsAgain
  <2>5. ASSUME pending # None, pending.closed \/ pending.retry, Forgets PROVE Kept'
    <3>1. proj' = proj
      BY <2>5 DEF Forgets
    <3>2. ~(~lost /\ IsStaged(proj) /\ ~proj.ready /\ canon.wait # None)
      BY <1>1, <2>5 DEF Kept, Behind
    <3> QED BY <2>1, <3>1, <3>2 DEF Kept, IsStaged
  <2>6. ASSUME pending # None, SettlePending
        PROVE  \/ UNCHANGED <<pending, proj, sends, sent>>
               \/ Forgets /\ (pending.closed \/ pending.retry)
               \/ SendsAgain /\ Resends(current(proj).wait) /\ current(proj).wait \notin {None, pending.wait}
    BY <2>6 DEF SettlePending, SendsAgain, Keeps
  <2> QED BY <1>9, <2>2, <2>3, <2>4, <2>5, <2>6 DEF settle, SettleSkip
<1> QED BY <1>2, <1>3, <1>4, <1>5, <1>6, <1>7, <1>8, <1>9 DEF Next, Bridge

\* The invariant holds of every state of the specification.
LEMMA WaitStep ==
  ASSUME WaitInv, [Next]_vars
  PROVE  WaitInv'
<1>1. TransitionInv'
  BY ShowsWhole, AwaitedKeeps, StepLemma DEF WaitInv, TransitionInv
<1>2. IntentInv'
  BY IntentStep DEF WaitInv
<1>3. Follows'
  BY FollowsStep DEF WaitInv, IntentInv
<1> QED BY <1>1, <1>2, <1>3, KeptStep, BehindStep, AnswersStep DEF WaitInv

---------------------------------------------------------------------------
(* What is outstanding. *)

\* The pending input is answered: it is closed, to be sent again, or the message that closes
\* it is still to come.
Over == pending.retry \/ pending.closed \/ (owed = "message" /\ canon.wait # pending.wait)

\* The submission that carries the pending input now.
Mine(s) == Owns(s) /\ Carries(s)

\* Its message is submitted or accepted; and one that was accepted has not been answered.
Underway ==
  /\ (\E s \in sends : Mine(s)) \/ \E m \in inbox : m.no = pending.msg
  /\ \A s \in sends : Mine(s) /\ s.accepted => \E m \in inbox : m.no = s.no

Outstanding == pending # None /\ ~missed /\ ~Over => Underway

\* After the settle of an idle batch no input is pending that the runtime has answered.
Settled ==
  pump \in {"idle", "resending"} /\ last = "idle" /\ canon.wait # None /\ ~lost /\ pending # None =>
    ~pending.retry /\ ~pending.closed

AnswerInv == WaitInv /\ Outstanding /\ Settled

\* Whose message a message is.
Belongs(m) == m.no = pending.msg \/ \E s \in sends : Mine(s) /\ s.no = m.no

\* A message that belongs to the pending input answers its wait, unless that is being sent again.
LEMMA BelongsToWait ==
  ASSUME Answers, \A s \in sends : First(s), pending # None, NEW m \in inbox, Belongs(m)
  PROVE  m.wait = pending.wait
BY DEF Answers, Belongs, Mine, Owns, All, First

\* No other submission, no message less, no other input.
LEMMA OutstandingStays ==
  ASSUME Outstanding, sends' = sends, ~missed' => ~missed,
         pending' # None => /\ pending # None /\ pending'.of = pending.of /\ pending'.wait = pending.wait
                            /\ pending'.retries = pending.retries
                            /\ ~Over' => /\ pending'.msg = pending.msg /\ ~Over
                                         /\ \A m \in inbox : Belongs(m) => \E n \in inbox' : n.no = m.no
  PROVE  Outstanding'
<1>1. SUFFICES ASSUME pending' # None, ~missed', ~Over' PROVE Underway'
  BY DEF Outstanding
<1>2. /\ pending # None /\ pending'.of = pending.of /\ pending'.wait = pending.wait
      /\ pending'.retries = pending.retries
      /\ pending'.msg = pending.msg /\ \A m \in inbox : Belongs(m) => \E n \in inbox' : n.no = m.no
      /\ Underway
  BY <1>1 DEF Outstanding
<1>3. \A s \in sends : (Mine(s))' <=> Mine(s)
  BY <1>1, <1>2 DEF Mine, Owns, Carries
<1>4. (\E s \in sends' : Mine(s)') \/ \E m \in inbox' : m.no = pending'.msg
  BY <1>2, <1>3 DEF Underway, Belongs
<1>5. \A s \in sends' : Mine(s)' /\ s.accepted => \E m \in inbox' : m.no = s.no
  BY <1>2, <1>3 DEF Underway, Belongs
<1> QED BY <1>4, <1>5 DEF Underway

\* A new submission is the pending input's own, and the only one.
LEMMA OutstandingSend ==
  ASSUME NEW w, NEW i, NEW k, NEW by, Sends(w, i, k, by),
         pending' # None, pending'.wait = w, pending'.of = i, pending'.retries > 0 <=> by = "settle",
         \A s \in sends : ~Mine(s)'
  PROVE  Outstanding'
<1>0. PICK new : new = [no |-> sent + 1, of |-> i, wait |-> w, skip |-> k, by |-> by, accepted |-> FALSE]
  OBVIOUS
<1>1. new.of = i /\ new.wait = w /\ new.by = by /\ ~new.accepted
  BY <1>0
<1>2. sends' = sends \cup {new}
  BY <1>0 DEF Sends
<1>3. Mine(new)'
  BY <1>1 DEF Mine, Owns, Carries
<1>5. Underway'
  BY <1>1, <1>2, <1>3 DEF Underway
<1> QED BY <1>5 DEF Outstanding

\* No other submission carries a new intent.
LEMMA OutstandingSubmit ==
  ASSUME IntentInv, NEW k \in BOOLEAN, NEW by \in {"player", "press", "skip"}, submit(k, by)
  PROVE  Outstanding'
<1>1. PICK w, i : w = current(proj).wait /\ i = sent + 1
  OBVIOUS
<1>2. /\ Sends(w, i, k, by) /\ pending' # None /\ pending'.wait = w /\ pending'.of = i
      /\ pending'.retries = 0
  BY <1>1, SubmitIsFresh DEF Fresh
<1>3. sent \in Nat /\ \A s \in sends : s.of \in 1..sent
  BY DEF IntentInv, Net, NetType, Numbered, All
<1>4. \A s \in sends : ~Mine(s)'
  BY <1>1, <1>2, <1>3 DEF Mine, Carries
<1> QED BY <1>2, <1>4, OutstandingSend

\* The answers of the bridge.
LEMMA OutstandingBridge ==
  ASSUME WaitInv, Outstanding, Bridge
  PROVE  Outstanding'
<1>1. IntentInv /\ NetType /\ Match /\ Answers /\ Ported
  BY DEF WaitInv, IntentInv, Net
<1>2. ASSUME NEW s \in sends, NEW t, t = [s EXCEPT !.accepted = TRUE], NEW m,
             m = [no |-> s.no, of |-> s.of, wait |-> s.wait, skip |-> s.skip, driven |-> FALSE]
      PROVE  t.no = s.no /\ t.wait = s.wait /\ t.by = s.by /\ t.of = s.of /\ m.no = s.no
  BY <1>1, <1>2 DEF NetType, Sent
<1>3. ASSUME NEW s \in sends, BridgeAccepts(s) PROVE Outstanding'
  <2>1. PICK t, m : /\ t = [s EXCEPT !.accepted = TRUE]
                    /\ m = [no |-> s.no, of |-> s.of, wait |-> s.wait, skip |-> s.skip, driven |-> FALSE]
    OBVIOUS
  <2>2. /\ sends' = (sends \ {s}) \cup {t} /\ inbox' = inbox \cup {m}
        /\ pending' = pending /\ missed' = missed /\ owed' = owed /\ canon' = canon
    BY <1>3, <2>1 DEF BridgeAccepts, Accepted, runtime, store, history
  <2>3. t.no = s.no /\ t.wait = s.wait /\ t.by = s.by /\ t.of = s.of /\ m.no = s.no
    BY <1>2, <2>1
  <2>4. SUFFICES ASSUME pending # None, Underway PROVE Underway'
    BY <2>2 DEF Outstanding, Over
  <2>5. \A u : (Mine(u))' <=> Mine(u)
    BY <2>2 DEF Mine, Owns, Carries
  <2>6. Mine(t) <=> Mine(s)
    BY <2>3 DEF Mine, Owns, Carries
  <2> QED BY <2>2, <2>3, <2>4, <2>5, <2>6 DEF Underway
<1>4. ASSUME NEW s \in sends, Acknowledged(s) PROVE Outstanding'
  <2>1. PICK t, m : /\ t = [s EXCEPT !.accepted = TRUE]
                    /\ m = [no |-> s.no, of |-> s.of, wait |-> s.wait, skip |-> s.skip, driven |-> FALSE]
    OBVIOUS
  <2>2. /\ sends' = sends \ {s} /\ missed' = (missed \/ (Owns(s) /\ ~Carries(s)))
        /\ owed' = owed /\ canon' = canon
        /\ (s.accepted /\ inbox' = inbox) \/ inbox' = inbox \cup {m}
    BY <1>4, <2>1 DEF Acknowledged, Accepted, runtime, history
  <2>3. m.no = s.no
    BY <1>2, <2>1
  <2>4. SUFFICES ASSUME pending' # None, ~missed', ~Over' PROVE Underway'
    BY DEF Outstanding
  <2>5. /\ pending # None /\ pending'.of = pending.of /\ pending'.wait = pending.wait
        /\ pending'.closed = pending.closed /\ pending'.retry = pending.retry
        /\ pending'.retries = pending.retries
        /\ Mine(s) => pending'.msg = s.no
        /\ ~Mine(s) => pending' = pending
    BY <1>1, <1>4, <2>2, <2>4, AcknowledgeIsSame DEF Same, Mine
  <2>6. Underway
    BY <2>2, <2>4, <2>5 DEF Outstanding, Over
  <2>7. \A u \in sends : (Mine(u))' <=> Mine(u)
    BY <2>4, <2>5 DEF Mine, Owns, Carries
  <2>8. Mine(s) => \E n \in inbox' : n.no = s.no
    BY <2>2, <2>3, <2>6 DEF Underway
  <2>9. (\E u \in sends' : Mine(u)') \/ \E n \in inbox' : n.no = pending'.msg
    BY <2>2, <2>5, <2>6, <2>7, <2>8 DEF Underway
  <2>10. \A u \in sends' : Mine(u)' /\ u.accepted => \E n \in inbox' : n.no = u.no
    BY <2>2, <2>6, <2>7 DEF Underway
  <2> QED BY <2>9, <2>10 DEF Underway
<1>5. ASSUME NEW s \in sends, SendFails(s) PROVE Outstanding'
  <2>1. /\ sends' = sends \ {s} /\ UNCHANGED <<inbox, missed, owed, canon>>
        /\ pending' = IF Owns(s) THEN None ELSE pending
    BY <1>5 DEF SendFails, runtime
  <2>2. SUFFICES ASSUME ~Owns(s), pending' = pending, pending # None, Underway PROVE Underway'
    BY <2>1 DEF Outstanding, Over
  <2>3. \A u : (Mine(u))' <=> Mine(u)
    BY <2>2 DEF Mine, Owns, Carries
  <2>4. ~Mine(s)
    BY <2>2 DEF Mine
  <2> QED BY <2>1, <2>2, <2>3, <2>4 DEF Underway
<1> QED BY <1>3, <1>4, <1>5 DEF Bridge

\* A notice leaves the pending input answered or not, but for the message that closes it.
LEMMA OutstandingNotice ==
  ASSUME WaitInv, Outstanding, NEW w \in Waits \cup {None}, sends' = sends, missed' = missed,
         \/ ToldByMessage(w) /\ (owed # "none" => canon.wait = w)
         \/ ToldByDelta(w) /\ owed # "message",
         \/ inbox' = inbox
         \/ /\ canon.wait # w /\ w = None /\ canon'.wait = None /\ (ToldByMessage(w) \/ owed' = "message")
            /\ \A s \in sends : First(s)
            /\ \E m \in inbox : inbox' = inbox \ {m} /\ m.wait = canon.wait
  PROVE  Outstanding'
<1>1. IntentInv /\ Answers
  BY DEF WaitInv
<1>2. SUFFICES ASSUME pending' # None
               PROVE  /\ pending # None /\ pending'.of = pending.of /\ pending'.wait = pending.wait
                      /\ pending'.retries = pending.retries
                      /\ ~Over' => /\ pending'.msg = pending.msg /\ ~Over
                                   /\ \A m \in inbox : Belongs(m) => \E n \in inbox' : n.no = m.no
  BY OutstandingStays
<1>3. /\ pending # None /\ pending'.of = pending.of /\ pending'.wait = pending.wait
      /\ pending'.msg = pending.msg /\ pending'.retry = pending.retry
      /\ pending'.retries = pending.retries
      /\ pending' = pending \/ (pending.wait # w /\ pending'.closed)
      /\ ToldByMessage(w) /\ pending.wait # w => pending'.closed
  BY <1>1, <1>2, ToldPending
<1>4. Over => Over'
  BY <1>3 DEF Over
<1>5. ASSUME ~Over', NEW m \in inbox, Belongs(m) PROVE \E n \in inbox' : n.no = m.no
  <2>1. CASE inbox' = inbox
    BY <2>1
  <2>2. CASE inbox' # inbox
    <3>1. /\ w = None /\ canon'.wait = None /\ (ToldByMessage(w) \/ owed' = "message")
          /\ \A s \in sends : First(s)
      BY <2>2
    <3>2. PICK g \in inbox : inbox' = inbox \ {g} /\ g.wait = canon.wait
      BY <2>2
    <3>3. m.wait = pending.wait /\ pending.wait # None
      BY <1>1, <1>3, <1>5, <3>1, BelongsToWait, NoneAssumption DEF IntentInv, Net, NetType, PendingInput
    <3>4. FALSE
      BY <1>3, <1>5, <3>1, <3>3 DEF Over
    <3> QED BY <3>4
  <2> QED BY <2>1, <2>2
<1> QED BY <1>3, <1>4, <1>5

\* Every step keeps the message of the pending input under way until it is answered.
LEMMA OutstandingStep ==
  ASSUME WaitInv, Outstanding, [Next]_vars
  PROVE  Outstanding'
<1>1. IntentInv /\ NetType /\ Match /\ Answers /\ Awaited /\ canon.wait \in Waits \cup {None} /\ ProjectionInv
  BY DEF WaitInv, TransitionInv, IntentInv, ProjectionInv, Net, Frame
<1>2. CASE UNCHANGED <<pending, sends, missed, owed, canon, inbox>>
  BY <1>2, OutstandingStays DEF Over
<1>3. CASE Player
  <2>1. CASE UNCHANGED <<pending, proj, sends, sent>>
    BY <1>2, <1>3, <2>1, PlayerPending
  <2> QED BY <1>1, <1>3, <2>1, PlayerPending, OutstandingSubmit
<1>4. CASE Bridge
  BY <1>4, OutstandingBridge
<1>5. CASE Observes \/ (\E state \in {"idle", "more_work", "stopped"} : BatchEnds(state)) \/ UNCHANGED vars
  <2>1. UNCHANGED <<pending, sends, missed, owed, canon, inbox>>
    BY <1>5 DEF Observes, BatchEnds, vars, runtime, store, transport, history
  <2> QED BY <1>2, <2>1
<1>6. CASE Draws \/ Snapshots
  <2>1. UNCHANGED <<pending, sends, missed, owed, inbox>> /\ owed = "none"
    BY <1>6 DEF Draws, Snapshots, transport
  <2> QED BY <2>1, OutstandingStays DEF Over
<1>7. CASE PumpReturns
  <2>1. UNCHANGED <<pending, sends, missed, owed, canon>>
    BY <1>7 DEF PumpReturns, runtime, store, history
  <2>2. \A m \in inbox : [m EXCEPT !.driven = TRUE].no = m.no
    BY <1>1 DEF NetType, Message
  <2>3. inbox' = {[m EXCEPT !.driven = TRUE] : m \in inbox}
    BY <1>7 DEF PumpReturns
  <2>4. \A m \in inbox : \E n \in inbox' : n.no = m.no
    BY <2>2, <2>3
  <2> QED BY <2>1, <2>4, OutstandingStays DEF Over
<1>8. CASE SecondNotice
  <2>1. PICK w : w = canon.wait
    OBVIOUS
  <2>2. w \in Waits \cup {None} /\ sends' = sends /\ missed' = missed /\ inbox' = inbox
    BY <1>1, <1>8, <2>1 DEF SecondNotice, transport
  <2>3. \/ ToldByMessage(w) /\ canon.wait = w
        \/ ToldByDelta(w) /\ owed # "message"
    BY <1>8, <2>1 DEF SecondNotice
  <2> QED BY <2>2, <2>3, OutstandingNotice
<1>9. CASE Opens
  <2>1. PICK w : w = opened + 1
    OBVIOUS
  <2>2. w \in Waits /\ sends' = sends /\ missed' = missed /\ inbox' = inbox
    BY <1>9, <2>1 DEF Opens, WaitBecomes
  <2>3. (ToldByMessage(w) \/ ToldByDelta(w)) /\ owed = "none"
    BY <1>9, <2>1 DEF Opens, WaitBecomes
  <2> QED BY <2>2, <2>3, OutstandingNotice
<1>10. CASE TimesOut
  <2>1. (ToldByMessage(None) \/ ToldByDelta(None)) /\ owed = "none"
    BY <1>10 DEF TimesOut, Closes, WaitBecomes
  <2>2. sends' = sends /\ missed' = missed /\ inbox' = inbox
    BY <1>10 DEF TimesOut, Closes, WaitBecomes
  <2> QED BY <2>1, <2>2, OutstandingNotice
<1>11. ASSUME NEW m \in inbox, Takes(m) PROVE Outstanding'
  <2>1. WaitBecomes(None) /\ canon.wait # None
    BY <1>11 DEF Takes, Closes
  <2>2. (ToldByMessage(None) \/ ToldByDelta(None)) /\ owed = "none" /\ (ToldByMessage(None) \/ owed' = "message")
        /\ sends' = sends /\ missed' = missed
    BY <2>1 DEF WaitBecomes
  <2>3. canon'.wait = None
    BY <1>1, <2>1, NoticeFollows
  <2>4. \A s \in sends : First(s)
    BY <1>1, <1>11 DEF Takes, Handling, Awaited, Held, First
  <2>5. inbox' = inbox \ {m} /\ m.wait = canon.wait
    BY <1>11 DEF Takes
  <2>6. PICK w \in Waits \cup {None} : w = None
    OBVIOUS
  <2> QED BY <2>1, <2>2, <2>3, <2>4, <2>5, <2>6, OutstandingNotice
<1>12. ASSUME NEW m \in inbox, Rejects(m) PROVE Outstanding'
  <2>1. inbox' = inbox \ {m} /\ UNCHANGED <<sends, owed, canon>>
    BY <1>12 DEF Rejects, runtime
  <2>2. ~missed' => ~missed
    BY <1>12 DEF Rejects
  <2>3. SUFFICES ASSUME pending' # None, ~missed', ~Over' PROVE Outstanding'
    BY DEF Outstanding
  <2>4. pending # None /\ pending' = pending /\ pending.msg # m.no
    BY <1>1, <1>12, <2>3, RejectedPending DEF Over
  <2>5. \A s \in sends : s.no # m.no
    BY <1>12, <2>3, <2>4 DEF Rejects
  <2>6. \A n \in inbox : Belongs(n) => n.no # m.no
    BY <2>4, <2>5 DEF Belongs
  <2>7. \A n \in inbox : Belongs(n) => \E g \in inbox' : g.no = n.no
    BY <2>1, <2>6
  <2> QED BY <2>1, <2>4, <2>7, <2>2, OutstandingStays DEF Over
<1>13. CASE settle
  <2>1. UNCHANGED <<missed, owed, canon, inbox>>
    BY <1>13 DEF settle, runtime, history
  <2>2. CASE pending' = None
    BY <2>2 DEF Outstanding
  <2>3. CASE UNCHANGED <<pending, proj, sends, sent>>
    BY <1>2, <2>1, <2>3
  <2>4. CASE submit(TRUE, "skip")
    BY <1>1, <2>4, OutstandingSubmit
  <2>5. ASSUME pending # None, Resends(current(proj).wait), current(proj).wait \notin {None, pending.wait}
        PROVE  Outstanding'
    <3>1. PICK w, i, k : w = current(proj).wait /\ i = pending.of /\ k = pending.skip
      OBVIOUS
    <3>2. Sends(w, i, k, "settle") /\ pending' # None /\ pending'.wait = w /\ pending'.of = i
      BY <1>1, <2>5, <3>1, ResendIsFresh DEF Fresh
    <3>3. \A s \in sends : First(s)
      BY <1>1, <1>13 DEF settle, Awaited, Held, First
    <3>4. pending'.retries > 0
      BY <1>1, <2>5, <3>1, ResendIsFresh
    <3>5. \A s \in sends : ~Mine(s)'
      BY <3>3, <3>4 DEF Mine, Carries, First
    <3> QED BY <3>2, <3>4, <3>5, OutstandingSend
  <2> QED BY <1>13, <2>2, <2>3, <2>4, <2>5, SettlesPending
<1> QED BY <1>3, <1>4, <1>5, <1>6, <1>7, <1>8, <1>9, <1>10, <1>11, <1>12, <1>13 DEF Next, Events

\* The settle of an idle batch leaves no input pending that the runtime has answered.
LEMMA SettlesIdle ==
  ASSUME WaitInv, settle
  PROVE  Settled'
<1>1. /\ IntentInv /\ proj \in Projection /\ Kept /\ Follows /\ Behind /\ Timely
      /\ UNCHANGED <<canon, last, lost>> /\ pump = "settling"
  BY DEF settle, runtime, history, WaitInv, TransitionInv, ProjectionInv, Sound
<1>2. SUFFICES ASSUME canon.wait # None, ~lost, pending' # None
               PROVE  ~pending'.retry /\ ~pending'.closed
  BY <1>1 DEF Settled
<1>4. CASE submit(TRUE, "skip")
  BY <1>1, <1>4, SubmitIsFresh DEF Fresh
<1>5. CASE pending # None /\ Resends(current(proj).wait) /\ current(proj).wait \notin {None, pending.wait}
  BY <1>1, <1>5, ResendIsFresh DEF Fresh
<1>6. ASSUME UNCHANGED <<pending, proj, sends, sent>>, pending.closed \/ pending.retry
      PROVE  FALSE
  <2>1. canon.wait # pending.wait
    BY <1>1, <1>2, <1>6 DEF Behind
  <2>3. current(proj).wait = canon.wait
    BY <1>1, <1>2 DEF Follows
  <2>4. SettlePending
    BY <1>2, <1>6 DEF settle
  <2>5. current(proj).wait \notin {None, pending.wait}
    BY <1>2, <2>1, <2>3
  <2>6. Forgets \/ Resends(current(proj).wait)
    BY <1>6, <2>4, <2>5 DEF SettlePending, SendsAgain
  <2>7. pending' = None \/ sends' # sends
    <3>1. CASE Forgets
      BY <3>1 DEF Forgets
    <3>2. CASE Resends(current(proj).wait)
      <4>1. sent' = sent + 1 /\ sent \in Nat
        BY <1>1, <3>2 DEF Resends, Sends, IntentInv, Net, NetType
      <4> QED BY <1>6, <4>1
    <3> QED BY <2>6, <3>1, <3>2
  <2> QED BY <1>2, <1>6, <2>7
<1> QED BY <1>2, <1>4, <1>5, <1>6, SettlesPending

\* Only a batch closes or rejects what is pending.
LEMMA SettledStep ==
  ASSUME WaitInv, Settled, [Next]_vars
  PROVE  Settled'
<1>1. IntentInv /\ Awaited
  BY DEF WaitInv, TransitionInv
<1>2. ASSUME UNCHANGED <<canon, last, lost>>, pump \in {"idle", "resending"}, Same \/ Fresh
      PROVE  Settled'
  BY <1>2 DEF Settled, Same, Fresh
<1>3. CASE pump' \notin {"idle", "resending"}
  BY <1>3 DEF Settled
<1>4. CASE UNCHANGED <<canon, last, lost, pump, pending>>
  BY <1>4 DEF Settled
<1>5. CASE Player
  <2>1. UNCHANGED <<canon, last, lost, pump>>
    BY <1>5, PlayerPending
  <2>2. CASE UNCHANGED pending
    BY <1>4, <2>1, <2>2
  <2>3. ASSUME NEW k \in BOOLEAN, NEW by, submit(k, by) PROVE Settled'
    <3>1. ~pending'.closed /\ ~pending'.retry
      BY <1>1, <2>3, SubmitIsFresh DEF Fresh
    <3> QED BY <3>1 DEF Settled
  <2> QED BY <1>5, <2>2, <2>3, PlayerPending
<1>6. CASE Bridge
  <2>1. PICK s \in sends : BridgeAccepts(s) \/ Acknowledged(s) \/ SendFails(s)
    BY <1>6 DEF Bridge
  <2>2. UNCHANGED <<canon, last>> /\ (UNCHANGED lost \/ Cancels)
    BY <2>1 DEF BridgeAccepts, Acknowledged, SendFails, runtime, history
  <2>3. ~lost' => ~lost
    BY <2>2 DEF Cancels, Discards
  <2>4. pump' = pump \/ pump = "resending"
    BY <1>1, <2>1 DEF BridgeAccepts, Acknowledged, SendFails, AfterSend, Awaited, Held
  <2>5. Same
    <3>1. BridgeAccepts(s) \/ SendFails(s) => Same
      BY DEF BridgeAccepts, SendFails, store, Same
    <3> QED BY <1>1, <2>1, <3>1, AcknowledgeIsSame
  <2> QED BY <2>2, <2>5, <2>4, <2>3 DEF Settled, Same
<1>7. CASE PumpReturns \/ Events \/ (\E state \in {"idle", "more_work", "stopped"} : BatchEnds(state))
  <2>1. pump' \in {"handling", "settling"}
    BY <1>7 DEF PumpReturns, BatchEnds, Events, SecondNotice, Opens, TimesOut, Closes, WaitBecomes, Takes,
                Rejects, Draws, Snapshots, Handling
  <2> QED BY <1>3, <2>1
<1>8. CASE Observes \/ UNCHANGED vars
  <2>1. UNCHANGED <<canon, last, lost, pump, pending>>
    BY <1>8 DEF Observes, vars, runtime, store, history
  <2> QED BY <1>4, <2>1
<1>9. CASE settle
  BY <1>9, SettlesIdle
<1> QED BY <1>5, <1>6, <1>7, <1>8, <1>9 DEF Next

\* When nothing is under way nothing is pending, and so nothing is staged.
LEMMA QuietAnswers ==
  ASSUME AnswerInv
  PROVE  PlayerCanAnswer
<1>1. SUFFICES ASSUME Quiet, ~lost, ~missed PROVE canInteract /\ proj.visible = canon
  BY DEF PlayerCanAnswer
<1>2. /\ ProjectionInv /\ proj \in Projection /\ canon \in Frame /\ Kept /\ Timely /\ Outstanding /\ Settled
      /\ Tracks(current(proj))
  BY <1>1 DEF AnswerInv, WaitInv, TransitionInv, ProjectionInv, Sound
<1>3. pending = None
  <2>1. SUFFICES ASSUME pending # None PROVE FALSE
    OBVIOUS
  <2>2. ~pending.retry /\ ~pending.closed
    BY <1>1, <1>2, <2>1 DEF Quiet, Settled
  <2>3. ~Over
    BY <1>1, <2>2 DEF Quiet, Over
  <2> QED BY <1>1, <1>2, <2>1, <2>3 DEF Quiet, Outstanding, Underway
<1>4. ~proj.ready
  BY <1>1, <1>2 DEF Quiet, Timely, InBatch
<1>5. ~IsStaged(proj)
  BY <1>1, <1>2, <1>3, <1>4 DEF Quiet, Kept
<1>6. proj.visible \in Frame /\ Tracks(proj.visible)
  BY <1>2, <1>5 DEF Projection, current
<1>7. proj.visible = canon
  BY <1>1, <1>2, <1>6 DEF Frame, Tracks, Quiet
<1> QED BY <1>1, <1>3, <1>5, <1>7 DEF canInteract, Quiet

\* When the runtime waits for the player and nothing is under way, the store shows that wait and
\* takes an answer: whatever was submitted, rejected, sent again or closed before, no input stays
\* pending and no frame staged (settle, runtimeInput.ts:97).  A loss of frames and a rejection
\* that overtook its acknowledgement are excepted, as in the property.
THEOREM PlayerAlwaysAnswers == Spec => []PlayerCanAnswer
<1>1. Init => AnswerInv
  <2>1. Init => Outstanding /\ Settled
    BY DEF Init, Outstanding, Settled
  <2> QED BY <2>1, WaitInit DEF AnswerInv
<1>2. AnswerInv /\ [Next]_vars => AnswerInv'
  BY WaitStep, OutstandingStep, SettledStep DEF AnswerInv
<1>3. AnswerInv => PlayerCanAnswer
  BY QuietAnswers
<1> QED BY <1>1, <1>2, <1>3, PTL DEF Spec

---------------------------------------------------------------------------
(* The type invariant. *)

\* The variables of small types.
Rest ==
  /\ host \in Hosts /\ presses \in Nat
  /\ owed \in {"none", "delta", "message"} /\ skipping \in {"no", "submit", "settle"}
  /\ pump \in {"idle", "handling", "settling", "resending"}
  /\ last \in {"none", "idle", "more_work", "stopped"}
  /\ newest \in BOOLEAN /\ resync \in BOOLEAN /\ wanted \in BOOLEAN
  /\ lost \in BOOLEAN /\ missed \in BOOLEAN

\* A value that is to be sent again was not sent again before.
RetriesBounded ==
  pending # None /\ ~pending.skip => pending.retries <= (IF pending.retry THEN 0 ELSE 1)

\* The variables of small types.
LEMMA RestStep ==
  ASSUME Rest, [Next]_vars
  PROVE  Rest'
<1>1. CASE Player
  <2>1. wanted' \in BOOLEAN /\ skipping' \in {"no", "submit", "settle"} /\ presses' \in Nat
    <3>1. CASE Answer
      BY <3>1 DEF Rest, Answer
    <3>2. CASE requestMessageSkip
      <4>1. /\ presses' = presses + 1
            /\ wanted' = wanted \/ wanted' = TRUE
            /\ skipping' = skipping \/ skipping' = "submit" \/ skipping' = "settle"
        BY <3>2, Zenon DEF requestMessageSkip
      <4>2. wanted' \in BOOLEAN /\ skipping' \in {"no", "submit", "settle"}
        BY <4>1, Zenon DEF Rest
      <4>3. presses' \in Nat
        BY <4>1 DEF Rest
      <4> QED BY <4>2, <4>3
    <3>3. CASE SkipSignalled
      <4>1. wanted' \in BOOLEAN
        BY <3>3 DEF Rest, SkipSignalled, SettleSkip
      <4> QED BY <3>3, <4>1 DEF Rest, SkipSignalled
    <3> QED BY <1>1, <3>1, <3>2, <3>3 DEF Player
  <2>2. UNCHANGED <<fixed, runtime, pump, last, history>>
    BY <1>1 DEF Player, Answer, requestMessageSkip, SkipSignalled
  <2> QED BY <2>1, <2>2 DEF Rest, fixed, runtime, history
<1>2. ASSUME NEW s \in sends, BridgeAccepts(s) \/ Acknowledged(s) \/ SendFails(s) PROVE Rest'
  <2>1. /\ wanted' \in BOOLEAN /\ lost' \in BOOLEAN
        /\ pump' \in {"idle", "handling", "settling", "resending"}
    BY <1>2 DEF Rest, BridgeAccepts, Acknowledged, SendFails, Cancels, Discards, AfterSend, store, history
  <2>2. missed' \in BOOLEAN
    <3>1. missed' = missed \/ missed' = (missed \/ (Owns(s) /\ ~Carries(s)))
      BY <1>2 DEF BridgeAccepts, Acknowledged, SendFails, history
    <3>2. missed \in BOOLEAN
      BY DEF Rest
    <3> QED BY <3>1, <3>2
  <2>3. UNCHANGED <<fixed, runtime, player, last>>
    BY <1>2 DEF BridgeAccepts, Acknowledged, SendFails
  <2> QED BY <2>1, <2>2, <2>3 DEF Rest, fixed, runtime, player
<1>3. CASE PumpReturns
  BY <1>3 DEF Rest, PumpReturns, fixed, runtime, store, player, history
<1>4. CASE SecondNotice
  BY <1>4 DEF Rest, SecondNotice, ToldByMessage, ToldByDelta, handlePresentationDelta, Discards,
              fixed, runtime, store, player, history
<1>5. CASE Opens \/ TimesOut \/ \E m \in inbox : Takes(m)
  <2>1. \E w \in Waits \cup {None} : WaitBecomes(w)
    BY <1>5 DEF Opens, TimesOut, Takes, Closes
  <2>2. newest' \in BOOLEAN
    BY <1>5 DEF Rest, Opens, TimesOut, Takes, Closes
  <2>3. ASSUME NEW w \in Waits \cup {None}, WaitBecomes(w)
        PROVE  /\ owed' \in {"none", "delta", "message"} /\ resync' \in BOOLEAN /\ lost' \in BOOLEAN
               /\ UNCHANGED <<fixed, wanted, player, pump, last, missed>>
    BY <2>3 DEF Rest, WaitBecomes, ToldByMessage, ToldByDelta, handlePresentationDelta, Discards
  <2> QED BY <2>1, <2>2, <2>3 DEF Rest, fixed, player
<1>6. CASE Draws \/ Snapshots
  BY <1>6 DEF Rest, Draws, Snapshots, handlePresentationDelta, Discards, fixed, player
<1>7. ASSUME NEW m \in inbox, Rejects(m) PROVE Rest'
  <2>1. lost' \in BOOLEAN /\ missed' \in BOOLEAN
    BY <1>7 DEF Rest, Rejects, Cancels, Discards
  <2>2. UNCHANGED <<fixed, runtime, wanted, player, pump, last>>
    BY <1>7 DEF Rejects
  <2> QED BY <2>1, <2>2 DEF Rest, fixed, runtime, player
<1>8. CASE Observes \/ \E state \in {"idle", "more_work", "stopped"} : BatchEnds(state)
  BY <1>8 DEF Rest, Observes, BatchEnds, fixed, runtime, player, history
<1>9. CASE settle
  <2>1. pump' \in {"idle", "resending"} /\ wanted' \in BOOLEAN
    BY <1>9 DEF Rest, settle, SettlePending, SettleSkip, Forgets, Keeps, Resends, submit
  <2>2. UNCHANGED <<fixed, runtime, player, last, history>>
    BY <1>9 DEF settle
  <2> QED BY <2>1, <2>2 DEF Rest, fixed, runtime, player, history
<1>10. CASE UNCHANGED vars
  BY <1>10 DEF Rest, vars, fixed, runtime, store, player, history
<1> QED BY <1>1, <1>2, <1>3, <1>4, <1>5, <1>6, <1>7, <1>8, <1>9, <1>10 DEF Next, Bridge, Events

\* A value is sent again only after a rejection, and rejected for retry only once.
LEMMA RetriesStep ==
  ASSUME NetType, RetriesBounded, [Next]_vars
  PROVE  RetriesBounded'
<1>1. pending # None => pending \in PendingInput
  BY DEF NetType
<1>2. CASE PendingStays
  BY <1>1, <1>2, PendingStaysLemma DEF RetriesBounded, PendingStays, PendingInput
<1>3. ASSUME NEW k, NEW by, submit(k, by) PROVE RetriesBounded'
  BY <1>3 DEF submit, RetriesBounded
<1>4. Player => PendingStays \/ \E k, by : submit(k, by)
  BY DEF Player, Answer, requestMessageSkip, SkipSignalled, SettleSkip, Refused, PendingStays
<1>5. CASE Bridge
  BY <1>1, <1>2, <1>5 DEF Bridge, BridgeAccepts, Acknowledged, SendFails, store, PendingStays, Owns,
                          RetriesBounded, PendingInput
<1>6. Events => PendingStays \/ \E m \in inbox : Rejects(m)
  BY DEF Events, SecondNotice, Opens, TimesOut, Takes, Closes, WaitBecomes, ToldByMessage, ToldByDelta,
         handleRuntimeWaitChanged, Draws, Snapshots, PendingStays
<1>7. ASSUME NEW m \in inbox, Rejects(m) PROVE RetriesBounded'
  <2>1. CASE PendingStays
    BY <1>2, <2>1
  <2>2. CASE pending # None /\ willRetryInput(m.wait # canon.wait)
             /\ pending' = [pending EXCEPT !.msg = 0, !.retry = TRUE, !.closed = FALSE]
    <3>1. pending'.skip = pending.skip /\ pending'.retries = pending.retries
      BY <1>1, <2>2 DEF PendingInput
    <3> QED BY <2>2, <3>1 DEF RetriesBounded, willRetryInput
  <2> QED BY <1>7, <2>1, <2>2 DEF Rejects, PendingStays
<1>8. CASE settle
  <2>1. CASE SettleSkip("skip")
    BY <1>2, <1>3, <2>1 DEF SettleSkip, PendingStays
  <2>2. CASE Keeps \/ Forgets
    BY <1>2, <2>2 DEF Keeps, Forgets, PendingStays
  <2>3. ASSUME pending # None, SendsAgain, NEW w, Resends(w) PROVE RetriesBounded'
    <3>1. pending \in PendingInput
      BY <1>1, <2>3
    <3>2. pending'.skip = pending.skip /\ ~pending'.retry /\ pending'.retries = pending.retries + 1
      BY <2>3, <3>1 DEF Resends, PendingInput
    <3>3. ~pending.skip => pending.retries = 0
      BY <2>3, <3>1 DEF SendsAgain, RetriesBounded, PendingInput
    <3> QED BY <3>2, <3>3 DEF RetriesBounded
  <2> QED BY <1>8, <2>1, <2>2, <2>3 DEF settle, SettlePending
<1>9. PumpReturns \/ Observes \/ (\E state \in {"idle", "more_work", "stopped"} : BatchEnds(state))
      \/ UNCHANGED vars => PendingStays
  BY DEF PumpReturns, Observes, BatchEnds, vars, store, PendingStays
<1> QED BY <1>2, <1>3, <1>4, <1>5, <1>6, <1>7, <1>8, <1>9 DEF Next

\* Every variable of input and projection keeps its type, and a value is sent again at most
\* once (staleRetries, runtimeRejections.ts:65).
THEOREM InputTypeCorrect == Spec => []TypeOK
<1> DEFINE Inv == IntentInv /\ Rest /\ RetriesBounded
<1>1. Init => Inv
  <2>1. ASSUME Init PROVE Rest /\ RetriesBounded
    BY <2>1 DEF Init, Rest, RetriesBounded
  <2> QED BY <2>1, IntentInit
<1>2. Inv /\ [Next]_vars => Inv'
  BY IntentStep, RestStep, RetriesStep DEF IntentInv, Net
<1>3. Inv => TypeOK
  <2>1. SUFFICES ASSUME Inv PROVE TypeOK
    OBVIOUS
  <2>2. /\ proj \in Projection /\ canon \in Frame /\ opened \in Nat /\ NetType
    BY <2>1 DEF IntentInv, ProjectionInv, Sound, Net, Match, Opened
  <2>3. taken \subseteq Nat
    BY <2>2 DEF NetType
  <2>4. pending # None /\ ~pending.skip => pending.retries <= 1
    BY <2>1, <2>2 DEF RetriesBounded, NetType, PendingInput
  <2> QED BY <2>1, <2>2, <2>3, <2>4 DEF TypeOK, NetType, Rest
<1> QED BY <1>1, <1>2, <1>3, PTL DEF Spec
=============================================================================
