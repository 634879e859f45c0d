--------------------------- MODULE RuntimeInput ---------------------------
(***************************************************************************)
(* The player's input between the store and the runtime (stores/           *)
(* runtimeInput.ts, runtimeRejections.ts), and what it does to the frame   *)
(* (PresentationProjection).  The store remembers one pending input until  *)
(* the runtime has taken it and asks for the next one; a stale one is sent *)
(* again, once, for the wait that replaced its own.                        *)
(*                                                                         *)
(* The runtime is external: it draws, opens and closes waits, and takes or *)
(* rejects inputs.  It tells each change of its wait by a wait_changed     *)
(* message and may carry it in a presentation delta too, in either order.  *)
(* A batch is handled event by event; what the runtime does for an event   *)
(* and the store's handler of it are one action.  A handler may be awaited *)
(* between any two events, so the player acts in between.  An input        *)
(* reaches the runtime when the bridge accepts it and takes part in the    *)
(* batches pumped after that.                                              *)
(***************************************************************************)
EXTENDS PresentationProjection

CONSTANTS
  Hosts,       \* where the page runs, "browser" or "native"
  Kindings,    \* the kinds the waits may have, one function per game
  Failing,     \* bound: the submissions that may fail, by number
  MaxPresses,  \* bound: how often the player acts
  MaxRevision, \* bound: the last revision of the runtime's frame
  MaxActivity  \* bound: the player's acts and the runtime's revisions together

ASSUME WaitsAssumption == Waits \subseteq Nat \ {0}
ASSUME HostsAssumption == Hosts \subseteq {"browser", "native"}
ASSUME KindingsAssumption == Kindings \subseteq [Waits -> {"enter_key", "stop_key", "integer_value"}]
ASSUME BoundsAssumption == Failing \subseteq Nat /\  {MaxPresses, MaxRevision, MaxActivity} \subseteq Nat

\* stop_key is an enter_key with stop_message_skip.
Kinds == {"enter_key", "stop_key", "integer_value"}

VARIABLES
  host,     \* the one of Hosts
  kinds,    \* the kind of each wait
  canon,    \* the runtime's frame
  opened,   \* the last wait the runtime opened, 0 for none
  newest,   \* ... in the batch being handled: nothing closes it before the next
  owed,     \* the second notice of the last change of wait: "delta", "message" or "none"
  inbox,    \* inputs the bridge has accepted; driven: the runtime was pumped since
  proj,     \* presentationProjection
  pump,     \* "idle", "handling" a batch, "settling" after it, "resending" an input
  last,     \* the state of the last batch, "none" before it has ended
  resync,   \* a resynchronization is requested
  pending,  \* pendingGameInput
  wanted,   \* messageSkipRequested
  skipping, \* a skip whose mouse edge is being signalled: "submit" or "settle" follows
  sends,    \* inputs whose submission is awaited
  presses,  \* how often the player acted
  sent,     \* how many inputs were sent
  lost,     \* history: a staged change was discarded and no snapshot came since
  missed,   \* history: a rejection came before its input was acknowledged, or an input got
            \* the number of a message that does not carry it
  taken     \* history: the intents the runtime has taken, message skips excepted

runtime == <<canon, opened, newest, owed, resync>>
store == <<proj, pending, wanted>>
player == <<presses, skipping>>
transport == <<sends, inbox, sent>>
history == <<lost, missed, taken>>
fixed == <<host, kinds>>
vars == <<fixed, runtime, store, player, transport, pump, last, history>>

\* A submission that is awaited; an input the bridge has accepted.
Sent ==
  [no: Nat, of: Nat, wait: Waits, skip: BOOLEAN,
   by: {"player", "press", "skip", "settle"}, accepted: BOOLEAN]
Message == [no: Nat, of: Nat, wait: Waits, skip: BOOLEAN, driven: BOOLEAN]

PendingInput ==
  [of: Nat, wait: Waits, kind: Kinds, skip: BOOLEAN, msg: Nat,
   closed: BOOLEAN, retry: BOOLEAN, retries: Nat]

ASSUME PendingAssumption == None \notin PendingInput

Init ==
  /\ host \in Hosts
  /\ kinds \in Kindings
  /\ canon = emptyPresentation /\ opened = 0 /\ newest = FALSE /\ owed = "none"
  /\ proj = initial /\ pending = None /\ wanted = FALSE
  /\ inbox = {} /\ sends = {} /\ sent = 0
  /\ pump = "idle" /\ last = "none" /\ resync = FALSE
  /\ presses = 0 /\ skipping = "no"
  /\ lost = FALSE /\ missed = FALSE /\ taken = {}

PressesLeft == presses < MaxPresses /\ presses + canon.rev < MaxActivity
RevisionsLeft == canon.rev < MaxRevision /\ presses + canon.rev < MaxActivity

isMessageContinuationWait(w) == w # None /\ kinds[w] \in {"enter_key", "stop_key"}
isMessageSkipWait(w) == w # None /\ kinds[w] = "enter_key"

\* The kind a wait tells; stop_message_skip is a flag beside it.
KindOf(w) == IF kinds[w] = "stop_key" THEN "enter_key" ELSE kinds[w]

\* A change of the projection, with what it may lose.
Discards(next) ==
  /\ proj' = next
  /\ lost' = (lost \/ (IsStaged(proj) /\ ~IsStaged(next) /\ proj.staged # proj.visible))

Cancels == Discards(cancelInputTransition(proj))

---------------------------------------------------------------------------
(* Sending an input. *)

\* sendInput: by is the caller, which settles the answer.
Sends(w, intent, skip, by) ==
  /\ sent' = sent + 1
  /\ sends' = sends \cup {[no |-> sent + 1, of |-> intent, wait |-> w, skip |-> skip,
                           by |-> by, accepted |-> FALSE]}

\* submit, up to its await; the intent is named by the message that first carries it.
submit(skip, by) ==
  LET w == current(proj).wait
  IN /\ pending = None /\ w # None
     /\ pending' = [of |-> sent + 1, wait |-> w, kind |-> KindOf(w), skip |-> skip,
                    msg |-> 0, closed |-> FALSE, retry |-> FALSE, retries |-> 0]
     /\ proj' = beginInputTransition(proj)
     /\ Sends(w, sent + 1, skip, by)

\* submit refuses: something is pending, or no wait is shown.
Refused == (pending # None \/ current(proj).wait = None) /\ UNCHANGED <<proj, pending, sends, sent>>

\* settle compares the pending object, submit the identity of its wait.
Owns(s) == pending # None /\ IF s.by = "settle" THEN pending.of = s.of ELSE pending.wait = s.wait

\* The submission that carries the pending input now: its first, or the last of settle.
Carries(s) == pending.of = s.of /\ (pending.retries > 0 <=> s.by = "settle")

\* The player's own call, or the batch: settle and the skip it submits are awaited by handleBatch.
AfterSend(s) == pump' = IF s.by \in {"settle", "skip"} THEN "idle" ELSE pump

Accepted(s) == inbox' = inbox \cup {[no |-> s.no, of |-> s.of, wait |-> s.wait, skip |-> s.skip,
                                       driven |-> FALSE]}

\* The browser's port delivers the acknowledgement before any batch that saw the input, so
\* there acceptance and acknowledgement are one step; native IPC keeps them apart.
BridgeAccepts(s) ==
  /\ host = "native" /\ ~s.accepted
  /\ sends' = (sends \ {s}) \cup {[s EXCEPT !.accepted = TRUE]}
  /\ Accepted(s)
  /\ UNCHANGED <<fixed, runtime, store, player, sent, pump, last, history>>

Acknowledged(s) ==
  /\ \/ host = "native" /\ s.accepted /\ UNCHANGED inbox
     \/ host = "browser" /\ Accepted(s)
  /\ sends' = sends \ {s}
  /\ pending' = IF Owns(s) THEN [pending EXCEPT !.msg = s.no] ELSE pending
  /\ wanted' = (wanted /\ s.by \notin {"skip", "press"})
  /\ missed' = (missed \/ (Owns(s) /\ ~Carries(s)))
  /\ AfterSend(s)
  /\ UNCHANGED <<fixed, runtime, proj, player, sent, last, lost, taken>>

\* The submission is rejected: the transition is cancelled whatever was staged in it.
SendFails(s) ==
  /\ s.no \in Failing /\ ~s.accepted
  /\ sends' = sends \ {s}
  /\ pending' = IF Owns(s) THEN None ELSE pending
  /\ Cancels
  /\ AfterSend(s)
  /\ UNCHANGED <<fixed, runtime, wanted, player, inbox, sent, last, missed, taken>>

---------------------------------------------------------------------------
(* The player. *)

canInteract == ~IsStaged(proj) /\ proj.visible.wait # None /\ pending = None

Answer ==
  /\ PressesLeft /\ presses' = presses + 1
  /\ canInteract
  /\ submit(FALSE, "player")
  /\ UNCHANGED <<fixed, runtime, wanted, skipping, inbox, pump, last, history>>

\* requestMessageSkip: a continuation is submitted, after the mouse edge when it stops
\* skipping; anything else arms the skip and signals the edge.
requestMessageSkip ==
  LET w == current(proj).wait
  IN /\ PressesLeft /\ presses' = presses + 1
     /\ skipping = "no" /\ pending = None
     /\ \/ /\ isMessageSkipWait(w)
           /\ submit(TRUE, "player")
           /\ UNCHANGED <<wanted, skipping>>
        \/ /\ isMessageContinuationWait(w) /\ ~isMessageSkipWait(w)
           /\ skipping' = "submit"
           /\ UNCHANGED <<proj, pending, wanted, sends, sent>>
        \/ /\ ~isMessageContinuationWait(w)
           /\ skipping' = "settle" /\ wanted' = TRUE
           /\ UNCHANGED <<proj, pending, sends, sent>>
     /\ UNCHANGED <<fixed, runtime, inbox, pump, last, history>>

\* settleMessageSkipRequest, for the player's press or for the batch.
SettleSkip(by) ==
  LET w == current(proj).wait
      waits == ~wanted \/ pending # None \/ w = None
  IN \/ waits /\ UNCHANGED <<proj, pending, wanted, sends, sent>>
     \/ /\ ~waits /\ ~isMessageSkipWait(w)
        /\ wanted' = FALSE
        /\ UNCHANGED <<proj, pending, sends, sent>>
     \/ /\ ~waits /\ isMessageSkipWait(w)
        /\ submit(TRUE, by)
        /\ UNCHANGED wanted

SkipSignalled ==
  /\ skipping # "no" /\ skipping' = "no"
  /\ \/ skipping = "submit" /\ (submit(TRUE, "player") \/ Refused) /\ UNCHANGED wanted
     \/ skipping = "settle" /\ SettleSkip("press")
  /\ UNCHANGED <<fixed, runtime, presses, inbox, pump, last, history>>

---------------------------------------------------------------------------
(* A batch: what the runtime does, and the handler of the event. *)

Handling == pump = "handling"
Deltas(w) ==
  [base: {canon.rev}, new: {canon.rev + 1}, redraws: {<<>>, <<FALSE>>, <<TRUE>>, <<FALSE, TRUE>>},
   waits: w, erases: BOOLEAN]

\* An input takes part in the batches pumped after its acceptance.
PumpReturns ==
  /\ pump = "idle" /\ last # "stopped" /\ pump' = "handling" /\ last' = "none"
  /\ inbox' = {[m EXCEPT !.driven = TRUE] : m \in inbox}
  /\ UNCHANGED <<fixed, runtime, store, player, sends, sent, history>>

\* handlePresentationDelta: a delta that does not apply asks for a snapshot.
handlePresentationDelta(delta) ==
  /\ Discards(projectDelta(proj, delta))
  /\ resync' = (resync \/ ~Applies(proj, delta))

\* handleRuntimeWaitChanged, with updateWait and closeWait.
handleRuntimeWaitChanged(w) ==
  /\ proj' = IF w = None THEN closeInputWait(proj) ELSE openInputWait(proj, w)
  /\ pending' = IF pending = None \/ pending.wait = w THEN pending
                ELSE [pending EXCEPT !.closed = TRUE]

ToldByMessage(w) ==
  /\ handleRuntimeWaitChanged(w)
  /\ UNCHANGED <<resync, lost>>

ToldByDelta(w) ==
  /\ RevisionsLeft
  /\ \E delta \in Deltas({<<w>>}) :
       /\ handlePresentationDelta(delta)
       /\ canon' = applyDelta(canon, delta)
  /\ UNCHANGED pending

\* The runtime's wait changes, and the first of its notices is handled.
WaitBecomes(w) ==
  /\ owed = "none"
  /\ \/ ToldByMessage(w) /\ canon' = [canon EXCEPT !.wait = w] /\ owed' \in {"none", "delta"}
     \/ ToldByDelta(w) /\ owed' = "message"
  /\ UNCHANGED <<fixed, wanted, player, sends, sent, pump, last, missed>>

SecondNotice ==
  /\ Handling
  /\ \/ owed = "message" /\ ToldByMessage(canon.wait) /\ UNCHANGED canon
     \/ owed = "delta" /\ ToldByDelta(canon.wait)
  /\ owed' = "none"
  /\ UNCHANGED <<fixed, opened, newest, wanted, player, transport, pump, last, missed, taken>>

Opens ==
  /\ Handling /\ opened + 1 \in Waits
  /\ canon.wait # None => ~newest    \* an update of the wait's token
  /\ WaitBecomes(opened + 1)
  /\ opened' = opened + 1 /\ newest' = TRUE
  /\ UNCHANGED <<inbox, taken>>

Closes == canon.wait # None /\ ~newest /\ WaitBecomes(None) /\ UNCHANGED <<opened, newest>>

TimesOut == Handling /\ Closes /\ UNCHANGED <<inbox, taken>>

Takes(m) ==
  /\ Handling /\ m.driven /\ m.wait = canon.wait
  /\ Closes
  /\ inbox' = inbox \ {m}
  /\ taken' = IF m.skip THEN taken ELSE taken \cup {m.of}

\* classifyRuntimeRejection: a message skip is retried always, a value once.
RetriesAlways(stale) == stale
willRetryInput(stale) == stale /\ (pending.skip \/ pending.retries = 0)

\* The handler of command_rejected: the wait is another, or the value does not match it.
Rejects(m) ==
  LET stale == m.wait # canon.wait
      rejected == pending # None /\ pending.msg = m.no
  IN /\ Handling /\ m.driven /\ owed = "none"
     /\ stale \/ ~m.skip
     /\ inbox' = inbox \ {m}
     /\ \/ /\ ~rejected
           /\ missed' = (missed \/ \E s \in sends : s.no = m.no)
           /\ UNCHANGED <<proj, pending, lost>>
        \/ /\ rejected /\ willRetryInput(stale)
           /\ pending' = [pending EXCEPT !.msg = 0, !.retry = TRUE, !.closed = FALSE]
           /\ UNCHANGED <<proj, missed, lost>>
        \/ /\ rejected /\ ~willRetryInput(stale)
           /\ pending' = None
           /\ Cancels
           /\ UNCHANGED missed
     /\ UNCHANGED <<fixed, runtime, wanted, player, sends, sent, pump, last, taken>>

\* The script that switches redraw runs only between waits.
Draws ==
  /\ Handling /\ owed = "none" /\ RevisionsLeft
  /\ \E delta \in Deltas({<<>>}) :
       /\ canon.wait # None => delta.redraws = <<>>
       /\ handlePresentationDelta(delta)
       /\ canon' = applyDelta(canon, delta)
  /\ UNCHANGED <<fixed, opened, newest, owed, pending, wanted, player, transport, pump, last,
                 missed, taken>>

\* runtime_resynchronized answers a request; a presentation_snapshot comes by itself.
Snapshots ==
  /\ Handling /\ owed = "none"
  /\ \/ resync /\ resync' = FALSE /\ UNCHANGED canon
     \/ /\ RevisionsLeft
        /\ \E redraw \in BOOLEAN :
             canon' = [canon EXCEPT !.rev = canon.rev + 1, !.redraw = redraw]
        /\ UNCHANGED resync
  /\ proj' = projectSnapshot(proj, canon') /\ lost' = FALSE
  /\ UNCHANGED <<fixed, opened, newest, owed, pending, wanted, player, transport, pump, last,
                 missed, taken>>

\* A device_pump request shows what is staged; present_now and a query of the projection,
\* whose handler may run at any time, show the revision the runtime names.
Observes ==
  /\ IsStaged(proj) /\ (Handling \/ current(proj).rev = canon.rev)
  /\ proj' = publishForObservationBarrier(proj)
  /\ UNCHANGED <<fixed, runtime, pending, wanted, player, transport, pump, last, history>>

BatchEnds(state) ==
  /\ Handling /\ owed = "none" /\ pump' = "settling" /\ last' = state /\ newest' = FALSE
  /\ state = "stopped" => canon.wait = None
  /\ proj' = IF shouldPublish(proj, state) THEN publish(proj) ELSE proj
  /\ UNCHANGED <<fixed, canon, opened, owed, resync, pending, wanted, player, transport, history>>

---------------------------------------------------------------------------
(* settle, at the end of the batch. *)

Forgets == pending' = None /\ pump' = "idle" /\ UNCHANGED <<proj, sends, sent>>
Keeps == pump' = "idle" /\ UNCHANGED <<pending, proj, sends, sent>>

\* The pending input is sent again, for the wait that is shown now.
Resends(w) ==
  /\ pending' = [pending EXCEPT !.wait = w, !.closed = FALSE, !.retry = FALSE,
                                !.retries = pending.retries + 1]
  /\ proj' = beginInputTransition(proj)
  /\ Sends(w, pending.of, pending.skip, "settle")
  /\ pump' = "resending"

\* A rejected input is, and a skip goes on with every wait until its end.
SendsAfterClose == pending.retry \/ pending.closed
SendsAgain == pending.retry \/ (pending.closed /\ pending.skip)

SettlePending ==
  LET w == current(proj).wait
      again == SendsAgain
      done == pending.closed /\ w # None /\ w # pending.wait
  IN \/ ~again /\ done /\ Forgets
     \/ ~again /\ ~done /\ Keeps
     \/ again /\ w = None /\ Keeps /\ canon.wait = None    \* the phase is running
     \/ again /\ w = None /\ Forgets                       \* it is not
     \/ again /\ w = pending.wait /\ Keeps
     \/ /\ again /\ w \notin {None, pending.wait}
        /\ IF (pending.skip /\ ~isMessageSkipWait(w)) \/ KindOf(w) # pending.kind
           THEN Forgets ELSE Resends(w)

settle ==
  /\ pump = "settling"
  /\ \/ pending # None /\ SettlePending /\ UNCHANGED wanted
     \/ pending = None /\ SettleSkip("skip")
        /\ pump' = IF sends' = sends THEN "idle" ELSE "resending"
  /\ UNCHANGED <<fixed, runtime, player, inbox, last, history>>

---------------------------------------------------------------------------
Player == Answer \/ requestMessageSkip \/ SkipSignalled

Bridge == \E s \in sends : BridgeAccepts(s) \/ Acknowledged(s) \/ SendFails(s)

Events ==
  \/ SecondNotice \/ Opens \/ TimesOut \/ Draws \/ Snapshots
  \/ \E m \in inbox : Takes(m) \/ Rejects(m)

Next ==
  \/ Player \/ Bridge \/ PumpReturns \/ Events \/ Observes
  \/ \E state \in {"idle", "more_work", "stopped"} : BatchEnds(state)
  \/ settle

Spec == Init /\ [][Next]_vars

---------------------------------------------------------------------------
(* What must hold. *)

\* Every variable of input and projection keeps its type; a value is sent again at most once
\* (staleRetries).
TypeOK ==
  /\ host \in Hosts /\ kinds \in [Waits -> Kinds]
  /\ proj \in Projection /\ canon \in Frame
  /\ pending \in PendingInput \cup {None}
  /\ pending # None /\ ~pending.skip => pending.retries <= 1
  /\ sends \subseteq Sent /\ inbox \subseteq Message /\ taken \subseteq Nat
  /\ {sent, opened, presses} \subseteq Nat
  /\ owed \in {"none", "delta", "message"} /\ skipping \in {"no", "submit", "settle"}
  /\ pump \in {"idle", "handling", "settling", "resending"}
  /\ last \in {"none", "idle", "more_work", "stopped"}
  /\ {newest, resync, wanted, lost, missed} \subseteq BOOLEAN

\* Whatever is staged, published or kept back, the frame the store works on is the
\* runtime's: revision and redraw always, the wait once both its notices are handled.
CurrentIsCanonical ==
  ~lost =>
    /\ current(proj).rev = canon.rev
    /\ current(proj).redraw = canon.redraw
    /\ owed = "none" => current(proj).wait = canon.wait

\* A staged frame always has a way to the screen: it is ready, or an idle runtime flushes
\* it, or an input transition or a switched-off redraw keeps it, and those end
\* (runtimePresentation.ts:70 warns of a clone that is stranded).
HasExit(p) == IsStaged(p) => p.ready \/ p.flush \/ p.transition \/ ~p.staged.redraw
NoStrandedFrame == HasExit(proj)

\* Everything is delivered and answered, and the runtime waits for the player.
Quiet ==
  /\ pump = "idle" /\ last = "idle" /\ canon.wait # None /\ owed = "none"
  /\ inbox = {} /\ sends = {} /\ skipping = "no" /\ ~resync

\* When the runtime waits and nothing is under way, the player sees the wait and may answer
\* it: no input stays pending and no frame staged.  (Except after a loss of frames,
\* a rejection that overtook its acknowledgement, and a number given to an input whose message
\* it is not: see the hazards.)
PlayerCanAnswer == Quiet /\ ~lost /\ ~missed => canInteract /\ proj.visible = canon

\* The runtime takes one intent of the player at most once, resent or not.
TakenOnce ==
  [][\A m \in inbox : Takes(m) /\ ~m.skip => m.of \notin taken]_vars

\* While an input's transition is staged, the screen changes only to a frame that asks for
\* the next input, whatever redraw boundaries and pumps lie between
\* (runtimePresentation.ts:40); observations, snapshots and a stopped runtime excepted.
TransitionIsAtomic ==
  [][proj.transition /\ proj'.visible # proj.visible =>
       \/ proj'.visible.wait # None
       \/ Observes \/ Snapshots \/ last' = "stopped"]_vars
===========================================================================
