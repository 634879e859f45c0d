---------------------------- MODULE WorkerProofs ----------------------------
(***************************************************************************)
(* Proofs about the worker client, for any callers and any number of       *)
(* restarts, and about the project operations that use it: they never have *)
(* two workers, and the client keeps the promise of WorkerCalls; the       *)
(* runtime holds the committed project or none, an operation that succeeds *)
(* has its project loaded, and no upload meets the parts of another.       *)
(***************************************************************************)
EXTENDS ProjectOperations, SequenceTheorems, TLAPS

-----------------------------------------------------------------------------
(* The inductive invariant. *)

\* Only the operation that later restarts join can be waiting for its turn, so that no other can
\* create a worker beside the one it creates; after close it may still be waiting.
WaitingIsJoined ==
  \A k \in Restarts :
    operation[k] = "waiting" =>
      lifecycle = "closed" \/ (lifecycle = "restarting" /\ restartOperation = k)

\* clearRestartOperation can only find its own settled operation, or a later one that waits.
JoinedIsWaiting ==
  /\ lifecycle = "restarting" =>
       restartOperation \in Restarts /\ operation[restartOperation] = "waiting"
  /\ \A k \in uncleared : operation[k] # "waiting"

\* An operation that has not been started is not known.
LaterIsUnknown ==
  \A k \in Restarts : k > restarts => operation[k] = "none" /\ k \notin uncleared

ClientInv == ClientTypeOK /\ OneWorker /\ WaitingIsJoined /\ JoinedIsWaiting /\ LaterIsUnknown

LEMMA ClientInitInv == ClientInit => ClientInv
  BY RestartsAssumption
     DEF ClientInit, ClientInv, ClientTypeOK, OneWorker, WaitingIsJoined, JoinedIsWaiting, LaterIsUnknown, None, Restarts

LEMMA CallsKeepInv ==
  ASSUME ClientInv, NEW c \in Callers,
         Request(c) \/ \E r \in {"answered", "rejected"} : Settle(c, r)
  PROVE  ClientInv'
  BY DEF ClientInv, ClientTypeOK, OneWorker, WaitingIsJoined, JoinedIsWaiting, LaterIsUnknown, Request, Settle,
         restartVars, None, Restarts

LEMMA EndKeepsInv ==
  ASSUME ClientInv, Crash \/ Close
  PROVE  ClientInv'
<1>1. ClientTypeOK'
  <2>1. call' \in [Callers -> {"none", "waiting", "answered", "rejected"}]
    BY DEF ClientInv, ClientTypeOK, Crash, Close, RejectPending
  <2>2. UNCHANGED <<generation, restarts, restartOperation, operation, uncleared>>
    BY DEF Crash, Close, restartVars
  <2>3. lifecycle' \in {"failed", "closed"} /\ worker' = None /\ alive' \subseteq alive
    BY DEF Crash, Close, DetachAndTerminate
  <2>. QED BY <2>1, <2>2, <2>3 DEF ClientInv, ClientTypeOK, None
<1>2. OneWorker'
  BY DEF ClientInv, OneWorker, Crash, Close, DetachAndTerminate, restartVars, None
<1>3. WaitingIsJoined' /\ JoinedIsWaiting' /\ LaterIsUnknown'
  BY DEF ClientInv, WaitingIsJoined, JoinedIsWaiting, LaterIsUnknown, Crash, Close, restartVars, OneWorker
<1>. QED BY <1>1, <1>2, <1>3 DEF ClientInv

LEMMA RestartKeepsInv ==
  ASSUME ClientInv, Restart
  PROVE  ClientInv'
<1>1. CASE RestartJoins
  BY <1>1 DEF RestartJoins, clientVars, restartVars, ClientInv, ClientTypeOK, OneWorker,
              WaitingIsJoined, JoinedIsWaiting, LaterIsUnknown, None, Restarts
<1>2. CASE RestartStarts
  <2>1. ClientTypeOK'
    BY <1>2, RestartsAssumption DEF RestartStarts, DetachAndTerminate, RejectPending, ClientInv, ClientTypeOK, None, Restarts
  <2>2. OneWorker'
    BY <1>2, RestartsAssumption DEF RestartStarts, DetachAndTerminate, ClientInv, ClientTypeOK, OneWorker, None, Restarts
  <2>3. WaitingIsJoined'
    BY <1>2, RestartsAssumption DEF RestartStarts, ClientInv, ClientTypeOK, WaitingIsJoined, JoinedIsWaiting, LaterIsUnknown, None, Restarts
  <2>4. JoinedIsWaiting' /\ LaterIsUnknown'
    BY <1>2, RestartsAssumption DEF RestartStarts, ClientInv, ClientTypeOK, WaitingIsJoined, JoinedIsWaiting, LaterIsUnknown, None, Restarts
  <2>. QED BY <2>1, <2>2, <2>3, <2>4 DEF ClientInv
<1>. QED BY <1>1, <1>2 DEF Restart

LEMMA ClientStepKeepsInv ==
  ASSUME ClientInv, NEW k \in Restarts, ClientStep(k)
  PROVE  ClientInv'
<1>1. CASE PerformRestart(k)
  <2>1. ClientTypeOK'
    <3>1. CASE UNCHANGED <<generation, worker, alive>>
      BY <1>1, <3>1 DEF PerformRestart, Continues, ClientInv, ClientTypeOK, Restarts
    <3>2. CASE /\ generation' = generation + 1 /\ worker' = generation' /\ alive' = alive \cup {generation'}
               /\ lifecycle' = "running" /\ operation' = [operation EXCEPT ![k] = "resolved"]
      <4>1. generation' \in Nat /\ worker' \in 0..generation'
        BY <3>2 DEF ClientInv, ClientTypeOK
      <4>2. alive' \subseteq 1..generation'
        BY <3>2 DEF ClientInv, ClientTypeOK
      <4>. QED BY <1>1, <3>2, <4>1, <4>2 DEF PerformRestart, ClientInv, ClientTypeOK, Restarts
    <3>. QED BY <1>1, <3>1, <3>2 DEF PerformRestart, Continues
  <2>2. OneWorker'
    <3>1. lifecycle = "restarting" => alive = {}
      BY DEF ClientInv, ClientTypeOK, OneWorker, None
    <3>2. CASE /\ generation' = generation + 1 /\ worker' = generation' /\ alive' = alive \cup {generation'}
               /\ lifecycle' = "running" /\ lifecycle # "closed"
      BY <1>1, <3>1, <3>2 DEF PerformRestart, ClientInv, ClientTypeOK, OneWorker, WaitingIsJoined, None
    <3>3. CASE /\ UNCHANGED <<worker, alive>>
               /\ lifecycle' = IF lifecycle = "closed" THEN "closed" ELSE "failed"
      BY <1>1, <3>3 DEF PerformRestart, ClientInv, OneWorker, WaitingIsJoined, None
    <3>. QED BY <1>1, <3>2, <3>3 DEF PerformRestart, Continues
  <2>3. WaitingIsJoined' /\ JoinedIsWaiting' /\ LaterIsUnknown'
    BY <1>1 DEF PerformRestart, Continues, ClientInv, ClientTypeOK, WaitingIsJoined, JoinedIsWaiting, LaterIsUnknown, None, Restarts
  <2>. QED BY <2>1, <2>2, <2>3 DEF ClientInv
<1>2. CASE ClearRestartOperation(k)
  BY <1>2 DEF ClearRestartOperation, ClearsOwn, ClientInv, ClientTypeOK, OneWorker, WaitingIsJoined,
              JoinedIsWaiting, LaterIsUnknown, None, Restarts
<1>. QED BY <1>1, <1>2 DEF ClientStep

LEMMA ClientNextKeepsInv ==
  ASSUME ClientInv, [ClientNext]_clientVars
  PROVE  ClientInv'
<1>1. CASE UNCHANGED clientVars
  BY <1>1 DEF clientVars, restartVars, ClientInv, ClientTypeOK, OneWorker, WaitingIsJoined, JoinedIsWaiting, LaterIsUnknown, None, Restarts
<1>2. CASE ClientNext
  BY <1>2, CallsKeepInv, EndKeepsInv, RestartKeepsInv, ClientStepKeepsInv DEF ClientNext
<1>. QED BY <1>1, <1>2

-----------------------------------------------------------------------------
(* The refinement. *)

LEMMA ClientStepSimulates ==
  ASSUME ClientInv, [ClientNext]_clientVars
  PROVE  [Abstract!Next]_<<Status, call>>
<1>1. CASE UNCHANGED clientVars
  BY <1>1 DEF clientVars, Status
<1>2. ASSUME NEW c \in Callers, Request(c)
      PROVE  [Abstract!Next]_<<Status, call>>
  BY <1>2 DEF Request, Status, Abstract!Next, Abstract!Calls, ClientInv, ClientTypeOK
<1>3. ASSUME NEW c \in Callers, NEW r \in {"answered", "rejected"}, Settle(c, r)
      PROVE  [Abstract!Next]_<<Status, call>>
  BY <1>3 DEF Settle, Status, Abstract!Next, Abstract!Answers, ClientInv, ClientTypeOK
<1>4. CASE Crash \/ Close
  BY <1>4 DEF Crash, Close, RejectPending, Status, Abstract!Next, Abstract!GoesDown, ClientInv, ClientTypeOK
<1>5. CASE Restart
  <2>1. CASE RestartJoins
    BY <2>1 DEF RestartJoins, clientVars, Status
  <2>2. CASE RestartStarts
    BY <2>2 DEF RestartStarts, RejectPending, Status, Abstract!Next, Abstract!GoesDown, ClientInv, ClientTypeOK
  <2>. QED BY <1>5, <2>1, <2>2 DEF Restart
<1>6. ASSUME NEW k \in Restarts, PerformRestart(k)
      PROVE  [Abstract!Next]_<<Status, call>>
  BY <1>6 DEF PerformRestart, Continues, Status, Abstract!Next, Abstract!ComesUp, ClientInv, ClientTypeOK,
              WaitingIsJoined
<1>7. ASSUME NEW k \in Restarts, ClearRestartOperation(k)
      PROVE  [Abstract!Next]_<<Status, call>>
  BY <1>7 DEF ClearRestartOperation, Status
<1>. QED BY <1>1, <1>2, <1>3, <1>4, <1>5, <1>6, <1>7 DEF ClientNext, ClientStep

-----------------------------------------------------------------------------
(* Messages: a call is one of a flow, and so is an answer. *)

Methods == {"create", "load", "file", "begin", "append", "finish", "cancel"}
Messages == Callers \X Methods \X (0..Parts)
Answers == Callers \X {"answered", "rejected"}

MessagesOK ==
  /\ part \in [Callers -> 0..Parts]
  /\ inbox \in Seq(Messages)
  /\ outbox \in Seq(Answers)

LEMMA PostsKeepMessages ==
  ASSUME MessagesOK, NEW c \in Callers, NEW method \in Methods, Posts(c, method), part'[c] \in 0..Parts
  PROVE  inbox' \in Seq(Messages) /\ outbox' \in Seq(Answers)
<1>1. <<c, method, part'[c]>> \in Messages
  BY DEF Messages
<1>2. Append(inbox, <<c, method, part'[c]>>) \in Seq(Messages)
  BY <1>1 DEF MessagesOK
<1>. QED BY <1>2 DEF Posts, MessagesOK

LEMMA FollowsKeepsMessages ==
  ASSUME MessagesOK, WorkerFollows
  PROVE  inbox' \in Seq(Messages) /\ outbox' \in Seq(Answers)
<1>1. <<>> \in Seq(Messages) /\ <<>> \in Seq(Answers)
  OBVIOUS
<1>2. CASE worker' = worker
  BY <1>2 DEF WorkerFollows, MessagesOK, workerVars
<1>3. CASE worker' # worker
  BY <1>1, <1>3 DEF WorkerFollows
<1>. QED BY <1>2, <1>3

LEMMA EndsKeepsParts ==
  ASSUME MessagesOK, NEW c \in Callers, Ends(c) \/ Fails(c)
  PROVE  part' \in [Callers -> 0..Parts]
BY PartsAssumption DEF MessagesOK, Ends, Fails

LEMMA AnswerKeepsMessages ==
  ASSUME MessagesOK, NEW c \in Callers, NEW r \in {"answered", "rejected"}, Answer(c, r)
  PROVE  outbox' \in Seq(Answers)
<1>1. <<c, r>> \in Answers
  BY DEF Answers
<1>. QED BY <1>1 DEF Answer, MessagesOK

LEMMA WorkerTurnKeepsMessages ==
  ASSUME MessagesOK, WorkerTurn
  PROVE  MessagesOK'
<1>0. UNCHANGED part
  BY DEF WorkerTurn, Handles, Delivers, Imports, FileTurn, flow
<1>1. CASE Handles
  <2>1. Head(inbox) \in Messages /\ inbox' \in Seq(Messages)
    BY <1>1 DEF Handles, MessagesOK
  <2>2. PICK c \in Callers : c = Head(inbox)[1]
    BY <2>1 DEF Messages
  <2>3. (\E r \in {"answered", "rejected"} : Answer(c, r)) \/ UNCHANGED outbox
    BY <1>1, <2>2 DEF Handles, HandleCreate, HandleLoad, HandleBegin, HandleAppend, HandleFinish,
                     HandleCancel, HandleFile
  <2>. QED BY <1>0, <2>1, <2>3, AnswerKeepsMessages DEF MessagesOK
<1>2. CASE Delivers
  BY <1>0, <1>2 DEF Delivers, MessagesOK
<1>3. ASSUME NEW c \in Callers, Imports(c) \/ FileTurn(c)
      PROVE  MessagesOK'
  <2>1. UNCHANGED inbox
    BY <1>3 DEF Imports, FileTurn
  <2>2. (\E r \in {"answered", "rejected"} : Answer(c, r)) \/ UNCHANGED outbox
    BY <1>3 DEF Imports, FileTurn, FileFails, FileEnds
  <2>. QED BY <1>0, <2>1, <2>2, AnswerKeepsMessages DEF MessagesOK
<1>. QED BY <1>1, <1>2, <1>3 DEF WorkerTurn

-----------------------------------------------------------------------------
(* The project operations use the client through its own operations only. *)

LEMMA FlowStepIsOfTheClient ==
  ASSUME NEW c \in Callers, Turn(c)
  PROVE  [ClientNext]_clientVars
<1>1. ASSUME NEW d \in Callers, NEW method, Posts(d, method)
      PROVE  ClientNext
  BY <1>1 DEF Posts, ClientNext
<1>2. ASSUME NEW to, Prepares(c, to)
      PROVE  ClientNext
  BY <1>2 DEF Prepares, ClientNext
<1>3. ASSUME Cleans(c)
      PROVE  [ClientNext]_clientVars
  BY <1>2, <1>3 DEF Cleans, Stays
<1>4. CASE ReplaceSession(c)
  BY <1>2, <1>4 DEF ReplaceSession, Stays
<1>5. CASE Restarted(c)
  BY <1>1, <1>3, <1>5 DEF Restarted, CreatesSession
<1>6. CASE Created(c)
  BY <1>3, <1>6 DEF Created, Stays
<1>7. CASE Cleaned(c)
  BY <1>7 DEF Cleaned, Stays
<1>8. CASE Reads(c)
  BY <1>1, <1>8 DEF Reads, Throws, PostsNext, Stays
<1>9. CASE Returns(c)
  BY <1>1, <1>9 DEF Returns, Throws, PostsNext, Cancels, Submitted, Stays
<1>10. CASE FontsLoaded(c)
  BY <1>10 DEF FontsLoaded, Throws, Stays
<1>. QED BY <1>4, <1>5, <1>6, <1>7, <1>8, <1>9, <1>10 DEF Turn

LEMMA EveryStepIsOfTheClient ==
  ASSUME [Next]_allVars, MessagesOK
  PROVE  [ClientNext]_clientVars
<1>1. CASE UNCHANGED allVars
  BY <1>1 DEF allVars
<1>2. CASE BeginOpen \/ PickCancelled \/ BeginRestart \/ BeginSource \/ DisposeBegins
  BY <1>2 DEF BeginOpen, PickCancelled, BeginRestart, BeginSource, DisposeBegins, Stays
<1>3. ASSUME NEW p \in Projects, Picked(p)
      PROVE  [ClientNext]_clientVars
  BY <1>3, FlowsAssumption DEF Picked, Posts, Stays, ClientNext
<1>4. CASE WorkerCrashes \/ DisposeEnds
  BY <1>4 DEF WorkerCrashes, DisposeEnds, ClientNext
<1>5. CASE WorkerTurn
  <2>1. CASE Delivers
    <3>1. Head(outbox)[1] \in Callers /\ Head(outbox)[2] \in {"answered", "rejected"}
      BY <2>1 DEF Delivers, MessagesOK, Answers
    <3>. QED BY <2>1, <3>1 DEF Delivers, ClientNext
  <2>2. CASE Handles \/ \E c \in Callers : Imports(c) \/ FileTurn(c)
    BY <2>2 DEF Handles, Imports, FileTurn
  <2>. QED BY <1>5, <2>1, <2>2 DEF WorkerTurn
<1>6. ASSUME NEW k \in Restarts, ClientTurn(k)
      PROVE  [ClientNext]_clientVars
  BY <1>6 DEF ClientTurn, ClientNext
<1>. QED BY <1>1, <1>2, <1>3, <1>4, <1>5, <1>6, FlowStepIsOfTheClient DEF Next

-----------------------------------------------------------------------------
(* Messages, in the turns of the flows. *)

LEMMA StaysKeepsMessages ==
  ASSUME MessagesOK, Stays, part' \in [Callers -> 0..Parts]
  PROVE  MessagesOK'
BY DEF Stays, workerVars, MessagesOK

LEMMA PreparesKeepsMessages ==
  ASSUME MessagesOK, NEW c \in Callers, NEW to, Prepares(c, to)
  PROVE  MessagesOK'
BY FollowsKeepsMessages DEF Prepares, MessagesOK

LEMMA PostsNextKeepsMessages ==
  ASSUME MessagesOK, NEW c \in Callers, NEW method \in Methods, NEW i \in 0..Parts, PostsNext(c, method, i)
  PROVE  MessagesOK'
<1>1. part' \in [Callers -> 0..Parts] /\ part'[c] = i
  BY DEF PostsNext, MessagesOK
<1>. QED BY <1>1, PostsKeepMessages DEF PostsNext, MessagesOK

LEMMA ThrowsKeepsMessages ==
  ASSUME MessagesOK, NEW c \in Callers, Fails(c), Stays
  PROVE  MessagesOK'
BY EndsKeepsParts, StaysKeepsMessages

LEMMA CleansKeepsMessages ==
  ASSUME MessagesOK, NEW c \in Callers, Cleans(c)
  PROVE  MessagesOK'
BY PreparesKeepsMessages, ThrowsKeepsMessages DEF Cleans

LEMMA FlowKeepsMessages ==
  ASSUME MessagesOK, NEW c \in Callers, Turn(c)
  PROVE  MessagesOK'
<1>1. CASE ReplaceSession(c)
  BY <1>1, PreparesKeepsMessages, ThrowsKeepsMessages DEF ReplaceSession
<1>2. CASE Restarted(c)
  <2>1. CASE CreatesSession(c)
    <3>1. UNCHANGED part /\ Posts(c, "create")
      BY <2>1 DEF CreatesSession, KeepsFlow
    <3>. QED BY <3>1, PostsKeepMessages DEF MessagesOK, Methods
  <2>. QED BY <1>2, <2>1, CleansKeepsMessages DEF Restarted
<1>3. CASE Created(c)
  <2>1. CASE Adopts(c) /\ Stays
    BY <2>1, EndsKeepsParts, StaysKeepsMessages DEF Adopts, MessagesOK
  <2>. QED BY <1>3, <2>1, CleansKeepsMessages, ThrowsKeepsMessages DEF Created
<1>4. CASE Cleaned(c)
  BY <1>4, ThrowsKeepsMessages DEF Cleaned
<1>5. CASE Reads(c)
  BY <1>5, PostsNextKeepsMessages, ThrowsKeepsMessages, PartsAssumption DEF Reads, Throws, FirstCall, Methods
<1>6. CASE Returns(c)
  <2>1. CASE Throws(c) \/ Cancels(c)
    BY <2>1, PostsNextKeepsMessages, ThrowsKeepsMessages, PartsAssumption DEF Throws, Cancels, Methods
  <2>2. CASE part[c] < Parts /\ PostsNext(c, "append", part[c] + 1)
    BY <2>2, PostsNextKeepsMessages, PartsAssumption DEF Methods, MessagesOK
  <2>3. CASE PostsNext(c, "finish", Parts)
    BY <2>3, PostsNextKeepsMessages, PartsAssumption DEF Methods
  <2>4. CASE Submitted(c)
    BY <2>4, StaysKeepsMessages DEF Submitted, KeepsFlow, MessagesOK
  <2>. QED BY <1>6, <2>1, <2>2, <2>3, <2>4 DEF Returns
<1>7. CASE FontsLoaded(c)
  BY <1>7, EndsKeepsParts, StaysKeepsMessages, ThrowsKeepsMessages DEF FontsLoaded, Throws
<1>. QED BY <1>1, <1>2, <1>3, <1>4, <1>5, <1>6, <1>7 DEF Turn

LEMMA NextKeepsMessages ==
  ASSUME MessagesOK, [Next]_allVars
  PROVE  MessagesOK'
<1>1. CASE UNCHANGED allVars
  BY <1>1 DEF allVars, MessagesOK, flow, workerVars
<1>2. CASE BeginOpen \/ BeginRestart \/ BeginSource \/ DisposeBegins
  BY <1>2, StaysKeepsMessages
     DEF BeginOpen, BeginRestart, BeginSource, DisposeBegins, KeepsFlow, flow, MessagesOK
<1>3. CASE PickCancelled
  BY <1>3, EndsKeepsParts, StaysKeepsMessages, FlowsAssumption DEF PickCancelled
<1>4. ASSUME NEW p \in Projects, Picked(p)
      PROVE  MessagesOK'
  <2>1. CASE Fails("open") /\ Stays
    BY <2>1, ThrowsKeepsMessages, FlowsAssumption
  <2>2. CASE UNCHANGED part /\ Stays
    BY <2>2, StaysKeepsMessages DEF MessagesOK
  <2>3. CASE UNCHANGED part /\ Posts("open", "create")
    BY <2>3, PostsKeepMessages, FlowsAssumption DEF MessagesOK, Methods
  <2>. QED BY <1>4, <2>1, <2>2, <2>3 DEF Picked
<1>5. CASE WorkerCrashes \/ DisposeEnds \/ \E k \in Restarts : ClientTurn(k)
  BY <1>5, FollowsKeepsMessages DEF WorkerCrashes, DisposeEnds, ClientTurn, flow, MessagesOK
<1>. QED BY <1>1, <1>2, <1>3, <1>4, <1>5, FlowKeepsMessages, WorkerTurnKeepsMessages DEF Next

-----------------------------------------------------------------------------
(* The theorems. *)

\* The invariant holds from the start and in every step of the page and its worker.
THEOREM ProjectInvariant == Spec => [](ClientInv /\ MessagesOK)
<1>1. Init => ClientInv /\ MessagesOK
  BY ClientInitInv, PartsAssumption DEF Init, MessagesOK
<1>2. ClientInv /\ MessagesOK /\ [Next]_allVars => ClientInv' /\ MessagesOK'
  BY EveryStepIsOfTheClient, ClientNextKeepsInv, NextKeepsMessages
<1>. QED BY <1>1, <1>2, PTL DEF Spec

\* The fields of the client keep their types.
THEOREM ClientTypeCorrect == Spec => []ClientTypeOK
BY ProjectInvariant, PTL DEF ClientInv

\* No restart, close or crash, in any order, ever leaves a second worker behind, nor one after
\* close: the worker the client posts to is the only one that lives (workerClient.ts).
THEOREM WorkerIsAlone == Spec => []OneWorker
BY ProjectInvariant, PTL DEF ClientInv

\* The worker client keeps the promise of WorkerCalls under the project operations: no call
\* outlives the worker it was posted to, and none is waiting while no worker is up.
THEOREM CallsAreKept == Spec => ImplementsCalls
<1>1. ClientInit => Abstract!Init
  BY DEF ClientInit, Abstract!Init, Status
<1>2. Init => Abstract!Init
  BY <1>1 DEF Init
<1>3. ClientInv /\ MessagesOK /\ [Next]_allVars => [Abstract!Next]_<<Status, call>>
  BY EveryStepIsOfTheClient, ClientStepSimulates
<1>. QED BY <1>2, <1>3, ProjectInvariant, PTL DEF Spec, ImplementsCalls, Abstract!Spec

-----------------------------------------------------------------------------
(* The flows and what the worker has for them. *)

\* A flow is under way: its operation is more than a picker.
Active(c) == pc[c] \notin {"off", "picking"}
Calling == {"creating", "load", "file", "begin", "append", "finish", "cancel"}
Streaming == {"begin", "append", "finish", "cancel"}
MethodOf(c) == IF pc[c] = "creating" THEN "create" ELSE pc[c]

FlowTypes ==
  /\ pc \in [Callers -> {"off", "picking"} \cup Replacing \cup Submitting]
  /\ pc["restart"] # "picking"
  /\ pc["source"] \in {"off", "reading", "load", "file", "fonts"}
  /\ target \in [Callers -> Projects \cup {NoProject}]
  /\ joined \in [Callers -> Nat] /\ recovering \in [Callers -> BOOLEAN]
  /\ token \in [Callers -> Nat \X Nat \X Nat]

BridgeTypes ==
  /\ constrained \in BOOLEAN /\ disposing \in BOOLEAN /\ project \in Projects \cup {NoProject}
  /\ projectOperation \in Nat /\ sessionGeneration \in Nat
  /\ ready \in BOOLEAN /\ projectOpen \in BOOLEAN

RuntimeTypes ==
  /\ job \in [Callers -> {"none", "import", "file"}]
  /\ captured \in [Callers -> {"current", "freed", "lost"}]

\* One flow is under way at a time: the picker returns to an operation another one has replaced,
\* or to none.
Alone == \A c, d \in Callers : Active(c) /\ Active(d) => c = d
OlderToken ==
  /\ token["open"][1] <= projectOperation
  /\ pc["open"] = "picking" /\ token["open"][1] = projectOperation =>
       pc["source"] = "off" /\ pc["restart"] \notin Submitting

\* The worker is restarted for a flow that waits for it.
RestartIsAwaited ==
  lifecycle = "restarting" =>
    \E c \in Callers : pc[c] \in {"restarting", "cleaning"} /\ joined[c] = restartOperation
RestartKeepsOpen == Active("restart") => projectOpen
Recovers == \A c \in Callers : recovering[c] => c = "open" /\ pc[c] \in Replacing

\* The committed project is retired before another is loaded.
Retired ==
  /\ Active("open") /\ ~recovering["open"] => target["open"] \in Projects
  /\ Active("open") /\ ~recovering["open"] /\ pc["open"] # "fonts" => project = NoProject
  /\ \A c \in Callers :
       pc[c] \in Submitting => target[c] \in Projects /\ project \in {target[c], NoProject}
SourceIsWhole == pc["source"] # "off" /\ constrained => target["source"] \in Packaged
PartIsNext ==
  \A c \in Callers :
    /\ pc[c] = "begin" => part[c] = 0
    /\ pc[c] = "append" => part[c] \in 1..Parts
    /\ pc[c] = "finish" => part[c] = Parts

Flows ==
  /\ Alone /\ OlderToken /\ RestartIsAwaited /\ RestartKeepsOpen /\ Recovers /\ Retired
  /\ SourceIsWhole /\ PartIsNext

\* A call is with the worker in one form: its message, a handler that awaits, or its answer.
NoJob == \A c \in Callers : job[c] = "none"
Quiet == inbox = <<>> /\ outbox = <<>> /\ NoJob
Asked(c) == inbox = << <<c, MethodOf(c), part[c]>> >> /\ outbox = <<>> /\ NoJob
Answered(c, r) == inbox = <<>> /\ outbox = << <<c, r>> >> /\ NoJob
Working(c) ==
  /\ inbox = <<>> /\ outbox = <<>>
  /\ \/ pc[c] = "creating" /\ job[c] = "import"
     \/ pc[c] = "file" /\ job[c] = "file"
  /\ \A d \in Callers : d # c => job[d] = "none"
InOneForm ==
  /\ \A c \in Callers :
       call[c] = "waiting" =>
         /\ pc[c] \in Calling
         /\ Asked(c) \/ Working(c) \/ \E r \in {"answered", "rejected"} : Answered(c, r)
  /\ (\A c \in Callers : call[c] # "waiting") => Quiet

\* A worker that is gone has left nothing.
Emptied == ~upload.active /\ ~fileUpload.active /\ loaded = <<>>
Gone == lifecycle # "running" => Quiet /\ Emptied /\ \A c \in Callers : call[c] # "waiting"

\* The first parts of a project, and an upload that has them.
Prefix(p, n) == [i \in 1..n |-> <<p, i>>]
Has(p, n) == [active |-> TRUE, parts |-> Prefix(p, n)]
Done(c) == call[c] = "answered" \/ outbox = << <<c, "answered">> >>

\* What a live worker has at each await of a submission.
ServesFlow(c) ==
  /\ inbox # <<>> =>
       /\ pc[c] = "begin" => ~upload.active
       /\ pc[c] = "append" => upload = Has(target[c], part[c] - 1)
       /\ pc[c] = "finish" => upload = Has(target[c], Parts)
  /\ Done(c) =>
       /\ pc[c] \in {"begin", "append"} => upload = Has(target[c], part[c])
       /\ pc[c] = "finish" => ~upload.active
       /\ pc[c] \in {"load", "file", "finish"} => loaded = Whole(target[c])
  /\ pc[c] = "fonts" => loaded = Whole(target[c])
Serves == lifecycle = "running" => \A c \in Callers : ServesFlow(c)

FileJob ==
  /\ fileUpload.active => \E c \in Callers : job[c] = "file"
  /\ \A c \in Callers :
       job[c] = "file" =>
         captured[c] = "current" /\ \E n \in 0..Parts : fileUpload = Has(target[c], n)

\* An upload nobody streams is left to a session that is replaced before the next upload.
UploadIsKnown ==
  upload.active =>
    \/ \E c \in Callers : pc[c] \in Streaming \cup {"waiting"}
    \/ projectOpen /\ ~Active("open") /\ ~Active("restart")

Served == InOneForm /\ Gone /\ Serves /\ FileJob /\ UploadIsKnown

OperationsInv ==
  FlowTypes /\ BridgeTypes /\ RuntimeTypes /\ Flows /\ Served /\ LoadedIsCommitted
OpsInv == ClientInv /\ MessagesOK /\ OperationsInv

-----------------------------------------------------------------------------
(* Sequences of parts, and of one message. *)

\* The parts of a project come in their order.
LEMMA PrefixLemma ==
  ASSUME NEW p, NEW n \in Nat
  PROVE  /\ Len(Prefix(p, n)) = n
         /\ Append(Prefix(p, n), <<p, n + 1>>) = Prefix(p, n + 1)
         /\ Prefix(p, 0) = <<>> /\ Whole(p) = Prefix(p, Parts)
         /\ n <= Parts => SubSeq(Whole(p), 1, n) = Prefix(p, n)
<1> DEFINE T == {p} \X Nat
<1>1. \A m \in Nat : Prefix(p, m) \in Seq(T) /\ Len(Prefix(p, m)) = m /\ DOMAIN Prefix(p, m) = 1..m
  <2> TAKE m \in Nat
  <2>1. \A i \in 1..m : <<p, i>> \in T
    OBVIOUS
  <2>2. [i \in 1..m |-> <<p, i>>] \in Seq(T)
    BY <2>1, IsASeq
  <2>3. Prefix(p, m) \in Seq(T) /\ DOMAIN Prefix(p, m) = 1..m
    BY <2>2 DEF Prefix
  <2>4. Len(Prefix(p, m)) \in Nat /\ 1..Len(Prefix(p, m)) = 1..m
    BY <2>3, LenProperties
  <2>5. Len(Prefix(p, m)) = m
    BY <2>4
  <2> QED  BY <2>3, <2>5
<1>2. \A m \in Nat : \A i \in 1..m : Prefix(p, m)[i] = <<p, i>>
  BY DEF Prefix
<1>3. Append(Prefix(p, n), <<p, n + 1>>) = Prefix(p, n + 1)
  <2> DEFINE s == Prefix(p, n)
             e == <<p, n + 1>>
             a == Append(s, e)
             b == Prefix(p, n + 1)
  <2>7. e \in T
    OBVIOUS
  <2>8. s \in Seq(T) /\ Len(s) = n
    BY <1>1
  <2> HIDE DEF s, e, T
  <2>1. s \in Seq(T) /\ Len(s) = n /\ e \in T
    BY <2>7, <2>8
  <2>2. a \in Seq(T) /\ Len(a) = n + 1 /\ (\A i \in 1..n : a[i] = s[i]) /\ a[n + 1] = e
    BY <2>1, AppendProperties
  <2>0. n + 1 \in Nat
    OBVIOUS
  <2>3. b \in Seq(T) /\ Len(b) = n + 1
    BY <1>1, <2>0
  <2>6. (\A i \in 1..n + 1 : b[i] = <<p, i>>) /\ \A i \in 1..n : s[i] = <<p, i>>
    BY <1>2, <2>0 DEF s
  <2>9. e = <<p, n + 1>>
    BY DEF e
  <2> HIDE DEF a, b
  <2>4. \A i \in 1..n + 1 : a[i] = b[i]
    <3> TAKE i \in 1..n + 1
    <3>1. CASE i = n + 1
      BY <2>2, <2>6, <2>9, <3>1
    <3>2. CASE i # n + 1
      <4>1. i \in 1..n
        BY <3>2
      <4> QED  BY <2>2, <2>6, <4>1
    <3> QED  BY <3>1, <3>2
  <2>10. Len(a) = Len(b) /\ \A i \in 1..Len(a) : a[i] = b[i]
    BY <2>2, <2>3, <2>4
  <2>5. a = b
    BY <2>2, <2>3, <2>10, SeqEqual
  <2> QED  BY <2>5 DEF a, b, s, e
<1>4. Prefix(p, 0) = <<>>
  BY <1>1
<1>5. Whole(p) = Prefix(p, Parts)
  BY DEF Whole, Prefix
<1>6. ASSUME n <= Parts PROVE SubSeq(Whole(p), 1, n) = Prefix(p, n)
  <2> DEFINE w == Prefix(p, Parts)
             a == SubSeq(w, 1, n)
             b == Prefix(p, n)
  <2>1. w \in Seq(T) /\ Len(w) = Parts /\ b \in Seq(T) /\ Len(b) = n /\ Parts \in Nat
    BY <1>1, PartsAssumption
  <2>2. a \in Seq(T) /\ Len(a) = n /\ \A i \in 1..n : a[i] = w[i]
    BY <1>6, <2>1
  <2>3. \A i \in 1..n : a[i] = b[i]
    <3> TAKE i \in 1..n
    <3>1. i \in 1..Parts
      BY <1>6, <2>1
    <3> QED  BY <1>2, <2>1, <2>2, <3>1
  <2> HIDE DEF a, b
  <2>4. a = b
    BY <2>1, <2>2, <2>3, SeqEqual
  <2> QED  BY <1>5, <2>4 DEF a, b
<1> QED  BY <1>1, <1>3, <1>4, <1>5, <1>6

\* A queue of one element.
LEMMA OneMessage ==
  ASSUME NEW e
  PROVE  /\ Append(<<>>, e) = <<e>> /\ <<e>> # <<>>
         /\ Head(<<e>>) = e /\ Tail(<<e>>) = <<>>
OBVIOUS


-----------------------------------------------------------------------------
(* The worker's turns. *)

USE FlowsAssumption

\* A flow that awaits a call, and one whose call is with the worker, is under way.
LEMMA WaitingIsActive ==
  ASSUME Alone, InOneForm, NEW c \in Callers, call[c] = "waiting"
  PROVE  /\ Active(c) /\ pc[c] \in Calling
         /\ \A d \in Callers : d # c => ~Active(d) /\ call[d] # "waiting"
BY DEF Alone, InOneForm, Active, Calling

\* Whatever is with the worker belongs to one flow, which awaits it.
LEMMA SomeoneWaits ==
  ASSUME InOneForm, ~Quiet
  PROVE  \E c \in Callers : call[c] = "waiting"
BY DEF InOneForm

\* What the worker has for one flow is all it has.
LEMMA OneIsServed ==
  ASSUME NEW c \in Callers, \A d \in Callers : d # c => ~Active(d), ServesFlow(c)
  PROVE  Serves
BY DEF Serves, ServesFlow, Active

\* The flows, the bridge and the store do not change in the worker's turns.
LEMMA WorkerTurnIsLocal ==
  ASSUME WorkerTurn
  PROVE  /\ UNCHANGED <<bridge, flow, store, lifecycle, restartOperation>>
         /\ \A c : MethodOf(c)' = MethodOf(c)
BY
DEF WorkerTurn, Handles, Delivers, Imports, FileTurn, Settle, clientVars, restartVars, flow,
    MethodOf

\* What depends on the flows alone stays.
LEMMA LocalKeepsFlows ==
  ASSUME FlowTypes, BridgeTypes, Flows,
         UNCHANGED <<bridge, flow, store, lifecycle, restartOperation>>
  PROVE  FlowTypes' /\ BridgeTypes' /\ Flows'
<1>1. FlowTypes' /\ BridgeTypes'
  BY DEF FlowTypes, BridgeTypes, bridge, flow, store
<1>2. Alone' /\ OlderToken' /\ RestartIsAwaited' /\ RestartKeepsOpen' /\ Recovers'
  BY
DEF Flows, Alone, OlderToken, RestartIsAwaited, RestartKeepsOpen, Recovers, Active, bridge, flow,
    store
<1>3. Retired' /\ SourceIsWhole' /\ PartIsNext'
  BY DEF Flows, Retired, SourceIsWhole, PartIsNext, Active, bridge, flow, store
<1> QED  BY <1>1, <1>2, <1>3 DEF Flows

\* After an answer was sent, nothing else is under way; the answer says what was done.
LEMMA AnswerServes ==
  ASSUME OpsInv, NEW c \in Callers, call[c] = "waiting", lifecycle = "running",
         UNCHANGED <<bridge, flow, store, clientVars>>,
         NEW r \in {"answered", "rejected"}, Answered(c, r)', ~fileUpload'.active,
         upload'.active => upload.active \/ pc[c] = "begin",
         loaded' \in {loaded, <<>>} \/ (pc[c] \in Submitting /\ loaded' = Whole(target[c])),
         r = "answered" =>
           /\ pc[c] \in {"begin", "append"} => upload' = Has(target[c], part[c])
           /\ pc[c] = "finish" => ~upload'.active
           /\ pc[c] \in {"load", "file", "finish"} => loaded' = Whole(target[c])
  PROVE  Served' /\ LoadedIsCommitted'
<1>1. /\ Active(c) /\ pc[c] \in Calling
      /\ \A d \in Callers : d # c => ~Active(d) /\ call[d] # "waiting"
  BY WaitingIsActive DEF OpsInv, OperationsInv, Flows, Served
<1>2. /\ pc' = pc /\ part' = part /\ target' = target /\ project' = project /\ call' = call
      /\ lifecycle' = lifecycle /\ projectOpen' = projectOpen
  BY DEF flow, bridge, clientVars, store
<1>3. InOneForm'
  BY <1>1, <1>2 DEF InOneForm
<1>4. Gone'
  BY <1>2 DEF Gone
<1>5. Serves'
  <2>1. Done(c)' => r = "answered"
    <3>1. outbox' = << <<c, r>> >>
      BY DEF Answered
    <3>2. outbox' = << <<c, "answered">> >> => r = "answered"
      BY <3>1
    <3>3. call'[c] # "answered"
      BY <1>2
    <3> QED  BY <3>2, <3>3 DEF Done
  <2>2. inbox' = <<>> /\ pc[c] # "fonts"
    BY <1>1 DEF Answered, Calling
  <2>3. ServesFlow(c)'
    BY <1>2, <2>1, <2>2 DEF ServesFlow
  <2>4. \A d \in Callers : d # c => ServesFlow(d)'
    BY <1>1, <1>2 DEF ServesFlow, Active
  <2> QED  BY <2>3, <2>4 DEF Serves
<1>6. FileJob'
  BY DEF FileJob, Answered, NoJob
<1>7. UploadIsKnown'
  BY <1>2 DEF UploadIsKnown, OpsInv, OperationsInv, Served, Active, Streaming
<1>8. LoadedIsCommitted'
  <2>1. CASE loaded' \in {loaded, <<>>}
    BY <1>2, <2>1 DEF LoadedIsCommitted, OpsInv, OperationsInv
  <2>2. CASE pc[c] \in Submitting /\ loaded' = Whole(target[c])
    <3>1. target[c] \in Projects /\ project \in {target[c], NoProject}
      BY <2>2 DEF OpsInv, OperationsInv, Flows, Retired
    <3> QED  BY <1>2, <2>2, <3>1 DEF LoadedIsCommitted
  <2> QED  BY <2>1, <2>2
<1> QED  BY <1>3, <1>4, <1>5, <1>6, <1>7, <1>8 DEF Served

\* A handler that awaits has done nothing yet that others see, but for a new upload of a file or
\* the end of the old runtime.
LEMMA WorkingServes ==
  ASSUME OpsInv, NEW c \in Callers, call[c] = "waiting", lifecycle = "running",
         UNCHANGED <<bridge, flow, store, clientVars>>,
         Working(c)', upload' = upload \/ ~upload'.active, loaded' = loaded \/ loaded' = <<>>,
         pc[c] = "creating" => ~fileUpload'.active,
         pc[c] = "file" =>
           captured'[c] = "current" /\ \E n \in 0..Parts : fileUpload' = Has(target[c], n)
  PROVE  Served' /\ LoadedIsCommitted'
<1>1. /\ Active(c) /\ pc[c] \in Calling
      /\ \A d \in Callers : d # c => ~Active(d) /\ call[d] # "waiting"
  BY WaitingIsActive DEF OpsInv, OperationsInv, Flows, Served
<1>2. /\ pc' = pc /\ part' = part /\ target' = target /\ project' = project /\ call' = call
      /\ lifecycle' = lifecycle /\ projectOpen' = projectOpen
  BY DEF flow, bridge, clientVars, store
<1>3. InOneForm'
  BY <1>1, <1>2 DEF InOneForm
<1>4. Gone'
  BY <1>2 DEF Gone
<1>5. Serves'
  <2>1. ~Done(c)' /\ inbox' = <<>> /\ pc[c] # "fonts"
    BY <1>1, <1>2 DEF Done, Working, Calling
  <2>2. ServesFlow(c)'
    BY <1>2, <2>1 DEF ServesFlow
  <2>3. \A d \in Callers : d # c => ServesFlow(d)'
    BY <1>1, <1>2 DEF ServesFlow, Active
  <2> QED  BY <2>2, <2>3 DEF Serves
<1>6. FileJob'
  BY <1>2 DEF FileJob, Working
<1>7. UploadIsKnown'
  BY <1>2 DEF UploadIsKnown, OpsInv, OperationsInv, Served, Active
<1>8. LoadedIsCommitted'
  BY <1>2 DEF LoadedIsCommitted, OpsInv, OperationsInv
<1> QED  BY <1>3, <1>4, <1>5, <1>6, <1>7, <1>8 DEF Served


\* The message at the head of the queue.
LEMMA HeadIsAsked ==
  ASSUME OpsInv, inbox # <<>>
  PROVE  /\ lifecycle = "running" /\ outbox = <<>> /\ NoJob /\ ~fileUpload.active
         /\ \E c \in Callers :
              /\ call[c] = "waiting" /\ pc[c] \in Calling
              /\ Head(inbox)[1] = c /\ Head(inbox)[2] = MethodOf(c) /\ Head(inbox)[3] = part[c]
              /\ Tail(inbox) = <<>>
<1>1. lifecycle = "running"
  BY DEF OpsInv, OperationsInv, Served, Gone, Quiet
<1>2. PICK c \in Callers : call[c] = "waiting"
  BY SomeoneWaits DEF OpsInv, OperationsInv, Served, Quiet
<1>3. pc[c] \in Calling /\ Asked(c)
  BY <1>2 DEF OpsInv, OperationsInv, Served, InOneForm, Working, Answered
<1>4. ~fileUpload.active
  BY <1>3 DEF OpsInv, OperationsInv, Served, FileJob, Asked, NoJob
<1>5. PICK e : e = <<c, MethodOf(c), part[c]>>
  OBVIOUS
<1>6. inbox = <<e>> /\ e[1] = c /\ e[2] = MethodOf(c) /\ e[3] = part[c]
  BY <1>3, <1>5 DEF Asked
<1>7. Head(inbox) = e /\ Tail(inbox) = <<>>
  BY <1>6, OneMessage
<1> QED  BY <1>1, <1>2, <1>3, <1>4, <1>6, <1>7 DEF Asked

\* An answer to the only call there is.
LEMMA AnswerIsAlone ==
  ASSUME NEW c, NEW r, Answer(c, r), outbox = <<>>, inbox' = <<>>, NoJob'
  PROVE  Answered(c, r)'
<1>1. outbox' = << <<c, r>> >>
  BY OneMessage DEF Answer
<1> QED  BY <1>1 DEF Answered

\* The head of the queue is handled: what the message says is what its flow awaits.
LEMMA HandlesStep ==
  ASSUME OpsInv, Handles
  PROVE  Served' /\ LoadedIsCommitted'
<1>1. /\ lifecycle = "running" /\ outbox = <<>> /\ NoJob /\ ~fileUpload.active /\ inbox # <<>>
      /\ inbox' = Tail(inbox) /\ UNCHANGED <<clientVars, bridge, flow, store>>
  BY HeadIsAsked DEF Handles
<1>2. PICK c \in Callers :
        /\ call[c] = "waiting" /\ pc[c] \in Calling
        /\ Head(inbox)[1] = c /\ Head(inbox)[2] = MethodOf(c) /\ Head(inbox)[3] = part[c]
        /\ Tail(inbox) = <<>>
  BY <1>1, HeadIsAsked
<1>3. inbox' = <<>> /\ NoJob
  BY <1>1, <1>2
<1>4. ServesFlow(c) /\ FileJob /\ RuntimeTypes /\ PartIsNext
  BY <1>1 DEF OpsInv, OperationsInv, Served, Serves, Flows
<1>5. \/ MethodOf(c) = "create" /\ HandleCreate(c)
      \/ MethodOf(c) # "create" /\ ~runtime /\ Answer(c, "rejected") /\ UNCHANGED runtimeVars
      \/ runtime /\ MethodOf(c) = "load" /\ HandleLoad(c)
      \/ runtime /\ MethodOf(c) = "begin" /\ HandleBegin(c)
      \/ runtime /\ MethodOf(c) = "append" /\ HandleAppend(c, part[c])
      \/ runtime /\ MethodOf(c) = "finish" /\ HandleFinish(c)
      \/ runtime /\ MethodOf(c) = "cancel" /\ HandleCancel(c)
      \/ runtime /\ MethodOf(c) = "file" /\ HandleFile(c)
  BY <1>2 DEF Handles
<1>6. \A m : MethodOf(c) = m /\ m # "create" => pc[c] = m
  BY <1>2 DEF MethodOf
<1>7. ASSUME MethodOf(c) = "create", HandleCreate(c) PROVE Served' /\ LoadedIsCommitted'
  <2>1. pc[c] = "creating"
    BY <1>2, <1>7 DEF MethodOf, Calling
  <2>2. job' = [job EXCEPT ![c] = "import"] /\ outbox' = <<>>
    BY <1>1, <1>7 DEF HandleCreate
  <2>3. Working(c)'
    BY <1>1, <1>3, <2>1, <2>2 DEF Working, flow, NoJob, RuntimeTypes, OpsInv, OperationsInv
  <2>4. ~upload'.active /\ ~fileUpload'.active /\ loaded' = <<>>
    BY <1>7 DEF HandleCreate, NewRuntime, NoUpload
  <2> QED  BY <1>1, <1>2, <2>1, <2>3, <2>4, WorkingServes
<1>8. ASSUME NEW r \in {"answered", "rejected"}, Answer(c, r), UNCHANGED <<job, fileUpload>>,
             upload'.active => upload.active \/ pc[c] = "begin",
             loaded' \in {loaded, <<>>} \/ (pc[c] \in Submitting /\ loaded' = Whole(target[c])),
             r = "answered" =>
               /\ pc[c] \in {"begin", "append"} => upload' = Has(target[c], part[c])
               /\ pc[c] = "finish" => ~upload'.active
               /\ pc[c] \in {"load", "file", "finish"} => loaded' = Whole(target[c])
      PROVE  Served' /\ LoadedIsCommitted'
  <2>1. Answered(c, r)'
    BY <1>1, <1>3, <1>8, AnswerIsAlone DEF NoJob
  <2> QED  BY <1>1, <1>2, <1>8, <2>1, AnswerServes
<1>9. ASSUME Answer(c, "rejected"), UNCHANGED runtimeVars PROVE Served' /\ LoadedIsCommitted'
  BY <1>8, <1>9 DEF runtimeVars
<1>10. ASSUME pc[c] = "load", HandleLoad(c) PROVE Served' /\ LoadedIsCommitted'
  BY <1>8, <1>10 DEF HandleLoad, Submitting
<1>11. ASSUME pc[c] = "begin", HandleBegin(c) PROVE Served' /\ LoadedIsCommitted'
  <2>1. part[c] = 0 /\ ~upload.active
    BY <1>1, <1>4, <1>11 DEF PartIsNext, ServesFlow
  <2>2. Prefix(target[c], 0) = <<>>
    BY PrefixLemma
  <2>3. upload' = Has(target[c], part[c]) /\ Answer(c, "answered")
    BY <1>11, <2>1, <2>2 DEF HandleBegin, Has
  <2> QED  BY <1>8, <1>11, <2>3 DEF HandleBegin
<1>12. ASSUME pc[c] = "append", HandleAppend(c, part[c]) PROVE Served' /\ LoadedIsCommitted'
  <2>1. upload = Has(target[c], part[c] - 1) /\ part[c] \in 1..Parts
    BY <1>1, <1>4, <1>12 DEF PartIsNext, ServesFlow
  <2>2. PICK n \in Nat : n = part[c] - 1 /\ part[c] = n + 1 /\ n < Parts
    BY <2>1, PartsAssumption
  <2>3. Len(Prefix(target[c], n)) = n
        /\ Append(Prefix(target[c], n), <<target[c], n + 1>>) = Prefix(target[c], n + 1)
    BY PrefixLemma
  <2>4. upload.active /\ upload.parts = Prefix(target[c], n)
    BY <2>1, <2>2 DEF Has
  <2>5. upload' = [upload EXCEPT !.parts = Append(@, <<target[c], part[c]>>)]
        /\ Answer(c, "answered")
    BY <1>12, <2>2, <2>3, <2>4 DEF HandleAppend
  <2>6. upload' = Has(target[c], part[c])
    BY <2>1, <2>2, <2>3, <2>5 DEF Has
  <2> QED  BY <1>8, <1>12, <2>4, <2>5, <2>6 DEF HandleAppend
<1>13. ASSUME pc[c] = "finish", HandleFinish(c) PROVE Served' /\ LoadedIsCommitted'
  <2>1. upload = Has(target[c], Parts)
    BY <1>1, <1>4, <1>13 DEF ServesFlow
  <2>2. Len(Prefix(target[c], Parts)) = Parts /\ Whole(target[c]) = Prefix(target[c], Parts)
    BY PrefixLemma, PartsAssumption
  <2>3. upload.active /\ Len(upload.parts) = Parts /\ upload.parts = Whole(target[c])
    BY <2>1, <2>2 DEF Has
  <2>4. /\ upload' = NoUpload
        /\ \/ loaded' = Whole(target[c]) /\ Answer(c, "answered")
           \/ UNCHANGED loaded /\ Answer(c, "rejected")
    BY <1>13, <2>3 DEF HandleFinish
  <2>5. ~upload'.active
    BY <2>4 DEF NoUpload
  <2> QED  BY <1>8, <1>13, <2>4, <2>5 DEF HandleFinish, Submitting
<1>14. ASSUME pc[c] = "cancel", HandleCancel(c) PROVE Served' /\ LoadedIsCommitted'
  <2>1. ~upload'.active
    BY <1>14 DEF HandleCancel, NoUpload
  <2> QED  BY <1>8, <1>14, <2>1 DEF HandleCancel
<1>15. ASSUME pc[c] = "file", HandleFile(c) PROVE Served' /\ LoadedIsCommitted'
  <2>1. /\ fileUpload' = [active |-> TRUE, parts |-> <<>>]
        /\ job' = [job EXCEPT ![c] = "file"] /\ captured' = [captured EXCEPT ![c] = "current"]
        /\ outbox' = <<>> /\ UNCHANGED <<upload, loaded>>
    BY <1>1, <1>15 DEF HandleFile
  <2>5. Prefix(target[c], 0) = <<>>
    BY PrefixLemma
  <2>6. fileUpload' = Has(target[c], 0)
    BY <2>1, <2>5 DEF Has
  <2>2. fileUpload' = Has(target[c], 0) /\ 0 \in 0..Parts
    BY <2>6, PartsAssumption
  <2>3. Working(c)'
    BY <1>1, <1>3, <1>15, <2>1 DEF Working, flow, NoJob, RuntimeTypes, OpsInv, OperationsInv
  <2>4. captured'[c] = "current"
    BY <2>1 DEF RuntimeTypes, OpsInv, OperationsInv
  <2> QED  BY <1>1, <1>2, <1>15, <2>1, <2>2, <2>3, <2>4, WorkingServes
<1> QED  BY <1>5, <1>6, <1>7, <1>9, <1>10, <1>11, <1>12, <1>13, <1>14, <1>15

\* A handler that awaits is the only one.
LEMMA JobIsAlone ==
  ASSUME OpsInv, NEW c \in Callers, job[c] # "none"
  PROVE  /\ call[c] = "waiting" /\ Working(c) /\ lifecycle = "running"
         /\ job[c] = "import" => pc[c] = "creating" /\ ~fileUpload.active
         /\ job[c] = "file" => pc[c] = "file"
<1>1. PICK d \in Callers : call[d] = "waiting"
  BY SomeoneWaits DEF OpsInv, OperationsInv, Served, Quiet, NoJob
<1>2. Working(d)
  BY <1>1 DEF OpsInv, OperationsInv, Served, InOneForm, Asked, Answered, NoJob
<1>3. d = c
  BY <1>2 DEF Working
<1>4. lifecycle = "running"
  BY DEF OpsInv, OperationsInv, Served, Gone, Quiet, NoJob
<1>5. job[c] = "import" => ~fileUpload.active
  BY <1>2, <1>3 DEF Working, OpsInv, OperationsInv, Served, FileJob
<1> QED  BY <1>1, <1>2, <1>3, <1>4, <1>5 DEF Working

\* The import of a new session ends.
LEMMA ImportsStep ==
  ASSUME OpsInv, NEW c \in Callers, Imports(c)
  PROVE  Served' /\ LoadedIsCommitted'
<1>1. /\ call[c] = "waiting" /\ Working(c) /\ lifecycle = "running" /\ pc[c] = "creating"
      /\ ~fileUpload.active
  BY JobIsAlone DEF Imports
<1>2. NoJob' /\ inbox' = <<>> /\ outbox = <<>>
  BY <1>1 DEF Imports, Working, NoJob, OpsInv, OperationsInv, RuntimeTypes
<1>3. PICK r \in {"answered", "rejected"} : Answer(c, r)
  BY DEF Imports
<1>4. Answered(c, r)'
  BY <1>2, <1>3, AnswerIsAlone
<1>5. /\ ~fileUpload'.active
      /\ upload'.active => upload.active
      /\ loaded' \in {loaded, <<>>}
  BY <1>1 DEF Imports, NewRuntime, NoUpload
<1> QED  BY <1>1, <1>4, <1>5, AnswerServes DEF Imports

\* A read of a file upload: another part, its end, or an error.
LEMMA FileTurnStep ==
  ASSUME OpsInv, NEW c \in Callers, FileTurn(c)
  PROVE  Served' /\ LoadedIsCommitted'
<1>1. call[c] = "waiting" /\ Working(c) /\ lifecycle = "running" /\ pc[c] = "file"
  BY JobIsAlone DEF FileTurn
<1>2. captured[c] = "current"
  BY DEF FileTurn, OpsInv, OperationsInv, Served, FileJob
<1>3. PICK n \in 0..Parts : fileUpload = Has(target[c], n)
  BY DEF FileTurn, OpsInv, OperationsInv, Served, FileJob
<1>4. n \in Nat /\ Parts \in Nat
  BY PartsAssumption
<1>5. fileUpload.parts = Prefix(target[c], n) /\ Len(fileUpload.parts) = n
  BY <1>3, <1>4, PrefixLemma DEF Has
<1>6. UNCHANGED <<inbox, runtime, captured, upload, clientVars, bridge, flow, store>>
  BY DEF FileTurn
<1>7. \/ /\ n < Parts
         /\ fileUpload' = [fileUpload EXCEPT !.parts = Append(@, <<target[c], n + 1>>)]
         /\ UNCHANGED <<job, outbox, loaded>>
      \/ n = Parts /\ fileUpload' = NoUpload /\ loaded' = fileUpload.parts
         /\ FileEnds(c, "answered")
      \/ FileFails(c)
  BY <1>2, <1>5 DEF FileTurn
<1>8. CASE /\ n < Parts
           /\ fileUpload' = [fileUpload EXCEPT !.parts = Append(@, <<target[c], n + 1>>)]
           /\ UNCHANGED <<job, outbox, loaded>>
  <2>1. Append(Prefix(target[c], n), <<target[c], n + 1>>) = Prefix(target[c], n + 1)
    BY <1>4, PrefixLemma
  <2>2. fileUpload' = Has(target[c], n + 1)
    BY <1>3, <1>8, <2>1 DEF Has
  <2>3. n + 1 \in 0..Parts
    BY <1>4, <1>8
  <2>4. Working(c)'
    BY <1>1, <1>6, <1>8 DEF Working, flow
  <2> QED  BY <1>1, <1>2, <1>6, <1>8, <2>2, <2>3, <2>4, WorkingServes
<1>9. ASSUME NEW r \in {"answered", "rejected"}, FileEnds(c, r), fileUpload' = NoUpload,
             loaded' = loaded \/ loaded' = Whole(target[c]),
             r = "answered" => loaded' = Whole(target[c])
      PROVE  Served' /\ LoadedIsCommitted'
  <2>1. NoJob' /\ inbox' = <<>> /\ outbox = <<>>
    BY <1>1, <1>6, <1>9 DEF FileEnds, Working, NoJob, OpsInv, OperationsInv, RuntimeTypes
  <2>2. Answered(c, r)'
    BY <1>9, <2>1, AnswerIsAlone DEF FileEnds
  <2>3. ~fileUpload'.active
    BY <1>9 DEF NoUpload
  <2> QED  BY <1>1, <1>6, <1>9, <2>2, <2>3, AnswerServes DEF Submitting
<1>10. CASE n = Parts /\ fileUpload' = NoUpload /\ loaded' = fileUpload.parts
            /\ FileEnds(c, "answered")
  <2>1. Whole(target[c]) = Prefix(target[c], Parts)
    BY <1>4, PrefixLemma
  <2> QED  BY <1>5, <1>9, <1>10, <2>1
<1>11. CASE FileFails(c)
  BY <1>9, <1>11 DEF FileFails
<1> QED  BY <1>7, <1>8, <1>10, <1>11

\* The answer reaches its flow.
LEMMA DeliversStep ==
  ASSUME OpsInv, Delivers
  PROVE  Served' /\ LoadedIsCommitted'
<1>1. PICK c \in Callers : call[c] = "waiting"
  BY SomeoneWaits DEF OpsInv, OperationsInv, Served, Quiet, Delivers
<1>2. PICK r \in {"answered", "rejected"} : Answered(c, r)
  BY <1>1 DEF Delivers, OpsInv, OperationsInv, Served, InOneForm, Asked, Working
<1>3. /\ Active(c) /\ pc[c] \in Calling
      /\ \A d \in Callers : d # c => ~Active(d) /\ call[d] # "waiting"
  BY <1>1, WaitingIsActive DEF OpsInv, OperationsInv, Flows, Served
<1>4. PICK e : e = <<c, r>>
  OBVIOUS
<1>5. outbox = <<e>> /\ e[1] = c /\ e[2] = r
  BY <1>2, <1>4 DEF Answered
<1>6. Head(outbox) = e /\ outbox' = <<>>
  BY <1>5, OneMessage DEF Delivers
<1>7. /\ call' = [call EXCEPT ![c] = r] /\ lifecycle' = lifecycle
      /\ UNCHANGED <<inbox, runtimeVars, bridge, flow, store>>
  BY <1>5, <1>6 DEF Delivers, Settle
<1>8. call \in [Callers -> {"none", "waiting", "answered", "rejected"}]
  BY DEF OpsInv, OperationsInv, ClientInv, ClientTypeOK
<1>9. Quiet' /\ \A d \in Callers : call'[d] # "waiting"
  BY <1>2, <1>3, <1>6, <1>7, <1>8 DEF Quiet, Answered, NoJob, runtimeVars
<1>10. pc' = pc /\ part' = part /\ target' = target /\ upload' = upload /\ loaded' = loaded
       /\ fileUpload' = fileUpload /\ job' = job /\ project' = project /\ projectOpen' = projectOpen
  BY <1>7 DEF flow, runtimeVars, bridge, store
<1>11. InOneForm' /\ Gone' /\ FileJob'
  BY <1>7, <1>9, <1>10
  DEF InOneForm, Gone, Emptied, OpsInv, OperationsInv, Served, FileJob, Quiet, NoJob
<1>12. Serves'
  <2>1. SUFFICES ASSUME lifecycle = "running" PROVE \A d \in Callers : ServesFlow(d)'
    BY <1>7 DEF Serves
  <2>2. ServesFlow(c)
    BY <2>1 DEF OpsInv, OperationsInv, Served, Serves
  <2>3. Done(c)' => Done(c)
    <3>1. outbox' # << <<c, "answered">> >>
      BY <1>6, OneMessage
    <3>2. Done(c)' => r = "answered"
      BY <1>7, <1>8, <3>1 DEF Done
    <3> QED  BY <1>2, <3>2 DEF Done, Answered
  <2>4. inbox' = <<>>
    BY <1>9 DEF Quiet
  <2>5. ServesFlow(c)'
    BY <1>10, <2>2, <2>3, <2>4 DEF ServesFlow
  <2>6. \A d \in Callers : d # c => ServesFlow(d)'
    BY <1>3, <1>10 DEF ServesFlow, Active
  <2> QED  BY <2>5, <2>6
<1>13. UploadIsKnown' /\ LoadedIsCommitted'
  BY <1>10 DEF OpsInv, OperationsInv, Served, UploadIsKnown, Active, LoadedIsCommitted
<1> QED  BY <1>11, <1>12, <1>13 DEF Served

\* The handlers keep the types of what they remember.
LEMMA WorkerTurnTypes ==
  ASSUME RuntimeTypes, MessagesOK, WorkerTurn
  PROVE  RuntimeTypes'
<1>1. ASSUME NEW c \in Callers, Imports(c) \/ FileTurn(c) PROVE RuntimeTypes'
  BY <1>1 DEF Imports, FileTurn, FileFails, FileEnds, Loses, RuntimeTypes
<1>2. CASE Delivers
  BY <1>2 DEF Delivers, RuntimeTypes, runtimeVars
<1>3. CASE Handles
  <2>1. PICK c \in Callers : c = Head(inbox)[1]
    BY <1>3 DEF Handles, MessagesOK, Messages
  <2>2. \/ HandleCreate(c) \/ UNCHANGED <<job, captured>> \/ HandleFile(c)
    BY <1>3, <2>1
    DEF Handles, HandleLoad, HandleBegin, HandleAppend, HandleFinish, HandleCancel, runtimeVars
  <2> QED  BY <2>2 DEF HandleCreate, HandleFile, Loses, RuntimeTypes
<1> QED  BY <1>1, <1>2, <1>3 DEF WorkerTurn

\* What the worker does for the flows.
LEMMA WorkerTurnStep ==
  ASSUME OpsInv, WorkerTurn
  PROVE  OperationsInv'
<1>1. FlowTypes' /\ BridgeTypes' /\ Flows'
  BY WorkerTurnIsLocal, LocalKeepsFlows DEF OpsInv, OperationsInv
<1>2. RuntimeTypes'
  BY WorkerTurnTypes DEF OpsInv, OperationsInv
<1> QED  BY <1>1, <1>2, HandlesStep, ImportsStep, FileTurnStep, DeliversStep
         DEF WorkerTurn, OperationsInv


-----------------------------------------------------------------------------
(* The flows' turns: what they leave of the worker's part. *)

\* The other flows stay where they are.
OnlyMoves(m) ==
  \A d \in Callers :
    d # m => pc'[d] = pc[d] /\ part'[d] = part[d] /\ target'[d] = target[d]

Serving == InOneForm /\ Gone /\ Serves /\ FileJob

\* A turn that does not use the worker.
LEMMA TurnWithoutCall ==
  ASSUME OpsInv, NEW m \in Callers, call[m] # "waiting", Stays, OnlyMoves(m), pc'[m] \notin Calling,
         pc'[m] = "fonts" /\ lifecycle = "running" => loaded = Whole(target'[m])
  PROVE  Serving' /\ RuntimeTypes'
<1>1. UNCHANGED <<call, lifecycle, inbox, outbox, job, captured, upload, fileUpload, loaded>>
  BY DEF Stays, clientVars, workerVars, runtimeVars
<1>2. InOneForm /\ Gone /\ Serves /\ FileJob /\ RuntimeTypes
  BY DEF OpsInv, OperationsInv, Served
<1>3. InOneForm'
  <2>1. \A c \in Callers : call'[c] = "waiting" => c # m /\ call[c] = "waiting"
    BY <1>1
  <2>2. ASSUME NEW c \in Callers, c # m, call[c] = "waiting"
        PROVE  pc'[c] \in Calling
               /\ (Asked(c)' \/ Working(c)' \/ \E r \in {"answered", "rejected"} : Answered(c, r)')
    <3>1. pc'[c] = pc[c] /\ part'[c] = part[c]
      BY <2>2 DEF OnlyMoves
    <3> QED  BY <1>1, <1>2, <2>2, <3>1 DEF InOneForm, Asked, Working, Answered, NoJob, MethodOf
  <2>3. (\A c \in Callers : call'[c] # "waiting") => Quiet'
    BY <1>1, <1>2 DEF InOneForm, Quiet, NoJob
  <2> QED  BY <2>1, <2>2, <2>3 DEF InOneForm
<1>4. Gone'
  BY <1>1, <1>2 DEF Gone, Quiet, NoJob, Emptied
<1>5. FileJob'
  <2>1. ASSUME NEW c \in Callers, job[c] = "file" PROVE target'[c] = target[c]
    <3>1. call[c] = "waiting"
      BY <2>1, JobIsAlone
    <3> QED  BY <3>1 DEF OnlyMoves
  <2> QED  BY <1>1, <1>2, <2>1 DEF FileJob
<1>6. Serves'
  <2>1. SUFFICES ASSUME lifecycle = "running", NEW c \in Callers PROVE ServesFlow(c)'
    BY <1>1 DEF Serves
  <2>2. CASE c = m
    BY <1>1, <2>1, <2>2 DEF ServesFlow, Calling
  <2>3. CASE c # m
    BY <1>1, <1>2, <2>1, <2>3 DEF ServesFlow, Serves, OnlyMoves, Done
  <2> QED  BY <2>2, <2>3
<1>7. RuntimeTypes'
  BY <1>1, <1>2 DEF RuntimeTypes
<1> QED  BY <1>3, <1>4, <1>5, <1>6, <1>7 DEF Serving

\* A turn that posts the next call.
LEMMA TurnWithCall ==
  ASSUME OpsInv, NEW m \in Callers, call[m] # "waiting", OnlyMoves(m), pc'[m] \in Calling,
         \A d \in Callers : d # m => ~Active(d), Posts(m, MethodOf(m)'),
         lifecycle = "running" =>
           /\ pc'[m] = "begin" => ~upload.active
           /\ pc'[m] = "append" => upload = Has(target'[m], part'[m] - 1)
           /\ pc'[m] = "finish" => upload = Has(target'[m], Parts)
  PROVE  /\ Serving' /\ RuntimeTypes'
         /\ UNCHANGED <<lifecycle, restartOperation, upload, loaded>>
<1>1. UNCHANGED <<lifecycle, restartOperation, outbox, job, captured, upload, fileUpload, loaded>>
  BY DEF Posts, Request, restartVars, runtimeVars
<1>2. \A d \in Callers : call[d] # "waiting"
  BY WaitingIsActive DEF OpsInv, OperationsInv, Flows, Served
<1>3. Quiet /\ Gone /\ RuntimeTypes /\ ~fileUpload.active
  BY <1>2 DEF OpsInv, OperationsInv, Served, InOneForm, FileJob, Quiet, NoJob
<1>4. /\ call' = [call EXCEPT ![m] = IF lifecycle = "running" THEN "waiting" ELSE "rejected"]
      /\ call \in [Callers -> {"none", "waiting", "answered", "rejected"}]
  BY DEF Posts, Request, OpsInv, ClientInv, ClientTypeOK
<1>5. inbox' = IF lifecycle = "running" THEN << <<m, MethodOf(m)', part'[m]>> >> ELSE <<>>
  BY <1>3, OneMessage DEF Posts, Quiet
<1>6. InOneForm'
  <2>1. CASE lifecycle = "running"
    <3>1. Asked(m)'
      BY <1>1, <1>3, <1>5, <2>1 DEF Asked, Quiet, NoJob
    <3>2. \A d \in Callers : call'[d] = "waiting" => d = m
      BY <1>2, <1>4
    <3>3. call'[m] = "waiting"
      BY <1>4, <2>1
    <3> QED  BY <3>1, <3>2, <3>3 DEF InOneForm
  <2>2. CASE lifecycle # "running"
    <3>1. Quiet'
      BY <1>1, <1>3, <1>5, <2>2 DEF Quiet, NoJob
    <3>2. \A d \in Callers : call'[d] # "waiting"
      BY <1>2, <1>4, <2>2
    <3> QED  BY <3>1, <3>2 DEF InOneForm
  <2> QED  BY <2>1, <2>2
<1>7. Gone'
  <2>1. SUFFICES ASSUME lifecycle # "running"
                 PROVE  Quiet' /\ Emptied' /\ \A d \in Callers : call'[d] # "waiting"
    BY <1>1 DEF Gone
  <2>2. Quiet'
    BY <1>1, <1>3, <1>5, <2>1 DEF Quiet, NoJob
  <2>3. Emptied'
    BY <1>1, <1>3, <2>1 DEF Gone, Emptied
  <2> QED  BY <1>2, <1>4, <2>1, <2>2, <2>3
<1>8. FileJob'
  BY <1>1, <1>3 DEF FileJob, Quiet, NoJob
<1>9. Serves'
  <2>1. SUFFICES ASSUME lifecycle = "running", NEW c \in Callers PROVE ServesFlow(c)'
    BY <1>1 DEF Serves
  <2>2. outbox' = <<>> /\ call'[m] = "waiting"
    BY <1>1, <1>3, <1>4, <2>1 DEF Quiet
  <2>3. ~Done(m)'
    BY <2>2, OneMessage DEF Done
  <2>4. CASE c = m
    BY <1>1, <2>1, <2>3, <2>4 DEF ServesFlow, Calling
  <2>5. CASE c # m
    BY <2>5 DEF ServesFlow, OnlyMoves, Active
  <2> QED  BY <2>4, <2>5
<1>10. RuntimeTypes'
  BY <1>1, <1>3 DEF RuntimeTypes
<1> QED  BY <1>1, <1>6, <1>7, <1>8, <1>9, <1>10 DEF Serving

\* The end of a worker.
LEMMA WorkerEnds ==
  ASSUME OpsInv, worker' = None, WorkerFollows, RejectPending
  PROVE  Quiet' /\ Emptied' /\ RuntimeTypes' /\ \A c \in Callers : call'[c] # "waiting"
<1>1. \A c \in Callers : call'[c] # "waiting"
  BY DEF RejectPending
<1>2. CASE worker' = worker
  <2>1. lifecycle # "running"
    BY <1>2 DEF OpsInv, ClientInv, OneWorker
  <2>2. UNCHANGED <<inbox, outbox, job, captured, upload, fileUpload, loaded>>
    BY <1>2 DEF WorkerFollows, workerVars, runtimeVars
  <2> QED  BY <1>1, <2>1, <2>2
           DEF OpsInv, OperationsInv, Served, Gone, Quiet, NoJob, Emptied, RuntimeTypes
<1>3. CASE worker' # worker
  BY <1>1, <1>3 DEF WorkerFollows, Quiet, NoJob, Emptied, NoUpload, RuntimeTypes
<1> QED  BY <1>2, <1>3

\* With nothing left at the worker, no flow depends on it.
LEMMA NothingServed ==
  ASSUME Quiet, Emptied, \A c \in Callers : call[c] # "waiting",
         lifecycle = "running" => \A c \in Callers : pc[c] \notin Calling \cup {"fonts"}
  PROVE  Serving /\ UploadIsKnown /\ LoadedIsCommitted
BY DEF Serving, InOneForm, Gone, Serves, ServesFlow, FileJob, Quiet, NoJob, Emptied, UploadIsKnown,
       LoadedIsCommitted, Calling


-----------------------------------------------------------------------------
(* The flows' turns. *)

\* The parts of a flow whose operation is not in the code at an upload.
LEMMA NoUploadLeft ==
  ASSUME OpsInv, NEW c \in Callers, Active(c), c \in {"open", "restart"},
         pc[c] \notin Streaming \cup {"waiting"}
  PROVE  ~upload.active
BY DEF OpsInv, OperationsInv, Served, UploadIsKnown, Flows, Alone, Active, Streaming

\* The worker is being restarted only while its flow waits for that.
LEMMA NotRestarting ==
  ASSUME OpsInv, NEW c \in Callers, Active(c),
         pc[c] \in {"restarting", "cleaning"} => operation[joined[c]] \in {"resolved", "rejected"}
  PROVE  lifecycle # "restarting"
<1> SUFFICES ASSUME lifecycle = "restarting" PROVE FALSE
  OBVIOUS
<1>1. PICK d \in Callers : pc[d] \in {"restarting", "cleaning"} /\ joined[d] = restartOperation
  BY DEF OpsInv, OperationsInv, Flows, RestartIsAwaited
<1>2. d = c
  BY <1>1 DEF OpsInv, OperationsInv, Flows, Alone, Active
<1>3. operation[restartOperation] = "waiting"
  BY DEF OpsInv, ClientInv, JoinedIsWaiting
<1> QED  BY <1>1, <1>2, <1>3

\* An operation ends.
LEMMA EndsStep ==
  ASSUME OpsInv, NEW c \in Callers, call[c] # "waiting", Ends(c), Stays,
         Active(c) => lifecycle # "restarting",
         pc[c] = "off" => FALSE,
         UNCHANGED <<constrained, disposing, sessionGeneration, project>>, ready' \in BOOLEAN,
         projectOperation' \in Nat, projectOperation' >= projectOperation,
         projectOpen' \in BOOLEAN,
         c # "open" \/ ~Active("open") => projectOpen' = projectOpen,
         c = "open" /\ Active("open") => projectOpen' \/ ~upload.active
  PROVE  OperationsInv'
<1>1. /\ pc' = [pc EXCEPT ![c] = "off"] /\ target' = [target EXCEPT ![c] = NoProject]
      /\ recovering' = [recovering EXCEPT ![c] = FALSE]
         /\ token' = [token EXCEPT ![c] = <<0, 0, 0>>]
      /\ part' = [part EXCEPT ![c] = 0] /\ joined' = [joined EXCEPT ![c] = None]
  BY DEF Ends, Moves
<1>2. FlowTypes /\ BridgeTypes /\ Flows /\ Served /\ LoadedIsCommitted /\ MessagesOK
  BY DEF OpsInv, OperationsInv
<1>3. FlowTypes' /\ BridgeTypes'
  BY <1>1, <1>2 DEF FlowTypes, BridgeTypes, None
<1>4. pc'[c] = "off" /\ OnlyMoves(c)
  BY <1>1, <1>2 DEF FlowTypes, OnlyMoves, MessagesOK
<1>5. Serving' /\ RuntimeTypes'
  BY <1>4, TurnWithoutCall DEF Calling
<1>6. UNCHANGED <<lifecycle, restartOperation, upload, loaded>>
  BY DEF Stays, clientVars, restartVars, workerVars, runtimeVars
<1>7. \A d \in Callers : d # c =>
        /\ pc'[d] = pc[d] /\ target'[d] = target[d] /\ recovering'[d] = recovering[d]
        /\ token'[d] = token[d] /\ part'[d] = part[d] /\ joined'[d] = joined[d]
  BY <1>1, <1>2 DEF FlowTypes, MessagesOK
<1>8. ~Active(c)' /\ recovering'[c] = FALSE /\ token'[c] = <<0, 0, 0>>
  BY <1>1, <1>2 DEF FlowTypes, Active
<1>9. Alone'
  BY <1>2, <1>4, <1>7 DEF Flows, Alone, Active
<1>10. OlderToken'
  <2>1. token'["open"][1] <= projectOperation'
    <3>1. CASE c = "open"
      BY <1>8, <3>1
    <3>2. CASE c # "open"
      BY <1>2, <1>7, <3>2 DEF Flows, OlderToken, FlowTypes, BridgeTypes
    <3> QED  BY <3>1, <3>2
  <2>2. ASSUME pc'["open"] = "picking", token'["open"][1] = projectOperation'
        PROVE  pc'["source"] = "off" /\ pc'["restart"] \notin Submitting
    <3>1. c # "open" /\ token["open"] = token'["open"] /\ pc["open"] = "picking"
      BY <1>4, <1>7, <2>2
    <3>2. token["open"][1] = projectOperation
      BY <1>2, <2>2, <3>1 DEF Flows, OlderToken, FlowTypes, BridgeTypes
    <3>3. pc["source"] = "off" /\ pc["restart"] \notin Submitting
      BY <1>2, <3>1, <3>2 DEF Flows, OlderToken
    <3> QED  BY <1>4, <1>7, <3>3 DEF Submitting
  <2> QED  BY <2>1, <2>2 DEF OlderToken
<1>11. RestartIsAwaited'
  <2> SUFFICES ASSUME lifecycle = "restarting"
               PROVE  \E d \in Callers : pc'[d] \in {"restarting", "cleaning"}
                      /\ joined'[d] = restartOperation
    BY <1>6 DEF RestartIsAwaited
  <2>1. PICK d \in Callers : pc[d] \in {"restarting", "cleaning"} /\ joined[d] = restartOperation
    BY <1>2 DEF Flows, RestartIsAwaited
  <2>2. d # c
    BY <2>1 DEF Active
  <2> QED  BY <1>7, <2>1, <2>2
<1>12. RestartKeepsOpen' /\ Recovers'
  BY <1>2, <1>4, <1>7, <1>8 DEF Flows, RestartKeepsOpen, Recovers, Active, Alone
<1>13. Retired' /\ SourceIsWhole' /\ PartIsNext'
  BY <1>2, <1>4, <1>7, <1>8 DEF Flows, Retired, SourceIsWhole, PartIsNext, Active, Submitting
<1>14. UploadIsKnown'
  BY <1>2, <1>4, <1>6, <1>7, <1>8
     DEF Flows, Served, UploadIsKnown, Alone, Active, RestartKeepsOpen, FlowTypes, Streaming
<1>15. LoadedIsCommitted'
  BY <1>2, <1>6 DEF LoadedIsCommitted
<1> QED  BY <1>3, <1>5, <1>9, <1>10, <1>11, <1>12, <1>13, <1>14, <1>15
         DEF OperationsInv, Flows, Served, Serving

\* An error leaves the bridge.
LEMMA FailsStep ==
  ASSUME OpsInv, NEW c \in Callers, call[c] # "waiting", Fails(c), Stays, UNCHANGED bridge,
         pc[c] # "off", Active(c) => lifecycle # "restarting",
         c = "open" /\ pc[c] = "waiting" => ~upload.active
  PROVE  OperationsInv'
<1>1. FlowTypes /\ BridgeTypes /\ Flows /\ Served /\ LoadedIsCommitted /\ MessagesOK
  BY DEF OpsInv, OperationsInv
<1>2. /\ projectOpen' = (projectOpen /\ ~(c = "open" /\ pc[c] # "picking"))
      /\ ready' = ready
         /\ UNCHANGED <<constrained, disposing, sessionGeneration, project, projectOperation>>
  BY DEF Fails, bridge
<1>3. projectOpen' \in BOOLEAN /\ ready' \in BOOLEAN /\ projectOperation' \in Nat
      /\ projectOperation' >= projectOperation
  BY <1>1, <1>2 DEF BridgeTypes
<1>4. CASE c = "open" /\ pc[c] \in Submitting
  <2>1. /\ pc' = [pc EXCEPT !["open"] = "waiting"]
           /\ recovering' = [recovering EXCEPT !["open"] = TRUE]
        /\ UNCHANGED <<token, target, part, joined>>
    BY <1>4 DEF Fails, Moves
  <2>2. FlowTypes' /\ BridgeTypes'
    BY <1>1, <1>2, <1>3, <2>1 DEF FlowTypes, BridgeTypes, Replacing
  <2>3. pc'["open"] = "waiting" /\ recovering'["open"] /\ OnlyMoves(c)
    BY <1>1, <1>4, <2>1 DEF FlowTypes, OnlyMoves
  <2>4. Serving' /\ RuntimeTypes'
    BY <1>4, <2>3, TurnWithoutCall DEF Calling
  <2>5. UNCHANGED <<lifecycle, restartOperation, upload, loaded>>
    BY DEF Stays, clientVars, restartVars, workerVars, runtimeVars
  <2>6. /\ pc'["restart"] = pc["restart"] /\ pc'["source"] = pc["source"]
        /\ recovering'["restart"] = recovering["restart"]
           /\ recovering'["source"] = recovering["source"]
    BY <1>1, <2>1 DEF FlowTypes
  <2>7. Active("open") /\ ~Active("restart") /\ ~Active("source")
    BY <1>1, <1>4 DEF Flows, Alone, Active, Submitting
  <2>8. Alone' /\ OlderToken' /\ RestartKeepsOpen' /\ Recovers'
    BY <1>1, <1>2, <2>1, <2>3, <2>6, <2>7
       DEF Flows, Alone, OlderToken, RestartKeepsOpen, Recovers, Active, Replacing
  <2>9. RestartIsAwaited'
    BY <1>4, <2>5, <2>7 DEF RestartIsAwaited
  <2>10. Retired' /\ SourceIsWhole' /\ PartIsNext'
    BY <1>1, <1>2, <2>1, <2>3, <2>6, <2>7
       DEF Flows, Retired, SourceIsWhole, PartIsNext, Active, Submitting
  <2>11. UploadIsKnown' /\ LoadedIsCommitted'
    BY <1>1, <1>2, <2>3, <2>5 DEF UploadIsKnown, LoadedIsCommitted
  <2> QED  BY <2>2, <2>4, <2>8, <2>9, <2>10, <2>11 DEF OperationsInv, Flows, Served, Serving
<1>5. CASE ~(c = "open" /\ pc[c] \in Submitting)
  <2>1. Ends(c)
    BY <1>5 DEF Fails
  <2>2. c # "open" \/ ~Active("open") => projectOpen' = projectOpen
    BY <1>1, <1>2 DEF Active, BridgeTypes
  <2>3. c = "open" /\ Active("open") => ~upload.active
    BY <1>5, NoUploadLeft DEF Submitting, Streaming
  <2> QED  BY <1>2, <1>3, <2>1, <2>2, <2>3, EndsStep
<1> QED  BY <1>4, <1>5

\* The session is replaced.
LEMMA PreparesStep ==
  ASSUME OpsInv, ClientInv', NEW c \in Callers, pc[c] \in Replacing, call[c] # "waiting",
         NEW to \in {"restarting", "cleaning"}, Prepares(c, to), projectOpen' = projectOpen
  PROVE  OperationsInv'
<1>1. FlowTypes /\ BridgeTypes /\ Flows /\ Served /\ LoadedIsCommitted /\ MessagesOK
  BY DEF OpsInv, OperationsInv
<1>2. /\ pc' = [pc EXCEPT ![c] = to] /\ joined' = [joined EXCEPT ![c] = restartOperation']
      /\ ready' = FALSE /\ sessionGeneration' = sessionGeneration + 1
      /\ UNCHANGED <<token, target, part, recovering, constrained, projectOperation, project,
         disposing>>
  BY DEF Prepares, Moves
<1>3. restartOperation' \in Nat
  BY DEF ClientInv, ClientTypeOK
<1>4. FlowTypes' /\ BridgeTypes'
  <2>1. pc[c] # "picking" /\ pc[c] # "off" /\ c # "source"
    BY <1>1 DEF Replacing, FlowTypes
  <2>2. pc' \in [Callers -> {"off", "picking"} \cup Replacing \cup Submitting]
    BY <1>1, <1>2 DEF FlowTypes, Replacing
  <2>3. pc'["restart"] # "picking" /\ pc'["source"] = pc["source"]
    BY <1>1, <1>2, <2>1 DEF FlowTypes
  <2>6. PICK k \in Nat : k = restartOperation'
    BY <1>3
  <2>7. joined \in [Callers -> Nat] /\ joined' = [joined EXCEPT ![c] = k]
    BY <1>1, <1>2, <2>6 DEF FlowTypes
  <2>4. joined' \in [Callers -> Nat]
    BY <2>7
  <2>8. sessionGeneration' \in Nat /\ projectOperation' \in Nat
    BY <1>1, <1>2 DEF BridgeTypes
  <2>9. constrained' \in BOOLEAN /\ disposing' \in BOOLEAN /\ project' \in Projects \cup {NoProject}
        /\ ready' \in BOOLEAN /\ projectOpen' \in BOOLEAN
    BY <1>1, <1>2, Zenon DEF BridgeTypes
  <2>5. BridgeTypes'
    BY <2>8, <2>9 DEF BridgeTypes
  <2> QED  BY <1>1, <1>2, <2>2, <2>3, <2>4, <2>5 DEF FlowTypes
<1>5. lifecycle' = "restarting"
  BY DEF Prepares, Restart, RestartJoins, RestartStarts, clientVars
<1>6. Quiet' /\ Emptied' /\ RuntimeTypes' /\ \A d \in Callers : call'[d] # "waiting"
  <2>1. CASE RestartStarts
    BY <2>1, WorkerEnds DEF RestartStarts, DetachAndTerminate, Prepares
  <2>2. CASE RestartJoins
    <3>1. lifecycle = "restarting" /\ worker' = worker /\ call' = call
      BY <2>2 DEF RestartJoins, clientVars
    <3>2. UNCHANGED <<inbox, outbox, job, captured, upload, fileUpload, loaded>>
      BY <3>1 DEF Prepares, WorkerFollows, workerVars, runtimeVars
    <3> QED  BY <1>1, <3>1, <3>2
             DEF OpsInv, OperationsInv, Served, Gone, Quiet, NoJob, Emptied, RuntimeTypes
  <2> QED  BY <2>1, <2>2 DEF Prepares, Restart
<1>7. Serving' /\ UploadIsKnown' /\ LoadedIsCommitted'
  BY <1>5, <1>6
  DEF Serving, InOneForm, Gone, Serves, FileJob, Quiet, NoJob, Emptied, UploadIsKnown,
      LoadedIsCommitted
<1>8. pc'[c] = to /\ joined'[c] = restartOperation' /\ \A d \in Callers : d # c => pc'[d] = pc[d]
      /\ ~Active(d)
  BY <1>1, <1>2 DEF FlowTypes, Flows, Alone, Active, Replacing
<1>9. Alone' /\ OlderToken' /\ RestartIsAwaited' /\ RestartKeepsOpen' /\ Recovers'
  <2>0. \A d \in Callers : d # c => ~Active(d)'
    BY <1>8 DEF Active
  <2>4. Alone'
    BY <2>0 DEF Alone
  <2>5. RestartIsAwaited'
    <3>1. \E d \in Callers : pc'[d] \in {"restarting", "cleaning"} /\ joined'[d] = restartOperation'
      BY <1>8
    <3> QED  BY <3>1 DEF RestartIsAwaited
  <2>1. Alone' /\ RestartIsAwaited'
    BY <2>4, <2>5
  <2>6. token' = token /\ projectOperation' = projectOperation
    BY <1>2
  <2>7. \A d \in Callers : pc'[d] # pc[d] => pc'[d] \in {"restarting", "cleaning"}
    BY <1>8
  <2>8. pc'["source"] = pc["source"]
    BY <1>1, <1>8 DEF FlowTypes, Replacing
  <2>2. OlderToken'
    BY <1>1, <2>6, <2>7, <2>8 DEF Flows, OlderToken, Submitting
  <2>3. RestartKeepsOpen' /\ Recovers'
    BY <1>1, <1>2, <1>8 DEF Flows, RestartKeepsOpen, Recovers, Active, Replacing
  <2> QED  BY <2>1, <2>2, <2>3
<1>10. Retired' /\ SourceIsWhole' /\ PartIsNext'
  BY <1>1, <1>2, <1>8 DEF Flows, Retired, SourceIsWhole, PartIsNext, Active, Submitting, Replacing
<1> QED  BY <1>4, <1>6, <1>7, <1>9, <1>10 DEF OperationsInv, Flows, Served, Serving

\* The catch block of a replacement.
LEMMA CleansStep ==
  ASSUME OpsInv, ClientInv', NEW c \in Callers, pc[c] \in {"restarting", "creating"},
         call[c] # "waiting",
         Cleans(c)
  PROVE  OperationsInv'
<1>1. CASE Prepares(c, "cleaning") /\ UNCHANGED projectOpen
  BY <1>1, PreparesStep DEF Replacing
<1>2. CASE lifecycle = "closed" /\ Fails(c) /\ Stays /\ UNCHANGED bridge
  BY <1>2, FailsStep
<1> QED  BY <1>1, <1>2 DEF Cleans


\* What a turn of the only flow under way has to keep.
LEMMA SoloFlows ==
  ASSUME FlowTypes, Flows, NEW m \in Callers, lifecycle' # "restarting", OlderToken',
         \A d \in Callers : d # m => ~Active(d) /\ pc'[d] = pc[d] /\ recovering'[d] = recovering[d],
         m = "restart" /\ Active(m)' => projectOpen',
         recovering'[m] => m = "open" /\ pc'[m] \in Replacing,
         m = "open" /\ Active(m)' /\ ~recovering'[m] =>
           target'[m] \in Projects /\ (pc'[m] # "fonts" => project' = NoProject),
         pc'[m] \in Submitting => target'[m] \in Projects /\ project' \in {target'[m], NoProject},
         m = "source" /\ pc'[m] # "off" /\ constrained' => target'[m] \in Packaged,
         pc'[m] = "begin" => part'[m] = 0,
         pc'[m] = "append" => part'[m] \in 1..Parts,
         pc'[m] = "finish" => part'[m] = Parts
  PROVE  Flows'
<1>1. \A d \in Callers : d # m => pc'[d] \in {"off", "picking"} /\ ~Active(d)' /\ ~recovering'[d]
  BY DEF Active, Flows, Recovers, Replacing
<1>2. Alone' /\ RestartIsAwaited' /\ RestartKeepsOpen' /\ Recovers'
  BY <1>1 DEF Alone, RestartIsAwaited, RestartKeepsOpen, Recovers
<1>3. Retired'
  BY <1>1 DEF Retired, Submitting
<1>4. SourceIsWhole'
  <2>1. m # "source" => pc'["source"] = "off"
    BY <1>1 DEF FlowTypes
  <2> QED  BY <2>1 DEF SourceIsWhole
<1>5. PartIsNext'
  BY <1>1 DEF PartIsNext
<1> QED  BY <1>2, <1>3, <1>4, <1>5 DEF Flows

\* The others, when a flow is under way or moves.
LEMMA OthersRest ==
  ASSUME OpsInv, NEW c \in Callers, Active(c)
  PROVE  \A d \in Callers : d # c => ~Active(d)
BY DEF OpsInv, OperationsInv, Flows, Alone

\* A flow that does not await a call has none with the worker.
LEMMA NoCall ==
  ASSUME OpsInv, NEW c \in Callers, pc[c] \notin Calling
  PROVE  call[c] # "waiting"
BY DEF OpsInv, OperationsInv, Served, InOneForm

\* The flow posts its next call.
LEMMA PostsNextStep ==
  ASSUME OpsInv, NEW c \in Callers, pc[c] \in Submitting \ {"fonts"}, call[c] # "waiting",
         NEW method \in Calling \ {"creating"}, NEW i \in 0..Parts, PostsNext(c, method, i),
         c = "source" => method \in {"load", "file"},
         c # "source" /\ upload.active => method \in Streaming,
         method = "begin" => i = 0 /\ ~upload.active,
         method = "append" => i \in 1..Parts
         /\ (lifecycle = "running" => upload = Has(target[c], i - 1)),
         method = "finish" => i = Parts /\ (lifecycle = "running" => upload = Has(target[c], Parts))
  PROVE  OperationsInv'
<1>1. FlowTypes /\ BridgeTypes /\ Flows /\ Served /\ LoadedIsCommitted /\ MessagesOK
  BY DEF OpsInv, OperationsInv
<1>2. /\ pc' = [pc EXCEPT ![c] = method] /\ part' = [part EXCEPT ![c] = i]
      /\ UNCHANGED <<token, target, joined, recovering, bridge, store>> /\ Posts(c, method)
  BY DEF PostsNext, Moves
<1>3. Active(c) /\ \A d \in Callers : d # c => ~Active(d)
  BY OthersRest DEF Active, Submitting
<1>4. pc'[c] = method /\ part'[c] = i /\ OnlyMoves(c) /\ target' = target
      /\ recovering' = recovering
  BY <1>1, <1>2 DEF FlowTypes, MessagesOK, OnlyMoves
<1>5. MethodOf(c)' = method
  BY <1>4 DEF MethodOf
<1>6. Serving' /\ RuntimeTypes' /\ UNCHANGED <<lifecycle, restartOperation, upload, loaded>>
  BY <1>2, <1>3, <1>4, <1>5, TurnWithCall
<1>7. BridgeTypes' /\ LoadedIsCommitted' /\ project' = project /\ projectOpen' = projectOpen
  BY <1>1, <1>2, <1>6 DEF BridgeTypes, LoadedIsCommitted, bridge, store
<1>8. FlowTypes'
  <2>1. pc' \in [Callers -> {"off", "picking"} \cup Replacing \cup Submitting]
    BY <1>1, <1>2 DEF FlowTypes, Submitting, Calling
  <2>2. pc'["restart"] # "picking" /\ pc'["source"] \in {"off", "reading", "load", "file", "fonts"}
    BY <1>1, <1>2 DEF FlowTypes, Calling
  <2> QED  BY <1>1, <1>2, <2>1, <2>2 DEF FlowTypes
<1>9. OlderToken'
  <2>1. pc'["open"] = "picking" => pc["open"] = "picking" /\ c # "open"
    BY <1>4 DEF Calling, OnlyMoves
  <2>2. pc'["open"] = "picking" => token["open"][1] # projectOperation
    BY <1>1, <2>1, <1>3 DEF Flows, OlderToken, FlowTypes, Active, Submitting
  <2> QED  BY <1>1, <1>2, <2>2 DEF Flows, OlderToken, bridge
<1>10. lifecycle' # "restarting"
  BY <1>3, <1>6, NotRestarting DEF Submitting
<1>11. target[c] \in Projects /\ project \in {target[c], NoProject} /\ ~recovering[c]
  BY <1>1 DEF Flows, Retired, Recovers, Submitting, Replacing
<1>12. Flows'
  <2>1. \A d \in Callers : d # c => ~Active(d) /\ pc'[d] = pc[d] /\ recovering'[d] = recovering[d]
    BY <1>3, <1>4 DEF OnlyMoves
  <2>2. c = "restart" => projectOpen'
    BY <1>1, <1>3, <1>7 DEF Flows, RestartKeepsOpen
  <2>3. c = "open" => project' = NoProject
    BY <1>1, <1>3, <1>7, <1>11 DEF Flows, Retired
  <2>4. c = "source" /\ constrained' => target'[c] \in Packaged
    BY <1>1, <1>2, <1>3, <1>4 DEF Flows, SourceIsWhole, Active, bridge
  <2> QED  BY <1>1, <1>4, <1>7, <1>9, <1>10, <1>11, <2>1, <2>2, <2>3, <2>4, SoloFlows
<1>13. UploadIsKnown'
  <2>1. SUFFICES ASSUME upload.active
                 PROVE  \/ \E d \in Callers : pc'[d] \in Streaming \cup {"waiting"}
                        \/ projectOpen /\ ~Active("open")' /\ ~Active("restart")'
    BY <1>6, <1>7 DEF UploadIsKnown
  <2>2. CASE c # "source"
    BY <1>4, <2>1, <2>2
  <2>3. CASE c = "source"
    <3>1. projectOpen /\ ~Active("open") /\ ~Active("restart")
      BY <1>1, <1>3, <2>1, <2>3 DEF Served, UploadIsKnown, Active, Streaming, FlowTypes
    <3> QED  BY <1>4, <2>3, <3>1 DEF OnlyMoves, Active
  <2> QED  BY <2>2, <2>3
<1> QED  BY <1>6, <1>7, <1>8, <1>12, <1>13 DEF OperationsInv, Served, Serving


\* A turn of the only flow under way that does not use the worker.
LEMMA QuietMove ==
  ASSUME OpsInv, NEW m \in Callers, call[m] # "waiting", Stays, lifecycle # "restarting",
         \A d \in Callers : d # m =>
           /\ ~Active(d) /\ pc'[d] = pc[d] /\ recovering'[d] = recovering[d]
           /\ part'[d] = part[d] /\ target'[d] = target[d],
         FlowTypes', BridgeTypes', OlderToken', LoadedIsCommitted',
         pc'[m] \notin Calling,
         pc'[m] = "fonts" /\ lifecycle = "running" => loaded = Whole(target'[m]),
         m = "restart" /\ Active(m)' => projectOpen',
         recovering'[m] => m = "open" /\ pc'[m] \in Replacing,
         m = "open" /\ Active(m)' /\ ~recovering'[m] =>
           target'[m] \in Projects /\ (pc'[m] # "fonts" => project' = NoProject),
         pc'[m] \in Submitting => target'[m] \in Projects /\ project' \in {target'[m], NoProject},
         m = "source" /\ pc'[m] # "off" /\ constrained' => target'[m] \in Packaged,
         upload.active => pc'[m] = "waiting"
         \/ (projectOpen' /\ ~Active("open")' /\ ~Active("restart")')
  PROVE  OperationsInv'
<1>1. FlowTypes /\ Flows /\ Served
  BY DEF OpsInv, OperationsInv
<1>2. UNCHANGED <<lifecycle, upload>>
  BY DEF Stays, clientVars, workerVars, runtimeVars
<1>3. Serving' /\ RuntimeTypes'
  BY TurnWithoutCall DEF OnlyMoves
<1>4. Flows'
  <2>1. lifecycle' # "restarting"
    BY <1>2
  <2>2. pc'[m] \notin {"begin", "append", "finish"}
    BY DEF Calling
  <2> QED  BY <1>1, <2>1, <2>2, SoloFlows
<1>5. UploadIsKnown'
  BY <1>2 DEF UploadIsKnown
<1> QED  BY <1>3, <1>4, <1>5 DEF OperationsInv, Served, Serving

\* The new session is asked for.
LEMMA CreatesStep ==
  ASSUME OpsInv, NEW c \in {"open", "restart"}, call[c] # "waiting", Posts(c, "create"),
         pc' = [pc EXCEPT ![c] = "creating"], UNCHANGED <<token, part, joined, recovering>>,
         target' = target
         \/ (c = "open" /\ target' \in {[target EXCEPT ![c] = p] : p \in Projects}),
         UNCHANGED <<constrained, projectOperation, disposing, store>>,
         project' \in {project, NoProject},
         sessionGeneration' \in Nat, lifecycle # "restarting",
         \A d \in Callers : d # c => ~Active(d),
         c = "restart" => projectOpen,
         c = "open" /\ ~recovering[c] => target'[c] \in Projects /\ project' = NoProject,
         recovering[c] => c = "open", ~upload.active
  PROVE  OperationsInv'
<1>1. FlowTypes /\ BridgeTypes /\ Flows /\ Served /\ LoadedIsCommitted /\ MessagesOK
  BY DEF OpsInv, OperationsInv
<1>2. pc'[c] = "creating" /\ \A d \in Callers : d # c => pc'[d] = pc[d]
  BY <1>1 DEF FlowTypes
<1>3. target' \in [Callers -> Projects \cup {NoProject}] /\ \A d \in Callers : d # c
      => target'[d] = target[d]
  BY <1>1 DEF FlowTypes
<1>4. OnlyMoves(c) /\ MethodOf(c)' = "create"
  BY <1>2, <1>3 DEF OnlyMoves, MethodOf
<1>5. Serving' /\ RuntimeTypes' /\ UNCHANGED <<lifecycle, restartOperation, upload, loaded>>
  BY <1>2, <1>4, TurnWithCall DEF Calling
<1>6. FlowTypes'
  BY <1>1, <1>3 DEF FlowTypes, Replacing
<1>7. BridgeTypes'
  BY <1>1 DEF BridgeTypes, store
<1>8. OlderToken'
  <2>1. pc'["source"] = pc["source"]
        /\ (pc'["restart"] \in Submitting => pc["restart"] \in Submitting)
    BY <1>2 DEF Submitting
  <2>2. pc'["open"] = "picking" => pc["open"] = "picking"
    BY <1>2
  <2> QED  BY <1>1, <2>1, <2>2 DEF Flows, OlderToken
<1>9. Flows'
  <2>1. projectOpen' = projectOpen /\ pc'[c] \in Replacing /\ pc'[c] \notin Submitting
        /\ pc'[c] # "fonts"
    BY <1>2 DEF store, Replacing, Submitting
  <2>2. lifecycle' # "restarting"
    BY <1>5
  <2> QED  BY <1>1, <1>2, <1>8, <2>1, <2>2, SoloFlows
<1>10. UploadIsKnown' /\ LoadedIsCommitted'
  BY <1>1, <1>5 DEF UploadIsKnown, LoadedIsCommitted
<1> QED  BY <1>5, <1>6, <1>7, <1>9, <1>10 DEF OperationsInv, Served, Serving

\* A new session is asked for once the old worker is replaced.
LEMMA ReplaceStep ==
  ASSUME OpsInv, ClientInv', NEW c \in Callers, ReplaceSession(c)
  PROVE  OperationsInv'
<1>1. call[c] # "waiting"
  BY NoCall DEF ReplaceSession, Calling
<1>2. CASE lifecycle # "closed" /\ Prepares(c, "restarting") /\ UNCHANGED projectOpen
  BY <1>1, <1>2, PreparesStep DEF ReplaceSession, Replacing
<1>3. CASE lifecycle = "closed" /\ Fails(c) /\ Stays /\ UNCHANGED bridge
  <2>1. ~upload.active
    BY <1>3 DEF OpsInv, OperationsInv, Served, Gone, Emptied
  <2> QED  BY <1>1, <1>3, <2>1, FailsStep DEF ReplaceSession
<1> QED  BY <1>2, <1>3 DEF ReplaceSession

\* The restart a replacement waits for has ended, well or not.
LEMMA RestartedStep ==
  ASSUME OpsInv, ClientInv', NEW c \in Callers, Restarted(c)
  PROVE  OperationsInv'
<1>1. pc[c] = "restarting" /\ call[c] # "waiting" /\ Active(c)
  BY NoCall DEF Restarted, Calling, Active
<1>2. CASE operation[joined[c]] = "resolved" /\ CreatesSession(c)
  <2>1. lifecycle # "restarting"
    BY <1>1, <1>2, NotRestarting
  <2>2. c \in {"open", "restart"} /\ ~upload.active
    <3>1. c \in {"open", "restart"}
      BY <1>1 DEF OpsInv, OperationsInv, FlowTypes
    <3> QED  BY <1>1, <3>1, NoUploadLeft DEF Streaming
  <2>3. \A d \in Callers : d # c => ~Active(d)
    BY <1>1, OthersRest
  <2>4. c = "restart" => projectOpen
    BY <1>1 DEF OpsInv, OperationsInv, Flows, RestartKeepsOpen
  <2>5. /\ c = "open" /\ ~recovering[c] => target[c] \in Projects /\ project = NoProject
        /\ recovering[c] => c = "open"
    BY <1>1 DEF OpsInv, OperationsInv, Flows, Retired, Recovers
  <2>6. sessionGeneration' \in Nat
    BY <1>2 DEF CreatesSession, OpsInv, OperationsInv, BridgeTypes
  <2>7. /\ pc' = [pc EXCEPT ![c] = "creating"] /\ Posts(c, "create")
        /\ UNCHANGED <<token, target, part, joined, recovering, constrained, projectOperation,
           project, disposing, store>>
    BY <1>2 DEF CreatesSession, KeepsFlow, Moves
  <2> QED  BY <1>1, <2>1, <2>2, <2>3, <2>4, <2>5, <2>6, <2>7, CreatesStep
<1>3. CASE Cleans(c)
  BY <1>1, <1>3, CleansStep
<1> QED  BY <1>2, <1>3 DEF Restarted

\* The cleanup after a failed replacement is over; its error leaves the bridge.
LEMMA CleanedStep ==
  ASSUME OpsInv, NEW c \in Callers, Cleaned(c)
  PROVE  OperationsInv'
<1>1. pc[c] = "cleaning" /\ call[c] # "waiting" /\ Active(c)
  BY NoCall DEF Cleaned, Calling, Active
<1>2. lifecycle # "restarting"
  BY <1>1, NotRestarting DEF Cleaned
<1> QED  BY <1>1, <1>2, FailsStep DEF Cleaned

\* The session is there.
LEMMA AdoptsStep ==
  ASSUME OpsInv, NEW c \in Callers, pc[c] = "creating", call[c] # "waiting", ready' = TRUE,
         Adopts(c), Stays
  PROVE  OperationsInv'
<1>1. FlowTypes /\ BridgeTypes /\ Flows /\ LoadedIsCommitted
  BY DEF OpsInv, OperationsInv
<1>2. Active(c) /\ lifecycle # "restarting"
  BY NotRestarting DEF Active
<1>3. (\A d \in Callers : d # c => ~Active(d)) /\ loaded' = loaded
  BY <1>2, OthersRest DEF Stays, workerVars, runtimeVars
<1>4. c \in {"open", "restart"} => ~upload.active
  BY <1>2, NoUploadLeft DEF Streaming
<1>5. CASE /\ c = "open" /\ ~recovering[c] /\ token[c][1] = projectOperation
           /\ token' = [token EXCEPT ![c] = <<projectOperation, sessionGeneration, generation>>]
           /\ Moves(c, "reading")
              /\ UNCHANGED <<target, part, joined, recovering, bridge, projectOpen>>
  <2>1. /\ pc' = [pc EXCEPT !["open"] = "reading"] /\ pc'["open"] = "reading"
        /\ \A d \in Callers : d # c => pc'[d] = pc[d]
    BY <1>1, <1>5 DEF Moves, FlowTypes
  <2>2. generation \in Nat
    BY DEF OpsInv, ClientInv, ClientTypeOK
  <2>3. token' \in [Callers -> Nat \X Nat \X Nat] /\ token'["open"][1] = projectOperation
    <3>1. PICK t \in Nat \X Nat \X Nat : t = <<projectOperation, sessionGeneration, generation>>
      BY <1>1, <2>2 DEF BridgeTypes
    <3>2. t[1] = projectOperation
      BY <3>1
    <3> QED  BY <1>1, <1>5, <3>1, <3>2 DEF FlowTypes
  <2>4. FlowTypes' /\ BridgeTypes'
    <3>1. pc' \in [Callers -> {"off", "picking"} \cup Replacing \cup Submitting]
      BY <1>1, <2>1 DEF FlowTypes, Submitting
    <3>2. BridgeTypes'
      BY <1>1, <1>5 DEF BridgeTypes, bridge
    <3> QED  BY <1>1, <1>5, <2>1, <2>3, <3>1, <3>2 DEF FlowTypes
  <2>5. OlderToken'
    BY <1>1, <1>5, <2>1, <2>3 DEF OlderToken, bridge, BridgeTypes
  <2>6. target[c] \in Projects /\ project = NoProject
    BY <1>1, <1>2, <1>5 DEF Flows, Retired
  <2>7. LoadedIsCommitted' /\ project' = NoProject /\ target' = target /\ recovering' = recovering
        /\ part' = part
    BY <1>1, <1>3, <1>5, <2>6 DEF LoadedIsCommitted, bridge
  <2>8. pc'[c] \notin Calling
    BY <1>5, <2>1 DEF Calling
  <2> QED  BY <1>2, <1>3, <1>4, <1>5, <2>1, <2>4, <2>5, <2>6, <2>7, <2>8, QuietMove
<1>6. CASE /\ c = "open" /\ ~recovering[c] /\ token[c][1] # projectOperation
           /\ Moves(c, "waiting") /\ recovering' = [recovering EXCEPT ![c] = TRUE]
              /\ projectOpen' = FALSE
           /\ UNCHANGED <<token, target, part, joined, bridge>>
  <2>1. /\ pc' = [pc EXCEPT !["open"] = "waiting"] /\ pc'["open"] = "waiting" /\ recovering'["open"]
        /\ \A d \in Callers : d # c => pc'[d] = pc[d] /\ recovering'[d] = recovering[d]
    BY <1>1, <1>6 DEF Moves, FlowTypes
  <2>2. FlowTypes' /\ BridgeTypes'
    <3>1. pc' \in [Callers -> {"off", "picking"} \cup Replacing \cup Submitting]
      BY <1>1, <2>1 DEF FlowTypes, Replacing
    <3>2. BridgeTypes'
      BY <1>1, <1>6 DEF BridgeTypes, bridge
    <3> QED  BY <1>1, <1>6, <2>1, <3>1, <3>2 DEF FlowTypes
  <2>3. OlderToken' /\ LoadedIsCommitted' /\ target' = target /\ part' = part
    BY <1>1, <1>3, <1>6, <2>1 DEF Flows, OlderToken, bridge, LoadedIsCommitted
  <2>4. pc'[c] \notin Calling /\ pc'[c] \in Replacing /\ pc'[c] \notin Submitting
    BY <1>6, <2>1 DEF Calling, Replacing, Submitting
  <2> QED  BY <1>2, <1>3, <1>6, <2>1, <2>2, <2>3, <2>4, QuietMove
<1>7. CASE c = "open" /\ recovering[c] /\ Ends(c) /\ UNCHANGED <<bridge, projectOpen>>
  BY <1>1, <1>2, <1>4, <1>7, EndsStep DEF bridge, BridgeTypes
<1>8. CASE /\ c = "restart" /\ project = NoProject /\ projectOperation' = projectOperation + 1
              /\ Ends(c)
           /\ UNCHANGED <<constrained, sessionGeneration, project, disposing, projectOpen>>
  <2>1. projectOperation' \in Nat /\ projectOperation' >= projectOperation
    BY <1>1, <1>8 DEF BridgeTypes
  <2>2. projectOpen' \in BOOLEAN /\ projectOpen' = projectOpen
    BY <1>1, <1>8 DEF BridgeTypes
  <2> QED  BY <1>2, <1>8, <2>1, <2>2, EndsStep
<1>9. CASE /\ c = "restart" /\ project # NoProject /\ Begins(c) /\ Moves(c, "reading")
           /\ target' = [target EXCEPT ![c] = project]
           /\ UNCHANGED <<part, joined, recovering, constrained, sessionGeneration, project,
              disposing, projectOpen>>
  <2>1. /\ pc' = [pc EXCEPT !["restart"] = "reading"] /\ pc'["restart"] = "reading"
           /\ target'["restart"] = project
        /\ \A d \in Callers : d # c => pc'[d] = pc[d] /\ target'[d] = target[d]
    BY <1>1, <1>9 DEF Moves, FlowTypes
  <2>2. generation \in Nat
    BY DEF OpsInv, ClientInv, ClientTypeOK
  <2>3. projectOperation' = projectOperation + 1 /\ projectOperation' \in Nat
    BY <1>1, <1>9 DEF Begins, BridgeTypes
  <2>4. token' \in [Callers -> Nat \X Nat \X Nat] /\ token'["open"] = token["open"]
    <3>1. PICK t : t = <<projectOperation', sessionGeneration, generation>>
      OBVIOUS
    <3>2. t \in Nat \X Nat \X Nat
      BY <1>1, <2>2, <2>3, <3>1 DEF BridgeTypes
    <3>3. token' = [token EXCEPT !["restart"] = t]
      BY <1>9, <3>1 DEF Begins
    <3> QED  BY <1>1, <3>2, <3>3 DEF FlowTypes
  <2>5. FlowTypes' /\ BridgeTypes'
    <3>1. pc' \in [Callers -> {"off", "picking"} \cup Replacing \cup Submitting]
      BY <1>1, <2>1 DEF FlowTypes, Submitting
    <3>2. target' \in [Callers -> Projects \cup {NoProject}]
      BY <1>1, <1>9 DEF FlowTypes, BridgeTypes
    <3>3. BridgeTypes'
      BY <1>1, <1>9, <2>3 DEF BridgeTypes
    <3> QED  BY <1>1, <1>9, <2>1, <2>4, <3>1, <3>2, <3>3 DEF FlowTypes
  <2>6. OlderToken'
    <3>1. token["open"][1] <= projectOperation /\ token["open"][1] \in Nat
      BY <1>1 DEF Flows, OlderToken, FlowTypes
    <3>2. token'["open"][1] < projectOperation'
      BY <1>1, <2>3, <2>4, <3>1 DEF BridgeTypes
    <3> QED  BY <1>1, <2>3, <2>4, <3>1, <3>2 DEF OlderToken, BridgeTypes
  <2>7. LoadedIsCommitted' /\ project' = project /\ recovering' = recovering /\ part' = part
    BY <1>1, <1>3, <1>9 DEF LoadedIsCommitted
  <2>8. ~recovering[c] /\ projectOpen'
    BY <1>1, <1>2, <1>9 DEF Flows, Recovers, RestartKeepsOpen
  <2>9. pc'[c] \notin Calling
    BY <1>9, <2>1 DEF Calling
  <2>10. project \in Projects
    BY <1>1, <1>9 DEF BridgeTypes
  <2> QED  BY <1>2, <1>3, <1>4, <1>9, <2>1, <2>5, <2>6, <2>7, <2>8, <2>9, <2>10, QuietMove
<1> QED  BY <1>5, <1>6, <1>7, <1>8, <1>9 DEF Adopts


\* The answer to the creation of a session.
LEMMA CreatedStep ==
  ASSUME OpsInv, ClientInv', NEW c \in Callers, Created(c)
  PROVE  OperationsInv'
<1>1. pc[c] = "creating" /\ Active(c) /\ call[c] # "waiting"
  BY DEF Created, Active
<1>2. CASE ready' = TRUE /\ Adopts(c) /\ Stays
  BY <1>1, <1>2, AdoptsStep
<1>3. CASE Cleans(c)
  BY <1>1, <1>3, CleansStep
<1>4. CASE Fails(c) /\ Stays /\ UNCHANGED bridge
  BY <1>1, <1>4, NotRestarting, FailsStep
<1> QED  BY <1>2, <1>3, <1>4 DEF Created

\* An error in a submission.
LEMMA ThrowsStep ==
  ASSUME OpsInv, NEW c \in Callers, pc[c] \in Submitting, call[c] # "waiting", Throws(c)
  PROVE  OperationsInv'
<1>1. Active(c) /\ lifecycle # "restarting" /\ pc[c] # "off"
  BY NotRestarting DEF Active, Submitting
<1>2. Fails(c) /\ Stays /\ UNCHANGED bridge /\ pc[c] # "waiting"
  BY DEF Throws, Submitting
<1> QED  BY <1>1, <1>2, FailsStep

\* The project was read: the first call of its submission is posted.
LEMMA ReadsStep ==
  ASSUME OpsInv, NEW c \in Callers, Reads(c)
  PROVE  OperationsInv'
<1>1. pc[c] = "reading" /\ call[c] # "waiting" /\ Active(c)
  BY NoCall DEF Reads, Calling, Active
<1>2. CASE PostsNext(c, FirstCall(target[c]), 0)
  <2>1. FirstCall(target[c]) \in {"load", "file", "begin"}
    BY DEF FirstCall
  <2>2. c = "source" => FirstCall(target[c]) # "begin"
    BY <1>1 DEF FirstCall, OpsInv, OperationsInv, Flows, SourceIsWhole
  <2>3. c # "source" => ~upload.active
    BY <1>1, NoUploadLeft DEF Streaming
  <2>4. 0 \in 0..Parts
    BY PartsAssumption
  <2> QED  BY <1>1, <1>2, <2>1, <2>2, <2>3, <2>4, PostsNextStep DEF Submitting, Calling, Streaming
<1>3. CASE Throws(c)
  BY <1>1, <1>3, ThrowsStep DEF Submitting
<1> QED  BY <1>2, <1>3 DEF Reads

\* The runtime has the project.
LEMMA SubmittedStep ==
  ASSUME OpsInv, NEW c \in Callers, pc[c] \in {"load", "file", "finish"}, call[c] = "answered",
         Submitted(c)
  PROVE  OperationsInv'
<1>1. FlowTypes /\ BridgeTypes /\ Flows /\ LoadedIsCommitted /\ Served
  BY DEF OpsInv, OperationsInv
<1>2. Active(c) /\ lifecycle # "restarting" /\ call[c] # "waiting"
  BY NotRestarting DEF Active
<1>3. \A d \in Callers : d # c => ~Active(d)
  BY <1>2, OthersRest
<1>4. /\ pc' = [pc EXCEPT ![c] = "fonts"] /\ Stays
      /\ UNCHANGED <<token, target, part, joined, recovering, constrained, projectOperation,
         sessionGeneration, disposing, store>>
      /\ project' = IF c = "open" THEN target[c] ELSE project
  BY DEF Submitted, Moves, KeepsFlow
<1>5. pc'[c] = "fonts" /\ \A d \in Callers : d # c => pc'[d] = pc[d]
  BY <1>1, <1>4 DEF FlowTypes
<1>6. target[c] \in Projects /\ project \in {target[c], NoProject} /\ ~recovering[c]
  BY <1>1 DEF Flows, Retired, Recovers, Submitting, Replacing
<1>7. loaded' = loaded /\ (lifecycle = "running" => loaded = Whole(target[c]))
      /\ (lifecycle # "running" => loaded = <<>>)
  <2>1. lifecycle = "running" => ServesFlow(c)
    BY <1>1 DEF Served, Serves
  <2> QED  BY <1>1, <1>4, <2>1
           DEF Stays, workerVars, runtimeVars, Served, Gone, Emptied, ServesFlow, Done
<1>8. FlowTypes' /\ BridgeTypes'
  <2>1. pc' \in [Callers -> {"off", "picking"} \cup Replacing \cup Submitting]
    BY <1>1, <1>4 DEF FlowTypes, Submitting
  <2>2. BridgeTypes'
    BY <1>1, <1>4, <1>6 DEF BridgeTypes, store
  <2> QED  BY <1>1, <1>4, <1>5, <2>1, <2>2 DEF FlowTypes
<1>9. OlderToken'
  <2>1. pc'["open"] = "picking" => c # "open" /\ pc["open"] = "picking"
    BY <1>5
  <2>2. pc'["open"] = "picking" => token["open"][1] # projectOperation
    BY <1>1, <2>1 DEF Flows, OlderToken, FlowTypes, Submitting
  <2> QED  BY <1>1, <1>4, <2>2 DEF Flows, OlderToken
<1>10. LoadedIsCommitted' /\ project' \in {target[c], NoProject}
  BY <1>1, <1>4, <1>6, <1>7 DEF LoadedIsCommitted
<1>11. upload.active => projectOpen' /\ ~Active("open")' /\ ~Active("restart")'
  <2>1. SUFFICES ASSUME upload.active
                 PROVE  projectOpen' /\ ~Active("open")' /\ ~Active("restart")'
    OBVIOUS
  <2>2. c = "source"
    <3>1. SUFFICES ASSUME c # "source" PROVE FALSE
      OBVIOUS
    <3>2. pc[c] = "finish"
      BY <1>2, <2>1, <3>1, NoUploadLeft DEF Streaming
    <3>3. lifecycle = "running" /\ ServesFlow(c)
      BY <1>1, <2>1 DEF Served, Gone, Emptied, Serves
    <3> QED  BY <2>1, <3>2, <3>3 DEF ServesFlow, Done
  <2>3. projectOpen /\ ~Active("open") /\ ~Active("restart")
    BY <1>1, <1>3, <2>1, <2>2 DEF Served, UploadIsKnown, Active, Streaming, FlowTypes
  <2> QED  BY <1>4, <1>5, <2>2, <2>3 DEF Active, store
<1>12. pc'[c] \notin Calling
  BY <1>5 DEF Calling
<1>13. /\ c = "restart" => projectOpen'
       /\ c = "source" /\ constrained' => target[c] \in Packaged
  BY <1>1, <1>2, <1>4 DEF Flows, RestartKeepsOpen, SourceIsWhole, Active, store
<1> QED  BY <1>2, <1>3, <1>4, <1>5, <1>6, <1>7, <1>8, <1>9, <1>10, <1>11, <1>12, <1>13, QuietMove

\* An answer to a call of a submission: the next part, the end, a cancellation, or an error.
LEMMA ReturnsStep ==
  ASSUME OpsInv, NEW c \in Callers, Returns(c)
  PROVE  OperationsInv'
<1>1. pc[c] \in {"load", "file", "begin", "append", "finish", "cancel"} /\ call[c] # "waiting"
      /\ Active(c)
      /\ pc[c] \in Submitting \ {"fonts"}
  BY DEF Returns, Active, Submitting
<1>2. (pc[c] \in Streaming => c # "source") /\ PartIsNext /\ part[c] \in 0..Parts
      /\ Parts \in Nat \ {0}
  BY PartsAssumption DEF OpsInv, OperationsInv, FlowTypes, Flows, Streaming, MessagesOK
<1>3. call[c] = "answered" /\ lifecycle = "running" => ServesFlow(c) /\ Done(c)
  BY DEF OpsInv, OperationsInv, Served, Serves, Done
<1>4. CASE Throws(c)
  BY <1>1, <1>4, ThrowsStep
<1>5. CASE pc[c] \in Streaming /\ PostsNext(c, "cancel", 0)
  BY <1>1, <1>2, <1>5, PostsNextStep DEF Calling, Streaming
<1>6. CASE call[c] = "answered" /\ pc[c] \in {"begin", "append"} /\ part[c] < Parts
           /\ PostsNext(c, "append", part[c] + 1)
  <2>1. PICK i : i = part[c] + 1
    OBVIOUS
  <2>2. i \in 0..Parts /\ i \in 1..Parts /\ i - 1 = part[c]
    BY <1>2, <1>6, <2>1
  <2>3. lifecycle = "running" => upload = Has(target[c], i - 1)
    BY <1>3, <1>6, <2>2 DEF ServesFlow
  <2>4. c # "source"
    BY <1>2, <1>6 DEF Streaming
  <2> QED  BY <1>1, <1>6, <2>1, <2>2, <2>3, <2>4, PostsNextStep DEF Calling, Streaming
<1>7. CASE call[c] = "answered" /\ pc[c] = "append" /\ part[c] = Parts
           /\ PostsNext(c, "finish", Parts)
  <2>1. lifecycle = "running" => upload = Has(target[c], Parts)
    BY <1>3, <1>7 DEF ServesFlow
  <2>2. c # "source" /\ Parts \in 0..Parts
    BY <1>2, <1>7 DEF Streaming
  <2> QED  BY <1>1, <1>7, <2>1, <2>2, PostsNextStep DEF Calling, Streaming
<1>8. CASE call[c] = "answered" /\ pc[c] \in {"load", "file", "finish"} /\ Submitted(c)
  BY <1>8, SubmittedStep
<1> QED  BY <1>4, <1>5, <1>6, <1>7, <1>8 DEF Returns, Cancels, Streaming

\* The fonts are there, or the operation is no longer current.
LEMMA FontsStep ==
  ASSUME OpsInv, NEW c \in Callers, FontsLoaded(c)
  PROVE  OperationsInv'
<1>1. pc[c] = "fonts" /\ Active(c) /\ call[c] # "waiting" /\ lifecycle # "restarting"
  BY NoCall, NotRestarting DEF FontsLoaded, Calling, Active
<1>2. CASE Ends(c) /\ projectOpen' = (projectOpen \/ c = "open") /\ Stays
           /\ UNCHANGED <<ready, bridge>>
  <2>1. BridgeTypes
    BY DEF OpsInv, OperationsInv
  <2>2. UNCHANGED <<constrained, disposing, sessionGeneration, project, projectOperation, ready>>
    BY <1>2 DEF bridge
  <2>3. projectOperation' \in Nat /\ projectOperation' >= projectOperation
    BY <2>1, <2>2 DEF BridgeTypes
  <2>4. projectOpen' \in BOOLEAN /\ ready' \in BOOLEAN
    BY <1>2, <2>1, <2>2 DEF BridgeTypes
  <2>5. c # "open" => projectOpen' = projectOpen
    BY <1>2, <2>1 DEF BridgeTypes
  <2>6. c = "open" => projectOpen'
    BY <1>2
  <2> QED  BY <1>1, <1>2, <2>2, <2>3, <2>4, <2>5, <2>6, EndsStep
<1>3. CASE Throws(c)
  BY <1>1, <1>3, ThrowsStep DEF Submitting
<1> QED  BY <1>2, <1>3 DEF FontsLoaded

\* Every turn of a flow.
LEMMA TurnStep ==
  ASSUME OpsInv, ClientInv', NEW c \in Callers, Turn(c)
  PROVE  OperationsInv'
BY ReplaceStep, RestartedStep, CreatedStep, CleanedStep, ReadsStep, ReturnsStep, FontsStep DEF Turn


-----------------------------------------------------------------------------
(* The player's steps, and the end of a worker or of the page. *)

\* An open shows its picker; nobody else is under way.
LEMMA BeginOpenStep ==
  ASSUME OpsInv, BeginOpen
  PROVE  OperationsInv'
<1>1. FlowTypes /\ BridgeTypes /\ Flows /\ LoadedIsCommitted /\ Served
  BY DEF OpsInv, OperationsInv
<1>2. /\ \A d \in Callers : pc[d] = "off" /\ ~Active(d)
      /\ pc' = [pc EXCEPT !["open"] = "picking"] /\ projectOperation' = projectOperation + 1
      /\ token' = [token EXCEPT !["open"] = <<projectOperation', sessionGeneration, generation>>]
      /\ Stays
      /\ UNCHANGED <<constrained, sessionGeneration, project, disposing, target, part, joined,
         recovering, store>>
  BY DEF BeginOpen, Begins, Moves, Active
<1>3. projectOperation' \in Nat /\ generation \in Nat /\ sessionGeneration \in Nat
  BY <1>1, <1>2 DEF BridgeTypes, OpsInv, ClientInv, ClientTypeOK
<1>4. token' \in [Callers -> Nat \X Nat \X Nat] /\ token'["open"][1] = projectOperation'
  <2>1. PICK t : t = <<projectOperation', sessionGeneration, generation>>
    OBVIOUS
  <2>2. t \in Nat \X Nat \X Nat /\ t[1] = projectOperation'
    BY <1>3, <2>1
  <2> QED  BY <1>1, <1>2, <2>1, <2>2 DEF FlowTypes
<1>5. pc'["open"] = "picking" /\ \A d \in Callers : d # "open" => pc'[d] = "off" /\ pc[d] = "off"
  BY <1>1, <1>2 DEF FlowTypes
<1>6. FlowTypes' /\ BridgeTypes'
  <2>1. pc' \in [Callers -> {"off", "picking"} \cup Replacing \cup Submitting]
    BY <1>1, <1>2 DEF FlowTypes
  <2>2. BridgeTypes'
    BY <1>1, <1>2, <1>3 DEF BridgeTypes, store
  <2> QED  BY <1>1, <1>2, <1>4, <1>5, <2>1, <2>2 DEF FlowTypes
<1>7. OlderToken'
  BY <1>3, <1>4, <1>5 DEF OlderToken, Submitting
<1>8. LoadedIsCommitted' /\ lifecycle # "restarting"
  BY <1>1, <1>2 DEF LoadedIsCommitted, Stays, workerVars, runtimeVars, Flows, RestartIsAwaited
<1>9. call["open"] # "waiting" /\ pc'["open"] \notin Calling \cup Submitting
  BY <1>2, <1>5, NoCall DEF Calling, Submitting
<1>10. ~recovering'["open"] /\ ~Active("open")' /\ ~Active("restart")'
  BY <1>1, <1>2, <1>5 DEF Flows, Recovers, Replacing, Active
<1>11. upload.active => projectOpen'
  BY <1>1, <1>2 DEF Served, UploadIsKnown, Streaming, store
<1> QED  BY <1>2, <1>5, <1>6, <1>7, <1>8, <1>9, <1>10, <1>11, QuietMove DEF Calling

\* The picker returns nothing.
LEMMA PickCancelledStep ==
  ASSUME OpsInv, PickCancelled
  PROVE  OperationsInv'
<1>1. pc["open"] = "picking" /\ ~Active("open") /\ call["open"] # "waiting"
  BY NoCall DEF PickCancelled, Calling, Active
<1>2. BridgeTypes
      /\ UNCHANGED <<constrained, disposing, sessionGeneration, project, projectOperation, ready,
         projectOpen>>
  BY DEF PickCancelled, bridge, store, OpsInv, OperationsInv
<1> QED  BY <1>1, <1>2, EndsStep DEF PickCancelled, BridgeTypes

\* A picker that returns to the current operation finds no other flow under way.
LEMMA PickedAlone ==
  ASSUME OpsInv, ~Overlaps, pc["open"] = "picking", Current("open"),
         pc["restart"] \in Replacing => Overlaps
  PROVE  /\ \A d \in Callers : ~Active(d)
         /\ lifecycle # "restarting"
<1>1. FlowTypes /\ Flows
  BY DEF OpsInv, OperationsInv
<1>2. token["open"][1] = projectOperation
  BY DEF Current
<1>3. pc["source"] = "off" /\ pc["restart"] = "off"
  BY <1>1, <1>2 DEF Flows, OlderToken, FlowTypes
<1>4. \A d \in Callers : ~Active(d)
  BY <1>3 DEF Active
<1> QED  BY <1>1, <1>4 DEF Flows, RestartIsAwaited, Active

\* The picker returns a project.
LEMMA PickedStep ==
  ASSUME OpsInv, ~Overlaps, NEW p \in Projects, Picked(p)
  PROVE  OperationsInv'
<1>1. FlowTypes /\ BridgeTypes /\ Flows /\ LoadedIsCommitted /\ Served
  BY DEF OpsInv, OperationsInv
<1>2. pc["open"] = "picking" /\ ~Active("open") /\ call["open"] # "waiting"
  BY NoCall DEF Picked, Calling, Active
<1>3. CASE Fails("open") /\ Stays /\ UNCHANGED bridge
  BY <1>2, <1>3, FailsStep
<1>4. CASE /\ Current("open") /\ project' = NoProject
           /\ target' = [target EXCEPT !["open"] = p]
           /\ UNCHANGED <<token, part, joined, recovering, constrained, projectOperation,
              disposing, store>>
           /\ \/ projectOpen /\ Moves("open", "waiting") /\ Stays /\ UNCHANGED sessionGeneration
              \/ ~projectOpen /\ ready /\ Moves("open", "reading") /\ Stays
                 /\ UNCHANGED sessionGeneration
              \/ ~projectOpen /\ ~ready /\ Moves("open", "creating")
                 /\ sessionGeneration' = sessionGeneration + 1 /\ Posts("open", "create")
  <2>1. (\A d \in Callers : ~Active(d)) /\ lifecycle # "restarting"
    BY <1>2, PickedAlone, <1>4 DEF Picked
  <2>2. ~projectOpen => ~upload.active
    BY <1>1, <2>1 DEF Served, UploadIsKnown, Active, Streaming
  <2>3. target' \in [Callers -> Projects \cup {NoProject}] /\ target'["open"] = p
        /\ \A d \in Callers : d # "open" => target'[d] = target[d]
    BY <1>1, <1>4 DEF FlowTypes
  <2>4. sessionGeneration' \in Nat
    BY <1>1, <1>4 DEF BridgeTypes
  <2>5. ASSUME NEW to \in {"waiting", "reading"}, Moves("open", to), Stays, to = "reading"
               => ~projectOpen
        PROVE  OperationsInv'
    <3>1. /\ pc' = [pc EXCEPT !["open"] = to] /\ pc'["open"] = to
          /\ \A d \in Callers : d # "open" => pc'[d] = pc[d]
      BY <1>1, <2>5 DEF Moves, FlowTypes
    <3>2. FlowTypes'
      <4>1. pc' \in [Callers -> {"off", "picking"} \cup Replacing \cup Submitting]
        BY <1>1, <3>1 DEF FlowTypes, Replacing, Submitting
      <4> QED  BY <1>1, <1>4, <2>3, <3>1, <4>1 DEF FlowTypes
    <3>3. BridgeTypes'
      BY <1>1, <1>4, <2>4 DEF BridgeTypes, store
    <3>4. OlderToken'
      BY <1>1, <1>4, <3>1 DEF Flows, OlderToken
    <3>5. LoadedIsCommitted'
      BY <1>1, <1>4, <2>5 DEF LoadedIsCommitted, Stays, workerVars, runtimeVars
    <3>6. ~recovering'["open"] /\ recovering' = recovering /\ part' = part
      BY <1>1, <1>2, <1>4 DEF Flows, Recovers, Replacing
    <3>7. upload.active => pc'["open"] = "waiting"
      BY <2>2, <2>5, <3>1
    <3>8. pc'["open"] \notin Calling /\ pc'["open"] # "fonts"
      BY <3>1 DEF Calling
    <3> QED  BY <1>2, <1>4, <2>1, <2>3, <2>5, <3>1, <3>2, <3>3, <3>4, <3>5, <3>6, <3>7, <3>8,
                QuietMove
  <2>6. CASE ~projectOpen /\ Moves("open", "creating") /\ Posts("open", "create")
    <3>1. ~recovering["open"]
      BY <1>1, <1>2 DEF Flows, Recovers, Replacing
    <3>2. pc' = [pc EXCEPT !["open"] = "creating"]
      BY <2>6 DEF Moves
    <3> QED  BY <1>2, <1>4, <2>1, <2>2, <2>3, <2>4, <2>6, <3>1, <3>2, CreatesStep
  <2> QED  BY <1>4, <2>5, <2>6
<1> QED  BY <1>3, <1>4 DEF Picked, Retires

\* A restart begins.
LEMMA BeginRestartStep ==
  ASSUME OpsInv, BeginRestart
  PROVE  OperationsInv'
<1>1. FlowTypes /\ BridgeTypes /\ Flows /\ LoadedIsCommitted /\ Served
  BY DEF OpsInv, OperationsInv
<1>2. /\ projectOpen /\ pc["restart"] = "off" /\ pc["source"] = "off" /\ ~Locked
      /\ pc' = [pc EXCEPT !["restart"] = "waiting"] /\ Stays
      /\ UNCHANGED <<token, target, part, joined, recovering, bridge, store>>
  BY DEF BeginRestart, KeepsFlow, Moves
<1>3. \A d \in Callers : ~Active(d)
  BY <1>1, <1>2 DEF Locked, FlowTypes, Active
<1>4. lifecycle # "restarting" /\ call["restart"] # "waiting"
  BY <1>1, <1>2, <1>3, NoCall DEF Flows, RestartIsAwaited, Active, Calling
<1>5. pc'["restart"] = "waiting" /\ \A d \in Callers : d # "restart" => pc'[d] = pc[d]
  BY <1>1, <1>2 DEF FlowTypes
<1>6. FlowTypes' /\ BridgeTypes'
  <2>1. pc' \in [Callers -> {"off", "picking"} \cup Replacing \cup Submitting]
    BY <1>1, <1>2 DEF FlowTypes, Replacing
  <2>2. BridgeTypes'
    BY <1>1, <1>2 DEF BridgeTypes, bridge, store
  <2> QED  BY <1>1, <1>2, <1>5, <2>1, <2>2 DEF FlowTypes
<1>7. OlderToken' /\ LoadedIsCommitted' /\ recovering' = recovering /\ target' = target
      /\ part' = part /\ projectOpen'
  BY <1>1, <1>2, <1>5
     DEF Flows, OlderToken, LoadedIsCommitted, bridge, store, Stays, workerVars, runtimeVars,
         Submitting
<1>8. ~recovering["restart"] /\ pc'["restart"] \notin Calling \cup Submitting
  BY <1>1, <1>5 DEF Flows, Recovers, Calling, Submitting
<1> QED  BY <1>2, <1>3, <1>4, <1>5, <1>6, <1>7, <1>8, QuietMove DEF Submitting

\* A reload of the sources begins.
LEMMA BeginSourceStep ==
  ASSUME OpsInv, BeginSource
  PROVE  OperationsInv'
<1>1. FlowTypes /\ BridgeTypes /\ Flows /\ LoadedIsCommitted /\ Served
  BY DEF OpsInv, OperationsInv
<1>2. /\ pc["source"] = "off" /\ ~Locked /\ project # NoProject
         /\ (constrained => project \in Packaged)
      /\ pc' = [pc EXCEPT !["source"] = "reading"] /\ projectOperation' = projectOperation + 1
      /\ token' = [token EXCEPT !["source"] = <<projectOperation', sessionGeneration, generation>>]
      /\ target' = [target EXCEPT !["source"] = project] /\ Stays
      /\ UNCHANGED <<constrained, sessionGeneration, project, disposing, part, joined, recovering,
         store>>
  BY DEF BeginSource, Begins, Moves
<1>3. \A d \in Callers : ~Active(d)
  BY <1>1, <1>2 DEF Locked, FlowTypes, Active
<1>4. lifecycle # "restarting" /\ call["source"] # "waiting"
  BY <1>1, <1>2, <1>3, NoCall DEF Flows, RestartIsAwaited, Active, Calling
<1>5. /\ pc'["source"] = "reading" /\ target'["source"] = project
      /\ \A d \in Callers : d # "source" => pc'[d] = pc[d] /\ target'[d] = target[d]
  BY <1>1, <1>2 DEF FlowTypes
<1>6. projectOperation' \in Nat /\ generation \in Nat /\ sessionGeneration \in Nat
  BY <1>1, <1>2 DEF BridgeTypes, OpsInv, ClientInv, ClientTypeOK
<1>7. token' \in [Callers -> Nat \X Nat \X Nat] /\ token'["open"] = token["open"]
  <2>1. PICK t : t = <<projectOperation', sessionGeneration, generation>>
    OBVIOUS
  <2>2. t \in Nat \X Nat \X Nat
    BY <1>6, <2>1
  <2> QED  BY <1>1, <1>2, <2>1, <2>2 DEF FlowTypes
<1>8. FlowTypes' /\ BridgeTypes'
  <2>1. pc' \in [Callers -> {"off", "picking"} \cup Replacing \cup Submitting]
    BY <1>1, <1>2 DEF FlowTypes, Submitting
  <2>2. BridgeTypes'
    BY <1>1, <1>2, <1>6 DEF BridgeTypes, store
  <2>3. target' \in [Callers -> Projects \cup {NoProject}]
    BY <1>1, <1>2 DEF FlowTypes, BridgeTypes
  <2> QED  BY <1>1, <1>2, <1>5, <1>7, <2>1, <2>2, <2>3 DEF FlowTypes
<1>9. OlderToken'
  <2>1. token["open"][1] <= projectOperation /\ token["open"][1] \in Nat
    BY <1>1 DEF Flows, OlderToken, FlowTypes
  <2>2. token'["open"][1] < projectOperation'
    BY <1>1, <1>2, <1>7, <2>1 DEF BridgeTypes
  <2> QED  BY <1>6, <1>7, <2>1, <2>2 DEF OlderToken
<1>10. LoadedIsCommitted' /\ recovering' = recovering /\ part' = part /\ projectOpen' = projectOpen
       /\ project' = project
  BY <1>1, <1>2 DEF LoadedIsCommitted, store, Stays, workerVars, runtimeVars
<1>11. ~recovering["source"] /\ pc'["source"] \notin Calling /\ pc'["source"] # "fonts"
       /\ project \in Projects
  BY <1>1, <1>2, <1>5 DEF Flows, Recovers, Calling, BridgeTypes
<1>12. upload.active => projectOpen /\ ~Active("open")' /\ ~Active("restart")'
  BY <1>1, <1>3, <1>5 DEF Served, UploadIsKnown, Active, Streaming
<1> QED  BY <1>2, <1>3, <1>4, <1>5, <1>8, <1>9, <1>10, <1>11, <1>12, QuietMove

\* A step of the bridge beside the flows, with a worker that lives on or has left nothing.
LEMMA BesideFlows ==
  ASSUME OpsInv, UNCHANGED <<constrained, sessionGeneration, flow, store>>,
         project' \in {project, NoProject}, projectOperation' \in Nat,
         projectOperation' >= projectOperation,
         disposing' \in BOOLEAN, lifecycle' = "restarting"
         => UNCHANGED <<lifecycle, restartOperation>>
  PROVE  FlowTypes' /\ BridgeTypes' /\ Flows'
<1>1. FlowTypes /\ BridgeTypes /\ Flows
  BY DEF OpsInv, OperationsInv
<1>2. /\ pc' = pc /\ token' = token /\ target' = target /\ part' = part /\ joined' = joined
      /\ recovering' = recovering /\ projectOpen' = projectOpen /\ ready' = ready
      /\ constrained' = constrained
  BY DEF flow, store
<1>3. FlowTypes' /\ BridgeTypes'
  BY <1>1, <1>2 DEF FlowTypes, BridgeTypes
<1>4. Alone' /\ RestartIsAwaited' /\ RestartKeepsOpen' /\ Recovers'
  BY <1>1, <1>2 DEF Flows, Alone, RestartIsAwaited, RestartKeepsOpen, Recovers, Active
<1>5. OlderToken'
  <2>1. token["open"][1] <= projectOperation /\ token["open"][1] \in Nat /\ projectOperation \in Nat
    BY <1>1 DEF Flows, OlderToken, FlowTypes, BridgeTypes
  <2>2. token["open"][1] <= projectOperation'
    BY <2>1
  <2>3. token["open"][1] = projectOperation' => token["open"][1] = projectOperation
    BY <2>1
  <2> QED  BY <1>1, <1>2, <2>2, <2>3 DEF Flows, OlderToken
<1>6. Retired' /\ SourceIsWhole' /\ PartIsNext'
  BY <1>1, <1>2 DEF Flows, Retired, SourceIsWhole, PartIsNext, Active
<1> QED  BY <1>3, <1>4, <1>5, <1>6 DEF Flows

\* The worker crashes with all it holds.
LEMMA WorkerCrashesStep ==
  ASSUME OpsInv, WorkerCrashes
  PROVE  OperationsInv'
<1>1. UNCHANGED <<bridge, flow, store>> /\ lifecycle' = "failed"
  BY DEF WorkerCrashes, Crash
<1>2. FlowTypes' /\ BridgeTypes' /\ Flows'
  BY <1>1, BesideFlows DEF bridge, OpsInv, OperationsInv, BridgeTypes
<1>3. Quiet' /\ Emptied' /\ RuntimeTypes' /\ \A c \in Callers : call'[c] # "waiting"
  BY WorkerEnds DEF WorkerCrashes, Crash, DetachAndTerminate
<1>4. Serving' /\ UploadIsKnown' /\ LoadedIsCommitted'
  BY <1>1, <1>3
  DEF Serving, InOneForm, Gone, Serves, FileJob, Quiet, NoJob, Emptied, UploadIsKnown,
      LoadedIsCommitted
<1> QED  BY <1>2, <1>3, <1>4 DEF OperationsInv, Served, Serving

\* The page goes: nothing is current any more.
LEMMA DisposeBeginsStep ==
  ASSUME OpsInv, DisposeBegins
  PROVE  OperationsInv'
<1>1. FlowTypes' /\ BridgeTypes' /\ Flows'
  <2>1. projectOperation' \in Nat /\ projectOperation' >= projectOperation
    BY DEF DisposeBegins, OpsInv, OperationsInv, BridgeTypes
  <2> QED  BY <2>1, BesideFlows DEF DisposeBegins, Stays, clientVars, restartVars
<1>2. UNCHANGED <<clientVars, workerVars, flow, store, project>>
  BY DEF DisposeBegins, Stays
<1>3. Serving' /\ RuntimeTypes'
  BY <1>2
  DEF Serving, OpsInv, OperationsInv, Served, InOneForm, Gone, Serves, ServesFlow, FileJob,
      RuntimeTypes, Quiet, NoJob, Emptied,
      Asked, Working, Answered, MethodOf, Done, flow, clientVars, workerVars, runtimeVars
<1>4. UploadIsKnown' /\ LoadedIsCommitted'
  BY <1>2
  DEF OpsInv, OperationsInv, Served, UploadIsKnown, LoadedIsCommitted, Active, flow, store,
      workerVars, runtimeVars
<1> QED  BY <1>1, <1>3, <1>4 DEF OperationsInv, Served, Serving

\* The page is gone, and the worker with it.
LEMMA DisposeEndsStep ==
  ASSUME OpsInv, DisposeEnds
  PROVE  OperationsInv'
<1>1. lifecycle' = "closed"
  BY DEF DisposeEnds, Close
<1>2. FlowTypes' /\ BridgeTypes' /\ Flows'
  <2>1. projectOperation' \in Nat /\ projectOperation' >= projectOperation
    BY DEF DisposeEnds, OpsInv, OperationsInv, BridgeTypes
  <2> QED  BY <1>1, <2>1, BesideFlows DEF DisposeEnds
<1>3. Quiet' /\ Emptied' /\ RuntimeTypes' /\ \A c \in Callers : call'[c] # "waiting"
  BY WorkerEnds DEF DisposeEnds, Close, DetachAndTerminate
<1>4. Serving' /\ UploadIsKnown' /\ LoadedIsCommitted'
  BY <1>1, <1>3
  DEF Serving, InOneForm, Gone, Serves, FileJob, Quiet, NoJob, Emptied, UploadIsKnown,
      LoadedIsCommitted
<1> QED  BY <1>2, <1>3, <1>4 DEF OperationsInv, Served, Serving

\* A restart goes on.
LEMMA ClientTurnStep ==
  ASSUME OpsInv, NEW k \in Restarts, ClientTurn(k)
  PROVE  OperationsInv'
<1>0. UNCHANGED <<bridge, flow, store>> /\ WorkerFollows
  BY DEF ClientTurn
<1>1. CASE ClearRestartOperation(k)
  <2>1. UNCHANGED <<lifecycle, worker, call>>
    BY <1>1 DEF ClearRestartOperation
  <2>2. UNCHANGED workerVars
    BY <1>0, <2>1 DEF WorkerFollows
  <2>3. lifecycle = "restarting" => restartOperation' = restartOperation
    <3>1. lifecycle = "restarting" => operation[restartOperation] = "waiting"
      BY DEF OpsInv, ClientInv, JoinedIsWaiting
    <3>2. operation[k] # "waiting"
      BY <1>1 DEF ClearRestartOperation, OpsInv, ClientInv, JoinedIsWaiting
    <3> QED  BY <1>1, <3>1, <3>2 DEF ClearRestartOperation, ClearsOwn
  <2>4. FlowTypes' /\ BridgeTypes' /\ Flows'
    BY <1>0, <2>1, <2>3, BesideFlows DEF bridge, OpsInv, OperationsInv, BridgeTypes
  <2>5. Serving' /\ RuntimeTypes'
    BY <1>0, <2>1, <2>2
    DEF Serving, OpsInv, OperationsInv, Served, InOneForm, Gone, Serves, ServesFlow, FileJob,
        RuntimeTypes, Quiet, NoJob, Emptied,
        Asked, Working, Answered, MethodOf, Done, flow, workerVars, runtimeVars
  <2>6. UploadIsKnown' /\ LoadedIsCommitted'
    BY <1>0, <2>2
    DEF OpsInv, OperationsInv, Served, UploadIsKnown, LoadedIsCommitted, Active, flow, store,
        workerVars, runtimeVars, bridge
  <2> QED  BY <2>4, <2>5, <2>6 DEF OperationsInv, Served, Serving
<1>2. CASE PerformRestart(k)
  <2>1. lifecycle = "closed" \/ (lifecycle = "restarting" /\ restartOperation = k)
    BY <1>2 DEF PerformRestart, OpsInv, ClientInv, WaitingIsJoined
  <2>2. Quiet /\ Emptied /\ RuntimeTypes /\ \A c \in Callers : call[c] # "waiting"
    BY <2>1 DEF OpsInv, OperationsInv, Served, Gone
  <2>3. Quiet' /\ Emptied' /\ RuntimeTypes' /\ \A c \in Callers : call'[c] # "waiting"
    <3>1. call' = call
      BY <1>2 DEF PerformRestart
    <3>2. CASE worker' = worker
      BY <1>0, <2>2, <3>1, <3>2
      DEF WorkerFollows, workerVars, runtimeVars, Quiet, NoJob, Emptied, RuntimeTypes
    <3>3. CASE worker' # worker
      BY <1>0, <2>2, <3>1, <3>3 DEF WorkerFollows, Quiet, NoJob, Emptied, NoUpload, RuntimeTypes
    <3> QED  BY <3>2, <3>3
  <2>4. lifecycle' \in {"running", "closed", "failed"}
        /\ (lifecycle' = "running" => lifecycle = "restarting")
    BY <1>2, <2>1 DEF PerformRestart, Continues
  <2>5. FlowTypes' /\ BridgeTypes' /\ Flows'
    BY <1>0, <2>4, BesideFlows DEF bridge, OpsInv, OperationsInv, BridgeTypes
  <2>6. lifecycle' = "running" => \A c \in Callers : pc'[c] \notin Calling \cup {"fonts"}
    <3>1. SUFFICES ASSUME lifecycle = "restarting",
                          NEW c \in Callers PROVE pc'[c] \notin Calling \cup {"fonts"}
      BY <2>4
    <3>2. PICK d \in Callers : pc[d] \in {"restarting", "cleaning"}
      BY <3>1 DEF OpsInv, OperationsInv, Flows, RestartIsAwaited
    <3>3. c = d \/ ~Active(c)
      BY <3>2, OthersRest DEF Active
    <3> QED  BY <1>0, <3>2, <3>3 DEF Active, Calling, flow
  <2>7. Serving' /\ UploadIsKnown' /\ LoadedIsCommitted'
    BY <2>3, <2>6
    DEF Serving, InOneForm, Gone, Serves, ServesFlow, FileJob, Quiet, NoJob, Emptied, UploadIsKnown,
       LoadedIsCommitted, Calling
  <2> QED  BY <2>3, <2>5, <2>7 DEF OperationsInv, Served, Serving
<1> QED  BY <1>1, <1>2 DEF ClientTurn, ClientStep

-----------------------------------------------------------------------------
(* The invariant of the operations, and what follows from it. *)

\* At the start nothing is under way.
LEMMA InitOperations == Init => OperationsInv
<1> SUFFICES ASSUME Init PROVE OperationsInv
  OBVIOUS
<1>1. FlowTypes /\ BridgeTypes /\ RuntimeTypes
  <2>1. <<0, 0, 0>> \in Nat \X Nat \X Nat
    OBVIOUS
  <2> QED  BY <2>1, KindsAssumption DEF Init, FlowTypes, BridgeTypes, RuntimeTypes, None
<1>2. \A c \in Callers : pc[c] = "off" /\ ~Active(c) /\ ~recovering[c]
  BY DEF Init, Active
<1>3. Flows
  <2>1. token["open"][1] = 0 /\ projectOperation = 0
    BY DEF Init
  <2>2. OlderToken
    BY <1>2, <2>1 DEF OlderToken
  <2> QED  BY <1>2, <2>2
           DEF Flows, Alone, RestartIsAwaited, RestartKeepsOpen, Recovers, Retired, SourceIsWhole,
          PartIsNext, Submitting, Init, ClientInit
<1>4. Served
  <2>1. \A c \in Callers : call[c] # "waiting"
    BY DEF Init, ClientInit
  <2>2. Quiet /\ ~upload.active /\ ~fileUpload.active /\ lifecycle = "running"
    BY DEF Init, Quiet, NoJob, NoUpload, ClientInit
  <2>3. Serves
    BY <1>2 DEF Serves, ServesFlow
  <2> QED  BY <2>1, <2>2, <2>3 DEF Served, InOneForm, Gone, FileJob, UploadIsKnown, Quiet, NoJob
<1>5. LoadedIsCommitted
  BY DEF Init, LoadedIsCommitted
<1> QED  BY <1>1, <1>3, <1>4, <1>5 DEF OperationsInv

\* Every step keeps the invariant.
LEMMA OperationsStep ==
  ASSUME ~Overlaps, OpsInv, ClientInv', [Next]_allVars
  PROVE  OperationsInv'
<1>1. CASE UNCHANGED allVars
  <2>1. UNCHANGED <<clientVars, bridge, flow, store, workerVars>>
    BY <1>1 DEF allVars
  <2>2. FlowTypes' /\ BridgeTypes' /\ Flows'
    BY <2>1, BesideFlows DEF bridge, clientVars, restartVars, OpsInv, OperationsInv, BridgeTypes
  <2>3. Serving' /\ RuntimeTypes'
    BY <2>1
    DEF Serving, OpsInv, OperationsInv, Served, InOneForm, Gone, Serves, ServesFlow, FileJob,
        RuntimeTypes, Quiet, NoJob, Emptied,
        Asked, Working, Answered, MethodOf, Done, flow, clientVars, workerVars, runtimeVars
  <2>4. UploadIsKnown' /\ LoadedIsCommitted'
    BY <2>1
    DEF OpsInv, OperationsInv, Served, UploadIsKnown, LoadedIsCommitted, Active, flow, store,
        workerVars, runtimeVars, bridge
  <2> QED  BY <2>2, <2>3, <2>4 DEF OperationsInv, Served, Serving
<1>2. CASE WorkerTurn
  BY <1>2, WorkerTurnStep
<1> QED  BY <1>1, <1>2, BeginOpenStep, PickCancelledStep, PickedStep, BeginRestartStep,
            BeginSourceStep,
            WorkerCrashesStep, DisposeBeginsStep, DisposeEndsStep, ClientTurnStep, TurnStep
         DEF Next

\* The invariant holds always.
LEMMA OperationsInvariant ==
  ASSUME ~Overlaps
  PROVE  Spec => []OpsInv
<1>1. Init => OpsInv
  BY ClientInitInv, InitOperations, PartsAssumption DEF Init, MessagesOK, OpsInv
<1>2. OpsInv /\ [Next]_allVars => OpsInv'
  BY EveryStepIsOfTheClient, ClientNextKeepsInv, NextKeepsMessages, OperationsStep DEF OpsInv
<1> QED  BY <1>1, <1>2, PTL DEF Spec

\* The runtime never holds parts of two projects, nor another project than the committed one
\* (retireCommittedProject, projectStep), whatever crashes, is refused or replaced.
THEOREM LoadedAlwaysCommitted ==
  ASSUME ~Overlaps
  PROVE  Spec => []LoadedIsCommitted
<1>1. OpsInv => LoadedIsCommitted
  BY DEF OpsInv, OperationsInv
<1> QED  BY <1>1, OperationsInvariant, PTL

\* An operation that has come to its end without an error has its project loaded in the worker
\* that lives (projectStep).
THEOREM SuccessAlwaysLoaded ==
  ASSUME ~Overlaps
  PROVE  Spec => []SuccessIsLoaded
<1>1. OpsInv => SuccessIsLoaded
  BY DEF OpsInv, OperationsInv, Served, Serves, ServesFlow, SuccessIsLoaded
<1> QED  BY <1>1, OperationsInvariant, PTL

\* No call of an upload is refused because of the parts somebody else has left
\* (cancelProjectManifest, cancelProjectFile).
THEOREM UploadAlwaysOwn ==
  ASSUME ~Overlaps
  PROVE  Spec => []UploadIsOwn
<1>1. OpsInv => UploadIsOwn
  <2> SUFFICES ASSUME OpsInv, inbox # <<>> PROVE UploadIsOwn
    BY DEF UploadIsOwn
  <2>1. lifecycle = "running" /\ ~fileUpload.active
    BY HeadIsAsked
  <2>2. PICK c \in Callers :
          pc[c] \in Calling /\ Head(inbox)[1] = c /\ Head(inbox)[2] = MethodOf(c)
    BY HeadIsAsked
  <2>3. ServesFlow(c) /\ PartIsNext
    BY <2>1 DEF OpsInv, OperationsInv, Served, Serves, Flows
  <2>4. MethodOf(c) = "begin" => ~upload.active
    BY <2>2, <2>3 DEF ServesFlow, MethodOf
  <2>5. MethodOf(c) = "append" => upload.active
        /\ upload.parts = SubSeq(Whole(target[c]), 1, part[c] - 1)
    <3>1. SUFFICES ASSUME pc[c] = "append"
                   PROVE  upload.active /\ upload.parts = SubSeq(Whole(target[c]), 1, part[c] - 1)
      BY <2>2 DEF MethodOf
    <3>2. PICK n \in Nat : n = part[c] - 1 /\ n <= Parts
      BY <2>3, <3>1, PartsAssumption DEF PartIsNext
    <3>3. upload = Has(target[c], n)
      BY <2>3, <3>1, <3>2 DEF ServesFlow
    <3>4. SubSeq(Whole(target[c]), 1, n) = Prefix(target[c], n)
      BY <3>2, PrefixLemma
    <3> QED  BY <3>2, <3>3, <3>4 DEF Has
  <2>6. MethodOf(c) = "finish" => upload.active /\ upload.parts = Whole(target[c])
    <3>1. MethodOf(c) = "finish" => upload = Has(target[c], Parts)
      BY <2>2, <2>3 DEF ServesFlow, MethodOf
    <3>2. Whole(target[c]) = Prefix(target[c], Parts)
      BY PrefixLemma, PartsAssumption
    <3> QED  BY <3>1, <3>2 DEF Has
  <2> QED  BY <2>1, <2>2, <2>4, <2>5, <2>6 DEF UploadIsOwn
<1> QED  BY <1>1, OperationsInvariant, PTL
=============================================================================
