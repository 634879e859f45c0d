------------------------- MODULE ProjectOperations -------------------------
(***************************************************************************)
(* The browser bridge's project operations (platform/browserBridgeBase.ts  *)
(* and browserBridge.ts) with the runtime worker they talk to              *)
(* (platform/runtime.worker.ts, projectFileWorker.ts and the uploads of    *)
(* crates/era-web-wasm).  Opening a project, restarting it in a new        *)
(* session and submitting its sources once more are long sequences of      *)
(* awaits; a token of the operation, session and worker they began with    *)
(* tells them after each await whether they are still the current ones.    *)
(*                                                                         *)
(* The callers of the worker are the three flows of the store: "open"      *)
(* (loadProject), "restart" (restartSession) and "source" (the answer to   *)
(* payload_required).  The pump's own calls are left out.                  *)
(***************************************************************************)
EXTENDS WorkerClient, Sequences

CONSTANTS
  Projects, NoProject,
  Packaged,     \* the projects that are one file; the others are directories
  Constrained,  \* values of memoryConstrained
  Overlaps,     \* whether the picker may return while a restart replaces the session
  Parts,        \* files of a directory, or chunks of a packaged project
  MaxOperations \* bound: project operations of a run

ASSUME FlowsAssumption == Callers = {"open", "restart", "source"}
ASSUME PartsAssumption == Parts \in Nat \ {0} /\ MaxOperations \in Nat
ASSUME KindsAssumption ==
  NoProject \notin Projects /\ Packaged \subseteq Projects /\ Constrained \subseteq BOOLEAN /\ Overlaps \in BOOLEAN

NoUpload == [active |-> FALSE, parts |-> <<>>]

VARIABLES
  constrained,       \* memoryConstrained
  projectOperation,  \* as in the code
  sessionGeneration, \* as in the code
  project,           \* this.project, the committed one
  disposing,         \* dispose awaits the end of the exports
  pc,                \* what each flow awaits
  token,             \* its ProjectOperation: <<id, session, worker>>
  target,            \* the project it loads
  part,              \* the file it streams
  joined,            \* the restart operation it awaits
  recovering,        \* loadProject is in its error path
  ready,             \* store: runtimePump.ready
  projectOpen,       \* store: projectOpen
  \* The worker, from its construction to its end.
  inbox,             \* the calls posted to it
  outbox,            \* its answers
  runtime,           \* whether there is one
  job,               \* asynchronous handlers: "import" or "file", "none" otherwise
  captured,          \* the runtime a file is loaded into: the "current" one, a "freed" or a "lost" one
  upload,            \* the manifest upload: parts <<project, number>>
  fileUpload,        \* the project file upload
  loaded             \* the parts of the project the runtime has loaded

flow == <<pc, token, target, part, joined, recovering>>
store == <<ready, projectOpen>>
bridge == <<constrained, projectOperation, sessionGeneration, project, disposing>>
runtimeVars == <<runtime, job, captured, upload, fileUpload, loaded>>
workerVars == <<inbox, outbox, runtimeVars>>
allVars == <<clientVars, bridge, flow, store, workerVars>>

Whole(p) == [i \in 1..Parts |-> <<p, i>>]

\* Initially nothing is open, or one project is open and loaded.
Init ==
  /\ ClientInit
  /\ constrained \in Constrained
  /\ projectOperation = 0 /\ sessionGeneration = 0 /\ disposing = FALSE
  /\ project \in Projects \cup {NoProject}
  /\ pc = [c \in Callers |-> "off"] /\ token = [c \in Callers |-> <<0, 0, 0>>]
  /\ target = [c \in Callers |-> NoProject] /\ part = [c \in Callers |-> 0]
  /\ joined = [c \in Callers |-> None] /\ recovering = [c \in Callers |-> FALSE]
  /\ ready = TRUE /\ projectOpen = (project # NoProject)
  /\ inbox = <<>> /\ outbox = <<>> /\ runtime = TRUE
  /\ job = [c \in Callers |-> "none"] /\ captured = [c \in Callers |-> "current"]
  /\ upload = NoUpload /\ fileUpload = NoUpload
  /\ loaded = IF project = NoProject THEN <<>> ELSE Whole(project)

-----------------------------------------------------------------------------
(* The worker's side. *)

\* A terminated worker takes its runtime and all messages with it.
WorkerFollows ==
  IF worker' = worker THEN UNCHANGED workerVars
  ELSE /\ inbox' = <<>> /\ outbox' = <<>> /\ runtime' = FALSE
       /\ job' = [c \in Callers |-> "none"] /\ captured' = [c \in Callers |-> "current"]
       /\ upload' = NoUpload /\ fileUpload' = NoUpload /\ loaded' = <<>>

Answer(c, r) == outbox' = Append(outbox, <<c, r>>)
NewRuntime == upload' = NoUpload /\ fileUpload' = NoUpload /\ loaded' = <<>>

\* Files that are being loaded lose the runtime they began with.
Loses(how) ==
  captured' = [c \in Callers |->
                IF runtime /\ job[c] = "file" /\ captured[c] = "current" THEN how ELSE captured[c]]

\* create frees the previous runtime at once and then awaits the module.
HandleCreate(c) ==
  /\ runtime' = FALSE /\ job' = [job EXCEPT ![c] = "import"]
  /\ Loses("freed") /\ NewRuntime
  /\ UNCHANGED outbox

\* The module is there and the new runtime is noted, whatever has been noted meanwhile.
Imports(c) ==
  /\ job[c] = "import"
  /\ job' = [job EXCEPT ![c] = "none"]
  /\ \/ runtime' = TRUE /\ Loses("lost") /\ NewRuntime /\ Answer(c, "answered")
     \/ UNCHANGED <<runtime, captured, upload, fileUpload, loaded>> /\ Answer(c, "rejected")
  /\ UNCHANGED <<inbox, clientVars, bridge, flow, store>>

\* loadProject of a whole manifest or file, which may be refused.
HandleLoad(c) ==
  /\ \/ loaded' = Whole(target[c]) /\ Answer(c, "answered")
     \/ UNCHANGED loaded /\ Answer(c, "rejected")
  /\ UNCHANGED <<runtime, job, captured, upload, fileUpload>>

HandleBegin(c) ==
  /\ IF upload.active THEN UNCHANGED upload /\ Answer(c, "rejected")
     ELSE upload' = [active |-> TRUE, parts |-> <<>>] /\ Answer(c, "answered")
  /\ UNCHANGED <<runtime, job, captured, fileUpload, loaded>>

HandleAppend(c, i) ==
  /\ IF upload.active /\ Len(upload.parts) < Parts
     THEN upload' = [upload EXCEPT !.parts = Append(@, <<target[c], i>>)] /\ Answer(c, "answered")
     ELSE UNCHANGED upload /\ Answer(c, "rejected")
  /\ UNCHANGED <<runtime, job, captured, fileUpload, loaded>>

HandleFinish(c) ==
  /\ IF upload.active /\ Len(upload.parts) = Parts
     THEN /\ upload' = NoUpload
          /\ \/ loaded' = upload.parts /\ Answer(c, "answered")
             \/ UNCHANGED loaded /\ Answer(c, "rejected")
     ELSE UNCHANGED <<upload, loaded>> /\ Answer(c, "rejected")
  /\ UNCHANGED <<runtime, job, captured, fileUpload>>

HandleCancel(c) ==
  /\ upload' = NoUpload /\ Answer(c, "answered")
  /\ UNCHANGED <<runtime, job, captured, fileUpload, loaded>>

\* loadProjectFileInWorker up to its first await.
HandleFile(c) ==
  /\ IF fileUpload.active THEN UNCHANGED <<fileUpload, job, captured>> /\ Answer(c, "rejected")
     ELSE /\ fileUpload' = [active |-> TRUE, parts |-> <<>>]
          /\ job' = [job EXCEPT ![c] = "file"] /\ captured' = [captured EXCEPT ![c] = "current"]
          /\ UNCHANGED outbox
  /\ UNCHANGED <<runtime, upload, loaded>>

\* The next message; without a runtime all but create are refused.
Handles ==
  /\ inbox # <<>> /\ inbox' = Tail(inbox)
  /\ LET c == Head(inbox)[1]
         method == Head(inbox)[2]
     IN \/ method = "create" /\ HandleCreate(c)
        \/ method # "create" /\ ~runtime /\ Answer(c, "rejected") /\ UNCHANGED runtimeVars
        \/ /\ runtime
           /\ \/ method = "load" /\ HandleLoad(c)
              \/ method = "begin" /\ HandleBegin(c)
              \/ method = "append" /\ HandleAppend(c, Head(inbox)[3])
              \/ method = "finish" /\ HandleFinish(c)
              \/ method = "cancel" /\ HandleCancel(c)
              \/ method = "file" /\ HandleFile(c)
  /\ UNCHANGED <<clientVars, bridge, flow, store>>

FileEnds(c, r) == job' = [job EXCEPT ![c] = "none"] /\ Answer(c, r)

\* Mutant: the error leaves the upload active.
FileFailsOpen(c) == UNCHANGED <<fileUpload, loaded>> /\ FileEnds(c, "rejected")

\* A chunk cannot be read, or the project is refused.
FileFails(c) == fileUpload' = NoUpload /\ UNCHANGED loaded /\ FileEnds(c, "rejected")

\* A turn of the file's loop: a chunk, the end, or an error, which cancels the upload.
FileTurn(c) ==
  /\ job[c] = "file"
  /\ \/ captured[c] = "current" /\ Len(fileUpload.parts) < Parts
        /\ fileUpload' = [fileUpload EXCEPT
                            !.parts = Append(@, <<target[c], Len(fileUpload.parts) + 1>>)]
        /\ UNCHANGED <<job, outbox, loaded>>
     \/ captured[c] = "current" /\ Len(fileUpload.parts) = Parts
        /\ fileUpload' = NoUpload /\ loaded' = fileUpload.parts /\ FileEnds(c, "answered")
     \/ captured[c] = "current" /\ FileFails(c)
     \/ captured[c] = "freed" /\ UNCHANGED <<fileUpload, loaded>> /\ FileEnds(c, "rejected")
     \/ captured[c] = "lost" /\ UNCHANGED <<fileUpload, loaded>>
        /\ \E r \in {"answered", "rejected"} : FileEnds(c, r)
  /\ UNCHANGED <<inbox, runtime, captured, upload, clientVars, bridge, flow, store>>

Delivers ==
  /\ outbox # <<>> /\ outbox' = Tail(outbox)
  /\ Settle(Head(outbox)[1], Head(outbox)[2])
  /\ UNCHANGED <<inbox, runtimeVars, bridge, flow, store>>

-----------------------------------------------------------------------------
(* Pieces of the flows. *)

Current(c) == token[c] = <<projectOperation, sessionGeneration, generation>>

\* The flow's next call, in the turn it takes the outcome of the last one.
Posts(c, method) ==
  /\ Request(c)
  /\ inbox' = IF lifecycle = "running" THEN Append(inbox, <<c, method, part'[c]>>) ELSE inbox
  /\ UNCHANGED <<outbox, runtimeVars>>

Stays == UNCHANGED <<clientVars, workerVars>>

Moves(c, to) == pc' = [pc EXCEPT ![c] = to]
KeepsFlow == UNCHANGED <<token, target, part, joined, recovering>>

\* beginProjectOperation
Begins(c) ==
  /\ projectOperation' = projectOperation + 1
  /\ token' = [token EXCEPT ![c] = <<projectOperation', sessionGeneration, generation>>]

Ends(c) ==
  /\ Moves(c, "off")
  /\ target' = [target EXCEPT ![c] = NoProject] /\ recovering' = [recovering EXCEPT ![c] = FALSE]
  /\ token' = [token EXCEPT ![c] = <<0, 0, 0>>]
  /\ part' = [part EXCEPT ![c] = 0] /\ joined' = [joined EXCEPT ![c] = None]

\* The submission of the sources, which locks the pump.
Submitting == {"reading", "load", "file", "begin", "append", "finish", "cancel", "fonts"}
Replacing == {"waiting", "restarting", "creating", "cleaning"}
Locked == \E c \in {"open", "restart"} : pc[c] \in Submitting \cup Replacing

\* The error leaves the bridge.  loadProject builds a new session if it had locked the pump for
\* the submission; a session it has replaced holds no project.
Fails(c) ==
  /\ IF c = "open" /\ pc[c] \in Submitting
     THEN /\ Moves(c, "waiting") /\ recovering' = [recovering EXCEPT ![c] = TRUE]
          /\ UNCHANGED <<token, target, part, joined>>
     ELSE Ends(c)
  /\ projectOpen' = (projectOpen /\ ~(c = "open" /\ pc[c] # "picking"))
  /\ UNCHANGED ready

-----------------------------------------------------------------------------
(* A new session: replaceRuntimeSession, prepareSessionReplacement and createSession. *)

\* prepareSessionReplacement; a closed client rejects at once.
Prepares(c, to) ==
  /\ sessionGeneration' = sessionGeneration + 1
  /\ Restart /\ WorkerFollows
  /\ joined' = [joined EXCEPT ![c] = restartOperation']
  /\ Moves(c, to)
  /\ ready' = FALSE
  /\ UNCHANGED <<token, target, part, recovering, constrained, projectOperation, project, disposing>>

\* The pump is idle: no batch handler is in the middle of submitting the sources.
ReplaceSession(c) ==
  /\ pc[c] = "waiting" /\ pc["source"] = "off"
  /\ \/ lifecycle # "closed" /\ Prepares(c, "restarting") /\ UNCHANGED projectOpen
     \/ lifecycle = "closed" /\ Fails(c) /\ Stays /\ UNCHANGED bridge

CreatesSession(c) ==
  /\ sessionGeneration' = sessionGeneration + 1
  /\ KeepsFlow /\ Posts(c, "create") /\ Moves(c, "creating")
  /\ UNCHANGED <<constrained, projectOperation, project, disposing, store>>

\* The catch block replaces the worker once more, so that nothing half made is left.
Cleans(c) ==
  \/ lifecycle # "closed" /\ Prepares(c, "cleaning") /\ UNCHANGED projectOpen
  \/ lifecycle = "closed" /\ Fails(c) /\ Stays /\ UNCHANGED bridge

Restarted(c) ==
  /\ pc[c] = "restarting"
  /\ \/ operation[joined[c]] = "resolved" /\ CreatesSession(c)
     \/ operation[joined[c]] = "rejected" /\ Cleans(c)

Cleaned(c) ==
  /\ pc[c] = "cleaning" /\ operation[joined[c]] \in {"resolved", "rejected"}
  /\ Fails(c) /\ Stays /\ UNCHANGED bridge

-----------------------------------------------------------------------------
(* The flows. *)

\* openProject and openProjectFile up to the picker.  canOpenProject: nothing else is being loaded.
BeginOpen ==
  /\ \A c \in Callers : pc[c] = "off"
  /\ projectOperation < MaxOperations
  /\ Begins("open") /\ Moves("open", "picking")
  /\ Stays /\ UNCHANGED <<constrained, sessionGeneration, project, disposing, target, part, joined,
                          recovering, store>>

PickCancelled ==
  /\ pc["open"] = "picking"
  /\ Ends("open")
  /\ Stays /\ UNCHANGED <<bridge, store>>

\* Mutant: the committed project stays.
KeepsProject == UNCHANGED project

\* retireCommittedProject
Retires == project' = NoProject

\* The picker returns.  The committed project is retired and the selection prepared: a session
\* that holds a project is replaced, one that does not is used, and made if there is none.
Picked(p) ==
  /\ pc["open"] = "picking" /\ (pc["restart"] \in Replacing => Overlaps)
  /\ IF ~Current("open") THEN Fails("open") /\ Stays /\ UNCHANGED bridge
     ELSE /\ Retires
          /\ target' = [target EXCEPT !["open"] = p]
          /\ UNCHANGED <<token, part, joined, recovering, constrained, projectOperation, disposing, store>>
          /\ \/ projectOpen /\ Moves("open", "waiting") /\ Stays /\ UNCHANGED sessionGeneration
             \/ ~projectOpen /\ ready /\ Moves("open", "reading") /\ Stays /\ UNCHANGED sessionGeneration
             \/ ~projectOpen /\ ~ready /\ Moves("open", "creating")
                /\ sessionGeneration' = sessionGeneration + 1 /\ Posts("open", "create")

\* restartSession
BeginRestart ==
  /\ projectOpen /\ pc["restart"] = "off" /\ pc["source"] = "off" /\ ~Locked
  /\ projectOperation < MaxOperations
  /\ Moves("restart", "waiting")
  /\ Stays /\ KeepsFlow /\ UNCHANGED <<bridge, store>>

\* submitProjectSource, awaited by the handler of payload_required: the runtime has the project's
\* cache and wants its sources.  A streamed manifest has no cache.
BeginSource ==
  /\ pc["source"] = "off" /\ ready /\ ~Locked /\ project # NoProject /\ loaded # <<>>
  /\ constrained => project \in Packaged
  /\ projectOperation < MaxOperations
  /\ Begins("source") /\ Moves("source", "reading")
  /\ target' = [target EXCEPT !["source"] = project]
  /\ Stays /\ UNCHANGED <<constrained, sessionGeneration, project, disposing, part, joined, recovering, store>>

\* The session is created; only the operation itself may adopt it.
Adopts(c) ==
  \/ /\ c = "open" /\ ~recovering[c] /\ token[c][1] = projectOperation
     /\ token' = [token EXCEPT ![c] = <<projectOperation, sessionGeneration, generation>>]
     /\ Moves(c, "reading") /\ UNCHANGED <<target, part, joined, recovering, bridge, projectOpen>>
  \/ /\ c = "open" /\ ~recovering[c] /\ token[c][1] # projectOperation
     /\ Moves(c, "waiting") /\ recovering' = [recovering EXCEPT ![c] = TRUE] /\ projectOpen' = FALSE
     /\ UNCHANGED <<token, target, part, joined, bridge>>
  \/ c = "open" /\ recovering[c] /\ Ends(c) /\ UNCHANGED <<bridge, projectOpen>>
  \/ /\ c = "restart" /\ project = NoProject /\ projectOperation' = projectOperation + 1 /\ Ends(c)
     /\ UNCHANGED <<constrained, sessionGeneration, project, disposing, projectOpen>>
  \/ /\ c = "restart" /\ project # NoProject /\ Begins(c) /\ Moves(c, "reading")
     /\ target' = [target EXCEPT ![c] = project]
     /\ UNCHANGED <<part, joined, recovering, constrained, sessionGeneration, project, disposing, projectOpen>>

Created(c) ==
  /\ pc[c] = "creating"
  /\ \/ call[c] = "answered" /\ ready' = TRUE /\ Adopts(c) /\ Stays
     \/ call[c] = "rejected" /\ joined[c] # None /\ Cleans(c)
     \/ call[c] = "rejected" /\ joined[c] = None /\ Fails(c) /\ Stays /\ UNCHANGED bridge

-----------------------------------------------------------------------------
(* The submission. *)

\* How the project reaches the runtime: in one call, or part by part on a constrained host.
FirstCall(p) == IF ~constrained THEN "load" ELSE IF p \in Packaged THEN "file" ELSE "begin"

Throws(c) == Fails(c) /\ Stays /\ UNCHANGED bridge
PostsNext(c, method, i) ==
  /\ part' = [part EXCEPT ![c] = i]
  /\ Posts(c, method) /\ Moves(c, method)
  /\ UNCHANGED <<token, target, joined, recovering, bridge, store>>

\* The files are read, the configuration resolved, the cache looked for.
Reads(c) ==
  /\ pc[c] = "reading"
  /\ Throws(c) \/ (Current(c) /\ PostsNext(c, FirstCall(target[c]), 0))

\* The runtime has the project: an open commits it and loads its fonts.
Submitted(c) ==
  /\ IF c = "open" THEN project' = target[c] ELSE UNCHANGED project
  /\ Moves(c, "fonts")
  /\ KeepsFlow /\ Stays
  /\ UNCHANGED <<constrained, projectOperation, sessionGeneration, disposing, store>>

\* The catch block of a streamed manifest cancels the upload, if it is its own.
Cancels(c) ==
  \/ Current(c) /\ PostsNext(c, "cancel", 0)
  \/ ~Current(c) /\ Throws(c)

Returns(c) ==
  /\ pc[c] \in {"load", "file", "begin", "append", "finish", "cancel"} /\ call[c] # "waiting"
  /\ LET streams == pc[c] \in {"begin", "append", "finish"}
         fine == call[c] = "answered" /\ Current(c)
     IN \/ pc[c] = "cancel" /\ Throws(c)
        \/ ~fine /\ streams /\ Cancels(c)
        \/ ~fine /\ pc[c] \in {"load", "file"} /\ Throws(c)
        \/ fine /\ pc[c] \in {"begin", "append"} /\ part[c] < Parts /\ PostsNext(c, "append", part[c] + 1)
        \/ fine /\ pc[c] = "append" /\ part[c] = Parts /\ PostsNext(c, "finish", Parts)
        \/ fine /\ pc[c] \in {"load", "file", "finish"} /\ Submitted(c)

FontsLoaded(c) ==
  /\ pc[c] = "fonts"
  /\ \/ /\ Current(c) \/ c = "source"
        /\ Ends(c) /\ projectOpen' = (projectOpen \/ c = "open")
        /\ Stays /\ UNCHANGED <<ready, bridge>>
     \/ ~Current(c) /\ c # "source" /\ Throws(c)

-----------------------------------------------------------------------------
(* The end of a worker, and of the page. *)

WorkerCrashes ==
  /\ Crash /\ WorkerFollows
  /\ UNCHANGED <<bridge, flow, store>>

DisposeBegins ==
  /\ lifecycle # "closed" /\ ~disposing
  /\ disposing' = TRUE /\ projectOperation' = projectOperation + 1
  /\ Stays /\ UNCHANGED <<constrained, sessionGeneration, project, flow, store>>

DisposeEnds ==
  /\ disposing /\ disposing' = FALSE
  /\ projectOperation' = projectOperation + 1 /\ project' = NoProject
  /\ Close /\ WorkerFollows
  /\ UNCHANGED <<constrained, sessionGeneration, flow, store>>

ClientTurn(k) == ClientStep(k) /\ WorkerFollows /\ UNCHANGED <<bridge, flow, store>>

Turn(c) ==
  ReplaceSession(c) \/ Restarted(c) \/ Created(c) \/ Cleaned(c) \/ Reads(c) \/ Returns(c) \/ FontsLoaded(c)

WorkerTurn == Handles \/ Delivers \/ \E c \in Callers : Imports(c) \/ FileTurn(c)

Next ==
  \/ BeginOpen \/ PickCancelled \/ BeginRestart \/ BeginSource
  \/ \E p \in Projects : Picked(p)
  \/ WorkerCrashes \/ DisposeBegins \/ DisposeEnds
  \/ WorkerTurn
  \/ \E k \in Restarts : ClientTurn(k)
  \/ \E c \in Callers : Turn(c)

\* The page's and the worker's event loops go on; nobody need pick, crash or dispose.
Fairness ==
  /\ WF_allVars(WorkerTurn)
  /\ WF_allVars(\E k \in Restarts : ClientTurn(k))
  /\ WF_allVars(\E c \in Callers : Turn(c))

Spec == Init /\ [][Next]_allVars /\ Fairness

-----------------------------------------------------------------------------
(* Properties. *)

\* The runtime never holds parts of two projects, nor a project other than the committed one:
\* not when an open replaces a session, not when a file was being loaded into the old one
\* (retireCommittedProject before any load, one worker for each session).
LoadedIsCommitted ==
  loaded # <<>> =>
    \E p \in Projects : loaded = Whole(p) /\ (project # NoProject => project = p)

\* An operation that returns without an error has its project loaded in the runtime that lives,
\* whatever crashed, was refused or was replaced on the way (projectStep).
SuccessIsLoaded ==
  \A c \in Callers :
    pc[c] = "fonts" /\ Current(c) /\ lifecycle = "running" => loaded = Whole(target[c])

\* A current operation is never refused because of an upload somebody else has left behind: its
\* begin finds none, and its parts find its own (cancelProjectManifest, cancelProjectFile).
UploadIsOwn ==
  inbox # <<>> /\ runtime =>
    LET c == Head(inbox)[1]
        method == Head(inbox)[2]
    IN Current(c) =>
         /\ method = "begin" => ~upload.active
         /\ method = "file" => ~fileUpload.active
         /\ method = "append" => upload.active /\ upload.parts = SubSeq(Whole(target[c]), 1, part[c] - 1)
         /\ method = "finish" => upload.active /\ upload.parts = Whole(target[c])

\* Every operation ends, with a project or an error, within the bound of the restarts.
OperationsEnd ==
  \A c \in Callers : pc[c] \notin {"off", "picking"} ~> pc[c] \in {"off", "picking"} \/ restarts = MaxRestarts
=============================================================================
