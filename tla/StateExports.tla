---------------------------- MODULE StateExports ----------------------------
(***************************************************************************)
(* The exports of the store: one slot, exportState, shared by the download *)
(* of a state, the compiled cache, the full project file and the three     *)
(* stages of a diagnosis (runtimeStoreActions4.ts, runtimeExportTransfer.ts,*)
(* runtimeCompiledCache.ts, and command_rejected of runtimeStoreActions2).  *)
(*                                                                         *)
(* An export asks the runtime, which announces a transfer and hands over   *)
(* one chunk per request; the chunks go to a file of the host.  An export  *)
(* that ends hands the slot to a diagnosis that waits for it.  Answers of  *)
(* an export that has lost the slot still arrive.                          *)
(*                                                                         *)
(* exportProjectFile is guarded by a flag it sets only after its awaits,   *)
(* so its calls may overlap.                                               *)
(*                                                                         *)
(* The id of a request is known before its answer is handled, as in the    *)
(* browser.  The staging and import of the full manifest, before a project *)
(* is asked for, is one step, and its failure another.                     *)
(***************************************************************************)
EXTENDS Naturals, Sequences, FiniteSets

CONSTANTS
  Games,      \* sets of what the player and the timer start: "download", "cache", "project",
              \* "diagnosis", and "settings", an update of the configuration, which renews the cache;
              \* "building" if the runtime has the cache still to build when it is asked for it
  MaxStarts,  \* bound: how often they do
  Chunks      \* chunks of a transfer

ASSUME GamesAssumption ==
  Games \subseteq SUBSET {"download", "cache", "project", "diagnosis", "settings", "building"}
ASSUME SizesAssumption == MaxStarts \in Nat /\ Chunks \in Nat \ {0}

DiagnosisKinds == {"replay", "snapshot", "archive"}
FullProject == {"project", "archive"}

VARIABLES
  ex,         \* the export in the slot, and what the runtime does for exports, see Init
  inbound,    \* messages of the runtime that no batch has delivered yet
  prepared,   \* what the runtime still prepares: "nothing", "project", "cache", or "built"
  pumping,    \* a pump is scheduled or running; a fault ends it, a submission resumes it
  handler,    \* what the batch handler awaits, for which export
  diagnosis,  \* runtimeDiagnosis: "none", "active", or "failing" in failDiagnosisExport
  failing,    \* the stage that failed
  project,    \* exportProjectFile and finishProjectFileExport, see Init
  resume,     \* resumeCacheAfterExport
  crossed,    \* history: exportProjectFile was called while another call had not set its flag
  timer,      \* the timer of the compiled cache
  caching,    \* writes of the compiled cache: [for, chunk, at, writer]
  sink,       \* open files by kind: their writer and the chunks written
  saved,      \* the last file published, and the export reported as saved with it
  starts,
  kinds,      \* what is started in this game
  lost        \* history: the batch handler threw while a stage of the diagnosis held the slot

runtimeVars == <<inbound, prepared>>
hostVars == <<caching, sink, saved>>
projectVars == <<project, resume, crossed>>
diagnosisVars == <<diagnosis, failing>>
gameVars == <<starts, kinds, lost>>
vars == <<ex, runtimeVars, pumping, handler, diagnosisVars, projectVars, timer, hostVars, gameVars>>

None == <<"none", 0>>     \* an export: its kind and a number
Idle == [at |-> "idle", for |-> None, chunk |-> 0, writer |-> 0]
NoFailing == [for |-> None, known |-> FALSE]
NoFile == [writer |-> 0, data |-> <<>>]
Files == {"download", "cache", "project"}

Init ==
  /\ ex = [slot |-> None,   \* exportState
           phase |-> "none", \* of the export: "staging", "asked", "retry", "transfer", or "left"
           got |-> 0,        \* received, in chunks
           asked |-> {},     \* requests the runtime works on
           wants |-> {}]     \* chunk requests: <<export, chunk>>
  /\ inbound = <<>> /\ prepared = "nothing" /\ pumping = TRUE /\ handler = Idle
  /\ diagnosis = "none" /\ failing = NoFailing
  /\ project = [calls |-> {},        \* calls before begin(): [n, at, victim]
                exporting |-> FALSE, \* projectFileExporting
                ends |-> 0]          \* calls of finishProjectFileExport that have not ended
  /\ resume = FALSE /\ crossed = FALSE
  /\ kinds \in Games /\ timer = ("cache" \in kinds)
  /\ caching = {} /\ sink = [f \in Files |-> NoFile] /\ saved = [data |-> <<>>, told |-> None]
  /\ starts = 0 /\ lost = FALSE

-----------------------------------------------------------------------------
(* The slot. *)

Kind(e) == e[1]
Of(K, E) == {e \in E : Kind(e) \in K}

Free(x) == [x EXCEPT !.slot = None, !.phase = "none", !.got = 0]

\* A new export is told apart from every other one that something still refers to.
Referenced(x) ==
  {x.slot, handler.for, failing.for} \cup {c.victim : c \in project.calls}
  \cup x.asked \cup {w[1] : w \in x.wants}
  \cup {inbound[i].for : i \in DOMAIN inbound} \cup {w.for : w \in caching}
  \cup UNION {{sink[f].data[i] : i \in DOMAIN sink[f].data} : f \in Files}

Claim(x, k) ==
  LET n == CHOOSE n \in 1..Cardinality(Referenced(x)) + 1 : <<k, n>> \notin Referenced(x) IN
  [Free(x) EXCEPT !.slot = <<k, n>>]

Ask(x) == [x EXCEPT !.asked = @ \cup {x.slot}, !.phase = "asked"]
Begin(x, k) == Ask(Claim(x, k))
Stage(x, k) == [Claim(x, k) EXCEPT !.phase = "staging"]

\* requestChunk: for the export in the slot, if its descriptor is known.
Request(x) ==
  IF x.phase = "transfer" THEN [x EXCEPT !.wants = @ \cup {<<x.slot, x.got>>}] ELSE x

\* state_export_cancel and state_transfer_cancel, of exports of some kinds or of one export.
Withdraw(x, K, E) ==
  [x EXCEPT !.asked = @ \ (Of(K, @) \cup E),
            !.wants = {w \in @ : Kind(w[1]) \notin K /\ w[1] \notin E}]

\* startDiagnosisStateExport: it takes the slot whoever holds it.
StartReplay(x) == IF diagnosis = "active" THEN Begin(x, "replay") ELSE x

\* Most callers start the diagnosis only if the slot is free.
ResumeReplay(x) == IF x.slot = None THEN StartReplay(x) ELSE x

HoldsSlot(e) == ex.slot = e
Wakes == pumping' = TRUE                              \* a submission schedules a pump
Resumes == pumping' = (pumping \/ ex'.asked # ex.asked \/ ex'.wants # ex.wants)
NewWriter ==
  CHOOSE w \in 1..Cardinality(caching) + 2 : w # handler.writer /\ \A c \in caching : c.writer # w
Open(f, w, data) == [sink EXCEPT ![f] = [writer |-> w, data |-> data]]
Close(f) == [sink EXCEPT ![f] = NoFile]

-----------------------------------------------------------------------------
(* What the player and the timer start. *)

Starting(k) ==
  k \in kinds /\ starts < MaxStarts /\ starts' = starts + 1 /\ UNCHANGED <<kinds, lost>>

BeginsDownload ==
  /\ Starting("download") /\ diagnosis = "none" /\ HoldsSlot(None)
  /\ ex' = Begin(ex, "download") /\ Wakes
  /\ UNCHANGED <<runtimeVars, handler, diagnosisVars, projectVars, timer, hostVars>>

\* exportDiagnosis: it waits for the export that holds the slot.
BeginsDiagnosis ==
  /\ Starting("diagnosis") /\ diagnosis = "none"
  /\ diagnosis' = "active"
  /\ ex' = IF HoldsSlot(None) THEN Begin(ex, "replay") ELSE ex
  /\ pumping' = (pumping \/ HoldsSlot(None))
  /\ UNCHANGED <<runtimeVars, handler, failing, projectVars, timer, hostVars>>

\* The timer of the compiled cache.
BeginsCache ==
  /\ timer /\ timer' = FALSE
  /\ ex' = IF HoldsSlot(None) THEN Begin(ex, "cache") ELSE ex
  /\ pumping' = (pumping \/ HoldsSlot(None))
  /\ UNCHANGED <<runtimeVars, handler, diagnosisVars, projectVars, hostVars, gameVars>>

-----------------------------------------------------------------------------
(* The runtime, which is external. *)

Message(type, e, n) == [type |-> type, for |-> e, chunk |-> n]

\* It announces the transfer, cannot export the state, refuses, or still prepares what is asked;
\* bound: the last at most once in a game.
Answers(e, type) ==
  /\ e \in ex.asked
  /\ type = "preparing" =>
       /\ prepared = "nothing"
       /\ Kind(e) \in FullProject \/ (Kind(e) = "cache" /\ "building" \in kinds)
  /\ prepared' = IF type # "preparing" THEN prepared
                 ELSE IF Kind(e) = "cache" THEN "cache" ELSE "project"
  /\ ex' = [ex EXCEPT !.asked = @ \ {e}]
  /\ inbound' = Append(inbound, Message(type, e, 0))
  /\ UNCHANGED <<pumping, handler, diagnosisVars, projectVars, timer, hostVars, gameVars>>

\* It has built the compiled cache, or could not.
Builds(type) ==
  /\ prepared = "cache" /\ prepared' = "built"
  /\ inbound' = Append(inbound, Message(type, None, 0))
  /\ UNCHANGED <<ex, pumping, handler, diagnosisVars, projectVars, timer, hostVars, gameVars>>

HandsOver(w) ==
  /\ ex' = [ex EXCEPT !.wants = @ \ {w}]
  /\ inbound' = Append(inbound, Message("chunk", w[1], w[2]))
  /\ UNCHANGED <<prepared, pumping, handler, diagnosisVars, projectVars, timer, hostVars, gameVars>>

-----------------------------------------------------------------------------
(* How an export fails. *)

\* A throw in the batch handler: the rest of the batch is lost, and the pump goes on only if the
\* handler has submitted something.
Faults(rest, submitted) ==
  /\ submitted \in BOOLEAN /\ pumping' = submitted /\ handler' = Idle
  /\ \E n \in 0..Len(rest) : inbound' = SubSeq(rest, n + 1, Len(rest))

\* failDiagnosisExport, up to its awaits.
FailsDiagnosis(x) ==
  /\ ex' = Free(x) /\ diagnosis' = "failing"
  /\ failing' = [for |-> x.slot, known |-> x.phase \in {"asked", "transfer"}]

\* Its end, finishDiagnosis: it clears the slot again.
DiagnosisFails ==
  /\ diagnosis = "failing" /\ diagnosis' = "none" /\ failing' = NoFailing
  /\ IF Kind(failing.for) = "archive"
     THEN ex' = Free(Withdraw(ex, FullProject, {})) /\ sink' = Close("project")
     ELSE /\ ex' = Free(Withdraw(ex, {}, IF failing.known THEN {failing.for} ELSE {}))
          /\ UNCHANGED sink
  /\ pumping' = (pumping \/ Kind(failing.for) = "archive" \/ failing.known)
  /\ handler' = IF handler.at = "failing" THEN Idle ELSE handler
  /\ UNCHANGED <<runtimeVars, projectVars, timer, caching, saved, gameVars>>

\* finishProjectFileExport of an export that failed or was cancelled, up to its awaits.
FailsProject(x) == ex' = Free(x) /\ project' = [project EXCEPT !.ends = @ + 1]

\* The handler awaits finishProjectFileExport.
AwaitsEnd == handler.at \in {"project failed", "project rejected", "project write"}

\* Its end, awaited by the handler or not.  After a rejection the handler starts the waiting
\* diagnosis once more.
ProjectFails ==
  \E own \in BOOLEAN :
    /\ own => AwaitsEnd
    /\ project.ends > IF ~own /\ AwaitsEnd THEN 1 ELSE 0
    /\ project' = [project EXCEPT !.exporting = FALSE, !.ends = @ - 1]
    /\ LET freed == ResumeReplay(Withdraw(ex, FullProject, {})) IN
       ex' = IF own /\ handler.at = "project rejected" THEN StartReplay(freed) ELSE freed
    /\ sink' = Close("project")
    /\ timer' = (timer \/ resume) /\ resume' = FALSE
    /\ IF own /\ handler.at = "project write" THEN Faults(inbound, TRUE)
       ELSE /\ Wakes /\ UNCHANGED inbound
            /\ handler' = IF own THEN Idle ELSE handler
    /\ UNCHANGED <<prepared, diagnosisVars, crossed, caching, saved, gameVars>>

\* RuntimeCompiledCacheExportState.fail after its await, in the handler.
CacheFails ==
  /\ handler.at \in {"cache failed", "cache rejected"}
  /\ LET freed == ResumeReplay(ex) IN
     ex' = IF handler.at = "cache rejected" THEN StartReplay(freed) ELSE freed
  /\ sink' = Close("cache") /\ handler' = Idle
  /\ UNCHANGED <<runtimeVars, pumping, diagnosisVars, projectVars, timer, caching, saved, gameVars>>

\* The same behind the handler.
CacheDropped(w) ==
  /\ w.at = "failed" /\ caching' = caching \ {w}
  /\ sink' = Close("cache") /\ ex' = ResumeReplay(ex) /\ Resumes
  /\ UNCHANGED <<runtimeVars, handler, diagnosisVars, projectVars, timer, saved, gameVars>>

CacheWrite(e, at) ==
  [for |-> e, chunk |-> ex.got, at |-> at, writer |-> sink["cache"].writer]

\* Mutant of SendFails: a diagnosis whose request fails is dropped, not failed.
SendFailsQuietly(e) ==
  /\ Kind(e) \notin FullProject
  /\ ex' = IF HoldsSlot(e) THEN Free(Withdraw(ex, {}, {e})) ELSE Withdraw(ex, {}, {e})
  /\ UNCHANGED <<runtimeVars, pumping, handler, diagnosisVars, projectVars, timer, caching, sink,
                 saved, gameVars>>

\* A request is not taken.
SendFails(e) ==
  /\ LET unsent == [Withdraw(ex, {}, {e}) EXCEPT !.phase = "none"] IN
     \/ /\ ~HoldsSlot(e) /\ ex' = Withdraw(ex, {}, {e})
        /\ UNCHANGED <<inbound, pumping, handler, diagnosisVars, project, caching>>
     \/ /\ HoldsSlot(e) /\ Kind(e) \in DiagnosisKinds
        /\ FailsDiagnosis(unsent)
        /\ UNCHANGED <<inbound, pumping, handler, project, caching>>
     \/ /\ HoldsSlot(e) /\ Kind(e) = "project"
        /\ FailsProject(unsent)
        /\ UNCHANGED <<inbound, pumping, handler, diagnosisVars, caching>>
     \/ /\ HoldsSlot(e) /\ Kind(e) = "download" /\ ex' = Free(unsent)
        /\ UNCHANGED <<inbound, pumping, handler, diagnosisVars, project, caching>>
     \/ /\ HoldsSlot(e) /\ Kind(e) = "cache" /\ ex' = Free(unsent)
        /\ caching' = caching \cup {CacheWrite(e, "failed")}
        /\ UNCHANGED <<inbound, pumping, handler, diagnosisVars, project>>
     \/ \* finishFullManifestImport does not catch it: the batch is lost, the slot is not freed
        /\ Kind(e) \in FullProject /\ handler = Idle /\ pumping
        /\ ex' = IF HoldsSlot(e) THEN [unsent EXCEPT !.phase = "left"] ELSE Withdraw(ex, {}, {e})
        /\ \E submitted \in BOOLEAN : Faults(inbound, submitted)
        /\ UNCHANGED <<diagnosisVars, project, caching>>
  /\ UNCHANGED <<prepared, resume, crossed, timer, sink, saved, gameVars>>

-----------------------------------------------------------------------------
(* The messages of the runtime, handled one at a time. *)

Rest == Tail(inbound)
Expected(m) == HoldsSlot(m.for) /\ ex.phase = "asked"
Awaits(at, e) ==
  handler' = [at |-> at, for |-> e, chunk |-> ex.got,
              writer |-> IF Kind(e) \in Files THEN sink[Kind(e)].writer ELSE 0]

\* An answer or a chunk that does not belong to the export in the slot.
Mismatch ==
  \/ /\ Kind(ex.slot) \in DiagnosisKinds
     /\ FailsDiagnosis(ex) /\ Awaits("failing", ex.slot)
     /\ inbound' = Rest /\ UNCHANGED <<project, pumping>>
  \/ /\ Kind(ex.slot) \notin DiagnosisKinds
     /\ \E submitted \in BOOLEAN : Faults(Rest, submitted)
     /\ UNCHANGED <<ex, diagnosisVars, project>>

\* handleReady with a transfer; a diagnosis refuses one that is too large.
Ready(e) ==
  LET announced == [ex EXCEPT !.phase = "transfer"] IN
  \/ /\ Kind(e) = "download"
     /\ ex' = announced /\ Awaits("picker", e)
     /\ UNCHANGED <<diagnosisVars, project>>
  \/ /\ Kind(e) # "download"
     /\ ex' = Request(announced)
     /\ UNCHANGED <<handler, diagnosisVars, project>>
  \/ /\ Kind(e) \in DiagnosisKinds
     /\ FailsDiagnosis([ex EXCEPT !.phase = "none"]) /\ Awaits("failing", e)
     /\ UNCHANGED project

\* The export cannot be made: ineligible, or rejected.
Refused(e, type) ==
  \/ /\ Kind(e) \in DiagnosisKinds
     /\ FailsDiagnosis(IF type = "rejected" THEN ex ELSE [ex EXCEPT !.phase = "none"])
     /\ Awaits("failing", e)
     /\ UNCHANGED project
  \/ /\ Kind(e) = "project"
     /\ FailsProject(ex)
     /\ Awaits(IF type = "rejected" THEN "project rejected" ELSE "project failed", e)
     /\ UNCHANGED diagnosisVars
  \/ /\ Kind(e) = "cache"
     /\ ex' = Free(ex)
     /\ Awaits(IF type = "rejected" THEN "cache rejected" ELSE "cache failed", e)
     /\ UNCHANGED <<diagnosisVars, project>>
  \/ /\ Kind(e) = "download"
     /\ ex' = IF type = "rejected" THEN StartReplay(Free(ex)) ELSE Free(ex)
     /\ UNCHANGED <<handler, diagnosisVars, project>>

HandleReady(m) ==
  /\ m.type \in {"ready", "ineligible"}
  /\ \/ /\ HoldsSlot(None) /\ inbound' = Rest
        /\ UNCHANGED <<ex, pumping, handler, diagnosisVars, project>>
     \/ /\ ~HoldsSlot(None) /\ ~Expected(m) /\ Mismatch
     \/ /\ Expected(m) /\ inbound' = Rest /\ UNCHANGED pumping
        /\ IF m.type = "ready" THEN Ready(m.for) ELSE Refused(m.for, m.type)
  /\ UNCHANGED <<prepared, resume, crossed, timer, hostVars, gameVars>>

\* command_rejected: a project that is still prepared is asked for again after a while, a compiled
\* cache when the runtime says it is built.
HandleRejected(m) ==
  /\ m.type \in {"rejected", "preparing"} /\ inbound' = Rest
  /\ \/ /\ ~Expected(m)
        /\ UNCHANGED <<ex, handler, diagnosisVars, project>>
     \/ /\ Expected(m) /\ m.type = "preparing"
        /\ ex' = IF Kind(m.for) = "cache" THEN ex ELSE [ex EXCEPT !.phase = "retry"]
        /\ UNCHANGED <<handler, diagnosisVars, project>>
     \/ /\ Expected(m) /\ m.type = "rejected"
        /\ Refused(m.for, m.type)
  /\ UNCHANGED <<prepared, pumping, resume, crossed, timer, hostVars, gameVars>>

\* The diagnostics of the compiled cache: one that is not announced yet is asked for anew, so that
\* an answer to its first request no longer belongs to it, or it fails.
HandleBuilt(m) ==
  /\ m.type \in {"built", "unbuilt"} /\ inbound' = Rest
  /\ LET waits == Kind(ex.slot) = "cache" /\ ex.phase # "transfer" IN
     \/ /\ waits /\ m.type = "built" /\ ex' = Begin(ex, "cache") /\ UNCHANGED handler
     \/ /\ waits /\ m.type = "unbuilt" /\ ex' = Free(ex) /\ Awaits("cache failed", ex.slot)
     \/ /\ ~waits /\ UNCHANGED <<ex, handler>>
  /\ UNCHANGED <<prepared, pumping, diagnosisVars, projectVars, timer, hostVars, gameVars>>

\* scheduleFullProjectExportRetry.
Retries ==
  /\ ex.phase = "retry" /\ ex' = Ask(ex) /\ Wakes
  /\ UNCHANGED <<runtimeVars, handler, diagnosisVars, projectVars, timer, hostVars, gameVars>>

Complete == ex.got + 1 = Chunks

\* A chunk of a diagnosis: kept in memory; the last one is verified and the next stage starts.
DiagnosisChunk(e) ==
  LET received == [ex EXCEPT !.got = @ + 1] IN
  \/ /\ ~Complete /\ ex' = Request(received)
     /\ UNCHANGED <<handler, diagnosisVars>>
  \/ /\ Complete /\ Kind(e) = "replay" /\ ex' = Begin(received, "snapshot")
     /\ UNCHANGED <<handler, diagnosisVars>>
  \/ /\ Complete /\ Kind(e) = "snapshot" /\ ex' = Stage(received, "archive")
     /\ UNCHANGED <<handler, diagnosisVars>>
  \/ /\ Complete /\ Kind(e) = "archive" /\ ex' = received /\ Awaits("saving", e)
     /\ UNCHANGED diagnosisVars
  \/ /\ FailsDiagnosis(received) /\ Awaits("failing", e)

\* A chunk of another export is written to its file, by the handler or behind it.
WrittenChunk(e) ==
  /\ ex' = [ex EXCEPT !.got = @ + 1]
  /\ \/ /\ Kind(e) = "cache" /\ caching' = caching \cup {CacheWrite(e, "write")}
        /\ UNCHANGED handler
     \/ /\ Kind(e) # "cache" /\ Awaits("write", e) /\ UNCHANGED caching

HandleChunk(m) ==
  LET ours == HoldsSlot(m.for) /\ m.chunk = ex.got IN
  /\ m.type = "chunk"
  /\ \/ /\ ex.phase # "transfer" /\ inbound' = Rest
        /\ UNCHANGED <<ex, pumping, handler, diagnosisVars, project, caching>>
     \/ /\ ex.phase = "transfer" /\ ~ours /\ Mismatch
        /\ UNCHANGED caching
     \/ /\ ex.phase = "transfer" /\ ours /\ inbound' = Rest
        /\ IF Kind(m.for) \in DiagnosisKinds
           THEN DiagnosisChunk(m.for) /\ UNCHANGED caching
           ELSE WrittenChunk(m.for) /\ UNCHANGED diagnosisVars
        /\ UNCHANGED <<pumping, project>>
  /\ UNCHANGED <<prepared, resume, crossed, timer, sink, saved, gameVars>>

Handles ==
  /\ handler = Idle /\ pumping /\ inbound # <<>>
  /\ LET m == Head(inbound) IN
     HandleReady(m) \/ HandleRejected(m) \/ HandleBuilt(m) \/ HandleChunk(m)

-----------------------------------------------------------------------------
(* The files of the host. *)

\* cancelStateDownload, after which the handler empties the slot and throws.
Discarding(e) == sink' = Close("download") /\ Awaits("discarding", e)

Discards ==
  /\ handler.at = "discarding" /\ ex' = Free(ex)
  /\ \E submitted \in BOOLEAN : Faults(inbound, submitted)
  /\ UNCHANGED <<prepared, diagnosisVars, projectVars, timer, hostVars, gameVars>>

\* beginStateExport: the player picks a file, declines, or it cannot be opened.
Picks ==
  /\ handler.at = "picker"
  /\ \/ /\ sink' = Open("download", NewWriter, <<>>)
        /\ ex' = Request(ex) /\ handler' = Idle
        /\ UNCHANGED <<inbound, pumping>>
     \/ /\ ex' = Free(Withdraw(ex, {"download"}, {})) /\ handler' = Idle
        /\ UNCHANGED <<inbound, pumping, sink>>
     \/ /\ Discarding(handler.for) /\ UNCHANGED <<ex, inbound, pumping>>
  /\ UNCHANGED <<prepared, diagnosisVars, projectVars, timer, caching, saved, gameVars>>

\* The chunk has been written, if its writer is still the file's.  The last one of a project
\* publishes the file and ends the export, which hands over to the diagnosis that waits for it.
\* The last one of a download is verified first.
Writes ==
  LET e == handler.for
      f == Kind(e)
      own == sink[f].writer = handler.writer
      last == handler.chunk + 1 = Chunks
      data == Append(sink[f].data, e)
      written == IF own THEN Open(f, handler.writer, data) ELSE sink IN
  /\ handler.at = "write" /\ handler.writer # 0
  /\ \/ /\ last /\ f = "project"
        /\ sink' = IF own THEN Close(f) ELSE sink
        /\ saved' = [data |-> IF own THEN data ELSE <<>>, told |-> IF HoldsSlot(e) THEN e ELSE None]
        /\ \/ /\ ~HoldsSlot(e) /\ UNCHANGED <<ex, project, timer, resume>>
           \/ /\ HoldsSlot(e) /\ ex' = ResumeReplay(Free(ex))
              /\ project' = [project EXCEPT !.exporting = FALSE]
              /\ timer' = (timer \/ resume) /\ resume' = FALSE
        /\ handler' = Idle
     \/ /\ ~(last /\ f = "project") /\ ~HoldsSlot(e)
        /\ sink' = written /\ handler' = Idle
        /\ UNCHANGED <<ex, project, timer, resume, saved>>
     \/ /\ ~last /\ HoldsSlot(e)
        /\ sink' = written /\ ex' = Request(ex) /\ handler' = Idle
        /\ UNCHANGED <<project, timer, resume, saved>>
     \/ /\ last /\ f = "download" /\ HoldsSlot(e)
        /\ \/ sink' = written /\ Awaits("publish", e)
           \/ Discarding(e)
        /\ UNCHANGED <<ex, project, timer, resume, saved>>
  /\ UNCHANGED <<runtimeVars, pumping, diagnosisVars, crossed, caching, gameVars>>

\* The file of a download is published, and the export ends; or that fails, and it keeps the slot.
Publishes ==
  LET e == handler.for IN
  /\ handler.at = "publish"
  /\ \/ /\ sink' = Close("download") /\ handler' = Idle
        /\ saved' = [data |-> sink["download"].data, told |-> IF HoldsSlot(e) THEN e ELSE None]
        /\ ex' = IF HoldsSlot(e) THEN StartReplay(Free(ex)) ELSE ex
        /\ UNCHANGED <<inbound, pumping>>
     \/ /\ \E submitted \in BOOLEAN : Faults(inbound, submitted)
        /\ UNCHANGED <<ex, sink, saved>>
  /\ UNCHANGED <<prepared, diagnosisVars, projectVars, timer, caching, gameVars>>

\* The write fails.  If the export is still in the slot the handler throws; a download keeps the
\* slot.
WriteFails ==
  LET e == handler.for IN
  /\ handler.at = "write"
  /\ \/ /\ ~HoldsSlot(e) /\ handler' = Idle
        /\ UNCHANGED <<ex, inbound, pumping, project, sink>>
     \/ /\ HoldsSlot(e) /\ Kind(e) = "project"
        /\ FailsProject(ex) /\ Awaits("project write", e)
        /\ UNCHANGED <<inbound, pumping, sink>>
     \/ /\ HoldsSlot(e) /\ Kind(e) = "download"
        /\ sink' = Close("download")
        /\ \E submitted \in BOOLEAN : Faults(inbound, submitted)
        /\ UNCHANGED <<ex, project>>
  /\ UNCHANGED <<prepared, diagnosisVars, resume, crossed, timer, caching, saved, gameVars>>

\* The host has saved the archive of the diagnosis, or fails to.
Saves ==
  /\ handler.at = "saving"
  /\ \/ /\ ex' = Free(ex) /\ diagnosis' = "none" /\ handler' = Idle /\ UNCHANGED failing
     \/ /\ HoldsSlot(handler.for) /\ FailsDiagnosis(ex) /\ Awaits("failing", handler.for)
  /\ UNCHANGED <<runtimeVars, pumping, projectVars, timer, hostVars, gameVars>>

\* enqueueHostWrite and continue: a write of the compiled cache and what follows it.  The first
\* chunk opens the file anew, the last one closes the file that is open by then.
CacheWrites(w) ==
  LET e == w.for
      last == w.chunk + 1 = Chunks
      file == sink["cache"]
      writer == IF w.chunk = 0 THEN NewWriter ELSE file.writer
      data == IF w.chunk = 0 THEN <<e>>
              ELSE IF file.writer = w.writer THEN Append(file.data, e) ELSE file.data IN
  /\ w.at = "write"
  /\ \/ /\ w.chunk = 0 \/ (w.writer # 0 /\ (last => file.writer # 0))
        /\ sink' = IF last THEN Close("cache") ELSE Open("cache", writer, data)
        /\ saved' = IF last THEN [data |-> data, told |-> IF HoldsSlot(e) THEN e ELSE None]
                    ELSE saved
        /\ caching' = caching \ {w}
        /\ ex' = IF ~HoldsSlot(e) THEN ex ELSE IF last THEN StartReplay(Free(ex)) ELSE Request(ex)
     \/ /\ caching' = IF HoldsSlot(e) THEN (caching \ {w}) \cup {[w EXCEPT !.at = "failed"]}
                      ELSE caching \ {w}
        /\ ex' = IF HoldsSlot(e) THEN Free(ex) ELSE ex
        /\ UNCHANGED <<sink, saved>>
  /\ Resumes
  /\ UNCHANGED <<runtimeVars, handler, diagnosisVars, projectVars, timer, gameVars>>

-----------------------------------------------------------------------------
(* The full project file, and the cache that makes way for it. *)

\* The file is chosen and opened by the host, with or without a dialog.
OpensProject ==
  /\ Starting("project") /\ ~project.exporting /\ diagnosis = "none"
  /\ HoldsSlot(None) \/ Kind(ex.slot) = "cache"
  /\ LET n == CHOOSE n \in 0..Cardinality(project.calls) : \A c \in project.calls : c.n # n IN
     project' = [project EXCEPT !.calls = @ \cup {[n |-> n, at |-> "dialog", victim |-> None]}]
  /\ crossed' = (crossed \/ project.calls # {})
  /\ UNCHANGED <<ex, runtimeVars, pumping, handler, diagnosisVars, resume, timer, hostVars>>

Leaves(c) == project' = [project EXCEPT !.calls = @ \ {c}]
Goes(c, at, victim) ==
  project' = [project EXCEPT !.calls = (@ \ {c}) \cup {[c EXCEPT !.at = at, !.victim = victim]}]

Declines(c) ==
  /\ c.at = "dialog" /\ Leaves(c)
  /\ UNCHANGED <<ex, runtimeVars, pumping, handler, diagnosisVars, resume, crossed, timer,
                 hostVars, gameVars>>

\* The export takes the slot, whoever holds it by then, and stages its manifest.
TakesSlot(c) ==
  /\ project' = [project EXCEPT !.calls = @ \ {c}, !.exporting = TRUE]
  /\ ex' = Stage(ex, "project")

\* The player has chosen a file.  A cache in the slot is cancelled first.
Accepts(c) ==
  /\ c.at = "dialog"
  /\ \/ /\ Kind(ex.slot) = "cache"
        /\ Goes(c, "cancelling", ex.slot) /\ resume' = TRUE
        /\ ex' = Free(ex)
     \/ /\ Kind(ex.slot) # "cache" /\ TakesSlot(c) /\ UNCHANGED resume
  /\ sink' = Open("project", NewWriter, <<>>)
  /\ UNCHANGED <<runtimeVars, pumping, handler, diagnosisVars, crossed, timer, caching, saved,
                 gameVars>>

\* Mutant of Written: the cache is cancelled while its file is still written.
WrittenOrNot(e) == TRUE

\* RuntimeCompiledCacheExportState.cancel: wait for the write, tell the runtime, then the host.
Written(e) == \A w \in caching : w.for = e => w.at # "write"

WithdrawsCache(c) ==
  /\ c.at = "cancelling" /\ Written(c.victim)
  /\ \/ /\ Goes(c, "aborting", c.victim)
        /\ ex' = Withdraw(ex, {"cache"}, {}) /\ Wakes
     \/ /\ Goes(c, "failing", c.victim) /\ UNCHANGED <<ex, pumping>>
  /\ UNCHANGED <<runtimeVars, handler, diagnosisVars, resume, crossed, timer, hostVars, gameVars>>

\* The cancellation fails if the runtime could not be told or the host fails.
AbortsCache(c) ==
  /\ c.at \in {"aborting", "failing"} /\ sink' = Close("cache")
  /\ \/ c.at = "aborting" /\ TakesSlot(c)
     \/ Goes(c, "undoing", None) /\ UNCHANGED ex
  /\ UNCHANGED <<runtimeVars, pumping, handler, diagnosisVars, resume, crossed, timer, caching,
                 saved, gameVars>>

\* cancelProjectFileExport of the host after that: the flag is not set, the cache not resumed.
UndoesProject(c) ==
  /\ c.at = "undoing" /\ Leaves(c) /\ sink' = Close("project")
  /\ UNCHANGED <<ex, runtimeVars, pumping, handler, diagnosisVars, resume, crossed, timer, caching,
                 saved, gameVars>>

\* The manifest is staged and imported, and the project asked for; or that fails; or, where the
\* end of another export has cleared the flag, the export is left in the slot.
Stages ==
  /\ ex.phase = "staging"
  /\ \/ /\ Kind(ex.slot) = "project" => project.exporting
        /\ ex' = Ask(ex)
        /\ Wakes /\ UNCHANGED <<diagnosisVars, project>>
     \/ /\ Kind(ex.slot) = "project" /\ FailsProject(ex)
        /\ UNCHANGED <<pumping, diagnosisVars>>
     \/ /\ Kind(ex.slot) = "project" /\ ~project.exporting /\ ex' = [ex EXCEPT !.phase = "left"]
        /\ UNCHANGED <<pumping, diagnosisVars, project>>
     \/ /\ Kind(ex.slot) = "archive" /\ FailsDiagnosis(ex)
        /\ UNCHANGED <<pumping, project>>
  /\ UNCHANGED <<runtimeVars, handler, resume, crossed, timer, hostVars, gameVars>>

\* cancelProjectFileExport by the player.
CancelsProject ==
  /\ project.exporting /\ Kind(ex.slot) = "project"
  /\ FailsProject(ex)
  /\ UNCHANGED <<runtimeVars, pumping, handler, diagnosisVars, resume, crossed, timer, hostVars,
                 gameVars>>

\* An update of the configuration is committed: refreshCompiledCacheAfterConfigurationUpdate
\* cancels the cache; it starts a new one unless the runtime has no full manifest.
RenewsCache ==
  /\ Starting("settings") /\ handler = Idle /\ pumping
  /\ \/ /\ Kind(ex.slot) = "cache" /\ Awaits("renewing", ex.slot) /\ ex' = Free(ex)
        /\ UNCHANGED timer
     \/ /\ Kind(ex.slot) # "cache" /\ timer' \in {timer, TRUE}
        /\ UNCHANGED <<ex, handler>>
  /\ UNCHANGED <<runtimeVars, pumping, diagnosisVars, projectVars, hostVars>>

Renews ==
  /\ \/ /\ handler.at = "renewing" /\ Written(handler.for)
        /\ \/ Awaits("aborting", handler.for) /\ ex' = Withdraw(ex, {"cache"}, {})
           \/ Awaits("renewal failing", handler.for) /\ UNCHANGED ex
        /\ UNCHANGED <<inbound, pumping, timer, sink, lost>>
     \/ /\ handler.at = "aborting" /\ handler' = Idle
        /\ sink' = Close("cache") /\ timer' \in {timer, TRUE}
        /\ UNCHANGED <<ex, inbound, pumping, lost>>
     \/ /\ handler.at \in {"aborting", "renewal failing"}
        /\ sink' = Close("cache")
        /\ \E submitted \in BOOLEAN : Faults(inbound, submitted)
        /\ lost' = (lost \/ Kind(ex.slot) \in DiagnosisKinds)
        /\ UNCHANGED <<ex, timer>>
  /\ UNCHANGED <<prepared, diagnosisVars, projectVars, caching, saved, starts, kinds>>

-----------------------------------------------------------------------------
HostSteps ==
  \/ Picks \/ Discards \/ Writes \/ Publishes \/ WriteFails \/ Saves \/ Renews
  \/ \E w \in caching : CacheWrites(w) \/ CacheDropped(w)
  \/ DiagnosisFails \/ ProjectFails \/ CacheFails
  \/ \E c \in project.calls : WithdrawsCache(c) \/ AbortsCache(c) \/ UndoesProject(c)
  \/ Stages \/ Retries

RuntimeSteps ==
  \/ \E e \in ex.asked, t \in {"ready", "ineligible", "rejected", "preparing"} : Answers(e, t)
  \/ \E e \in ex.asked : SendFails(e)
  \/ \E w \in ex.wants : HandsOver(w)
  \/ \E t \in {"built", "unbuilt"} : Builds(t)

PlayerSteps ==
  \/ BeginsDownload \/ BeginsDiagnosis \/ OpensProject \/ CancelsProject \/ RenewsCache

Dialogs == \E c \in project.calls : Declines(c) \/ Accepts(c)

Next == Handles \/ HostSteps \/ RuntimeSteps \/ BeginsCache \/ Dialogs \/ PlayerSteps

\* Batches are handled, promises of the host settle, dialogs are answered, timers fire, and the
\* runtime answers every request.
Fairness ==
  /\ WF_vars(Handles) /\ WF_vars(HostSteps) /\ WF_vars(RuntimeSteps)
  /\ WF_vars(BeginsCache) /\ WF_vars(Dialogs)

Spec == Init /\ [][Next]_vars /\ Fairness

-----------------------------------------------------------------------------
\* Files: a file that is published holds one whole transfer, and an export is reported as saved
\* only with its own file, whatever was cancelled while it was written (writeProjectFileChunk,
\* enqueueHostWrite, writeStateDownload, finishExportTransfer).  Two calls of exportProjectFile
\* that overlap write one file, and an update of the configuration renews a cache while it is
\* written: there it does not hold.
SavedIsWhole ==
  LET Whole(e) == saved.data = [i \in 1..Chunks |-> e] IN
  "settings" \notin kinds /\ ~crossed =>
    /\ saved.data # <<>> => Whole(saved.data[1])
    /\ saved.told # None => Whole(saved.told)

\* Diagnosis: once one of its stages holds the slot it comes to an end, saved or failed, and the
\* game may go on, whatever other exports do; unless the batch handler throws meanwhile: because
\* the project asked for after the import of its manifest cannot be sent
\* (finishFullManifestImport), or a cache to be renewed not be cancelled.  A full project, which
\* takes the slot from whoever holds it, is apart.
StagesEnd ==
  ("project" \notin kinds /\ Kind(ex.slot) \in DiagnosisKinds)
    ~> (diagnosis = "none" \/ ex.phase = "left" \/ lost)

\* Diagnosis: one that is begun comes to an end; it may have to wait for another export.
DiagnosisEnds == (diagnosis # "none") ~> (diagnosis = "none" \/ project.exporting)
=============================================================================
