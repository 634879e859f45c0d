-------------------------- MODULE ProjectSettings --------------------------
(***************************************************************************)
(* The project's settings: the two-phase update of the configuration       *)
(* (stores/runtimeConfiguration.ts), the application of the player's       *)
(* preferences (stores/runtimeClientPreferences.ts), and the startup of a  *)
(* loaded project, which waits for both (runtimeStoreActions2.ts).         *)
(*                                                                         *)
(* An update asks the runtime to prepare new contents, writes them to the  *)
(* project's file and lets the runtime commit.  A reply is matched by the  *)
(* id its command got from the runtime.  Native IPC may deliver a batch    *)
(* with the reply before that id; a worker does not, and a command the     *)
(* batch handler itself awaits is never overtaken, as no other batch is    *)
(* handled meanwhile.                                                      *)
(*                                                                         *)
(* The contents of a configuration are the edit they come from and their   *)
(* schema; contents of an old schema are migrated.                         *)
(***************************************************************************)
EXTENDS Naturals, Sequences

CONSTANTS
  Hosts,           \* values of native
  Writables,       \* values of writable; a packaged project is configured for its session only
  MaxUpdates,      \* bound: updates of a run
  MaxDisturbances  \* bound: new sessions, hot reloads and faults of other handlers

ASSUME BoundsAssumption == {MaxUpdates, MaxDisturbances} \subseteq Nat
ASSUME HostsAssumption == Hosts \subseteq BOOLEAN /\ Writables \subseteq BOOLEAN

Updates == 1..MaxUpdates
Sessions == 1..MaxDisturbances + 1
Commands == ({"prepare", "finalize"} \X Updates) \cup ({"apply"} \X Sessions)

VARIABLES
  native, writable,
  session, disturbances,
  faulted,      \* a batch handler has thrown: the pump has reported a fault
  \* The host's reraconfig.toml.
  file,
  stored,       \* every contents it has had
  \* The runtime.
  source,       \* the configuration it runs on
  preparation,  \* the update it has prepared: [id, update, contents]
  committed,    \* the updates it has committed
  replies,      \* its messages
  nextId,
  \* Submissions: the state of each command and its id.
  sent, id,
  sentIn,       \* the session it was submitted in
  \* RuntimeConfigurationState
  snapshot,
  pending,      \* [stage, update]
  completion,   \* the update whose promise whenSettled returns, 0 if it is resolved
  update,       \* what became of each update's promise
  automatic,    \* the updates that confirm a migration
  expected,     \* the snapshot an update was based on
  outcome,      \* "commit" or "abort"
  astray,       \* updates whose id came after their reply or after a reset, or that lost their place
  handler,      \* what the batch handler awaits
  \* RuntimeClientPreferencesState
  application,  \* what became of each session's application
  early,        \* earlyReplies
  \* The startup of the project.
  startup,      \* by session, what its chain awaits
  loading,      \* projectLoading
  replacing     \* restartSession has retired the old session and not created the new one

hostVars == <<file, stored>>
runtimeVars == <<source, preparation, committed, replies, nextId>>
sendVars == <<sent, id, sentIn>>
updateVars == <<pending, completion, update, automatic, expected, outcome, astray>>
preferenceVars == <<application, early>>
startVars == <<startup, loading>>
fixed == <<native, writable, session, disturbances, replacing>>
vars == <<fixed, faulted, hostVars, runtimeVars, sendVars, snapshot, updateVars, handler,
          preferenceVars, startVars>>

Contents(edit, schema) == [edit |-> edit, schema |-> schema]
Migrated(c) == [c EXCEPT !.schema = "new"]
Null == Contents(0, "none")
NoPending == [stage |-> "none", update |-> 0]
NoPreparation == [id |-> 0, update |-> 0, contents |-> Null]
Idle == [at |-> "idle", update |-> 0, contents |-> Null, then |-> "none"]
\* A message: the command it answers, the configuration it carries, and what it prepares.
Message(type, i, c, p) == [type |-> type, id |-> i, source |-> c, prepared |-> p]

\* A project has just been submitted; its configuration may have an older schema.
Init ==
  /\ native \in Hosts /\ writable \in Writables
  /\ session = 1 /\ disturbances = 0 /\ faulted = FALSE /\ replacing = FALSE
  /\ \E schema \in {"old", "new"} : file = Contents(0, schema)
  /\ stored = {file} /\ source = file /\ preparation = NoPreparation /\ committed = {}
  /\ replies = <<Message("report", 0, file, Null)>> /\ nextId = 1
  /\ sent = [c \in Commands |-> "none"] /\ id = [c \in Commands |-> 0]
  /\ sentIn = [c \in Commands |-> 0]
  /\ snapshot = Null /\ pending = NoPending /\ completion = 0
  /\ update = [k \in Updates |-> "none"] /\ automatic = {}
  /\ expected = [k \in Updates |-> Null] /\ outcome = [k \in Updates |-> "none"] /\ astray = {}
  /\ handler = Idle
  /\ application = [s \in Sessions |-> "none"] /\ early = {}
  /\ startup = [s \in Sessions |-> [at |-> "none", on |-> 0]]
  /\ loading = TRUE

-----------------------------------------------------------------------------
(* Submissions, and what the runtime does with them. *)

Posts(c) ==
  /\ sent[c] = "none"
  /\ sent' = [sent EXCEPT ![c] = "posted"]
  /\ sentIn' = [sentIn EXCEPT ![c] = session]
  /\ UNCHANGED id

Replies(type, i, c, p) == replies' = Append(replies, Message(type, i, c, p))

Refuses == Replies("rejected", nextId, Null, Null) /\ UNCHANGED <<source, preparation, committed>>

\* The update of an unchanged configuration; a migration is one without changes.
Prepares(k) ==
  /\ source = expected[k]
  /\ LET contents == IF k \in automatic THEN Migrated(source) ELSE Contents(k, "new") IN
     /\ preparation' = [id |-> nextId, update |-> k, contents |-> contents]
     /\ Replies("prepared", nextId, source, contents)
  /\ UNCHANGED <<source, committed>>

Finalizes(k) ==
  /\ preparation.id = id[<<"prepare", k>>]
  /\ preparation' = NoPreparation
  /\ IF outcome[k] = "commit"
     THEN source' = preparation.contents /\ committed' = committed \cup {preparation.update}
     ELSE UNCHANGED <<source, committed>>
  /\ Replies("committed", nextId, source', Null)

AppliesPreferences == Replies("applied", nextId, source, Null) /\ UNCHANGED <<source, preparation, committed>>

\* A replaced worker takes its messages with it; the native host hands a late one to the new
\* session.
Accepted(c) ==
  /\ sent[c] = "posted" /\ (native \/ sentIn[c] = session)
  /\ sent' = [sent EXCEPT ![c] = "accepted"]
  /\ id' = [id EXCEPT ![c] = nextId]
  /\ nextId' = nextId + 1
  /\ \/ Refuses
     \/ c[1] = "prepare" /\ Prepares(c[2])
     \/ c[1] = "finalize" /\ Finalizes(c[2])
     \/ c[1] = "apply" /\ AppliesPreferences
  /\ UNCHANGED <<fixed, faulted, hostVars, sentIn, snapshot, updateVars, handler, preferenceVars, startVars>>

Returns(c) == sent' = [sent EXCEPT ![c] = "done"] /\ UNCHANGED <<id, sentIn>>

Disturbs == disturbances < MaxDisturbances /\ disturbances' = disturbances + 1

\* A hot reload of the project after another program has edited its file.
Reloads ==
  /\ writable /\ ~loading /\ ~replacing /\ Disturbs
  /\ \E schema \in {"old", "new"} : file' = Contents(MaxUpdates + disturbances', schema)
  /\ stored' = stored \cup {file'} /\ source' = file' /\ preparation' = NoPreparation
  /\ Replies("reload", 0, file', Null)
  /\ UNCHANGED <<native, writable, session, replacing, faulted, committed, nextId, sendVars,
                 snapshot, updateVars, handler, preferenceVars, startVars>>

-----------------------------------------------------------------------------
(* Updates of the configuration. *)

IsNext(k) == update[k] = "none" /\ \A j \in 1..k - 1 : update[j] # "none"

\* beginUpdate up to its await.
BeginUpdate(k) ==
  /\ IsNext(k) /\ snapshot # Null /\ pending.stage = "none"
  /\ update' = [update EXCEPT ![k] = "sending"]
  /\ expected' = [expected EXCEPT ![k] = snapshot]
  /\ Posts(<<"prepare", k>>)
  /\ UNCHANGED <<pending, completion, outcome, astray>>

\* The player saves, one dialog at a time.
Save(k) ==
  /\ \A j \in Updates \ automatic : update[j] \notin {"sending", "waiting"}
  /\ BeginUpdate(k)
  /\ UNCHANGED <<automatic, fixed, faulted, hostVars, runtimeVars, snapshot, handler, preferenceVars, startVars>>

\* The handler goes on after persistGenerated: the chain of a loaded project begins.
GoesOn(then, k) ==
  /\ handler' = Idle
  /\ startup' = IF then = "startup"
                THEN [startup EXCEPT ![session] = [at |-> "settling", on |-> k]] ELSE startup
  /\ UNCHANGED loading

\* The session of an update has been reset.
Stray(k) == sentIn[<<"prepare", k>>] < session + (IF replacing THEN 1 ELSE 0)

\* The id of the prepare command: the update is registered, whatever is pending by now.
Registers(k) ==
  /\ sent[<<"prepare", k>>] = "accepted" /\ Returns(<<"prepare", k>>)
  /\ update' = [update EXCEPT ![k] = "waiting"]
  /\ completion' = k
  /\ pending' = [stage |-> "preparing", update |-> k]
  /\ IF k \in automatic THEN GoesOn(handler.then, k) ELSE UNCHANGED <<handler, startVars>>
  /\ astray' = astray \cup {j \in Updates : (j = k /\ Stray(k)) \/ j = pending.update}
  /\ UNCHANGED <<automatic, expected, outcome, fixed, faulted, hostVars, runtimeVars, snapshot,
                 preferenceVars>>

\* handleError: the rest of the batch is lost and the fault shown.
Throws(rest) ==
  /\ handler' = Idle /\ faulted' = TRUE /\ loading' = FALSE
  /\ replies' \in {rest, <<>>}
  /\ UNCHANGED <<source, preparation, committed, nextId, startup>>

\* The submission fails: a save ends with the error, a migration takes the batch with it.
PrepareFails(k) ==
  /\ sent[<<"prepare", k>>] = "posted" /\ Returns(<<"prepare", k>>)
  /\ update' = [update EXCEPT ![k] = "rejected"]
  /\ IF k \in automatic THEN Throws(replies) ELSE UNCHANGED <<handler, faulted, runtimeVars, startVars>>
  /\ UNCHANGED <<pending, completion, automatic, expected, outcome, astray, fixed, hostVars, snapshot,
                 preferenceVars>>

-----------------------------------------------------------------------------
(* The batch handler.  A worker's acknowledgements come before later batches. *)

Reply == Head(replies)
Ready ==
  /\ handler.at = "idle" /\ replies # <<>> /\ ~replacing
  /\ ~native => \A c \in Commands : sent[c] # "accepted"
Consumes == replies' = Tail(replies) /\ UNCHANGED <<source, preparation, committed, nextId>>
Takes(type) == Ready /\ Reply.type = type /\ Consumes

\* A load report, or the configuration of a hot reload: update, then persistGenerated.
TakesConfiguration ==
  /\ Takes("report") \/ Takes("reload")
  /\ snapshot' = Reply.source
  /\ LET then == IF Reply.type = "report" THEN "startup" ELSE "none" IN
     IF Reply.source.schema = "old" /\ writable
     THEN handler' = [Idle EXCEPT !.at = "migrating", !.then = then] /\ UNCHANGED startVars
     ELSE GoesOn(then, completion)
  /\ UNCHANGED <<fixed, hostVars, faulted, sendVars, updateVars, preferenceVars>>

\* writeConfiguration: the file must be what is expected, unless it is already what is wanted.
Writes(old, new) ==
  /\ file \in {old, new}
  /\ file' = new /\ stored' = stored \cup {new}

\* The migration is written; unless an update is pending the runtime is asked to confirm it.
Migrates ==
  /\ handler.at = "migrating"
  /\ \/ /\ Writes(snapshot, Migrated(snapshot))
        /\ \/ /\ pending.stage # "none"
              /\ GoesOn(handler.then, completion) /\ UNCHANGED <<updateVars, sendVars>>
           \/ \E k \in Updates :
                /\ BeginUpdate(k) /\ automatic' = automatic \cup {k}
                /\ handler' = [handler EXCEPT !.at = "beginning", !.update = k]
                /\ UNCHANGED startVars
        /\ UNCHANGED <<faulted, runtimeVars>>
     \/ Throws(replies) /\ UNCHANGED <<hostVars, updateVars, sendVars>>
  /\ UNCHANGED <<fixed, snapshot, preferenceVars>>

\* beginFinalization up to its await.
BeginFinalization(k, o) ==
  /\ Posts(<<"finalize", k>>)
  /\ outcome' = [outcome EXCEPT ![k] = o]
  /\ handler' = [Idle EXCEPT !.at = "finalizing", !.update = k]

IsPrepared == pending.stage = "preparing" /\ id[<<"prepare", pending.update>>] = Reply.id
\* A reply to an update that is still to be registered is dropped with a warning.
Misses ==
  astray' = astray \cup {k \in Updates : update[k] = "sending" /\ id[<<"prepare", k>>] = Reply.id}

\* handlePrepared: what was prepared must have the identity of the snapshot.
HandlePrepared ==
  /\ Takes("prepared")
  /\ IF IsPrepared THEN
       LET k == pending.update IN
       /\ IF Reply.source # expected[k] THEN BeginFinalization(k, "abort")
          ELSE \/ /\ writable /\ UNCHANGED <<sendVars, outcome>>
                  /\ handler' = [Idle EXCEPT !.at = "writing", !.update = k, !.contents = Reply.prepared]
               \/ ~writable /\ \E o \in {"commit", "abort"} : BeginFinalization(k, o)
       /\ UNCHANGED astray
     ELSE Misses /\ UNCHANGED <<sendVars, outcome, handler>>
  /\ UNCHANGED <<fixed, hostVars, faulted, snapshot, pending, completion, update, automatic, expected,
                 preferenceVars, startVars>>

\* Mutant: an update whose file could not be written is committed.
CommitsUnwritten(k) == UNCHANGED hostVars /\ BeginFinalization(k, "commit")

WriteFails(k) == UNCHANGED hostVars /\ BeginFinalization(k, "abort")

\* The host's write ends, one way or the other.
Written ==
  /\ handler.at = "writing"
  /\ LET k == handler.update IN
     \/ Writes(expected[k], handler.contents) /\ BeginFinalization(k, "commit")
     \/ WriteFails(k)
  /\ UNCHANGED <<fixed, faulted, runtimeVars, snapshot, pending, completion, update, automatic, expected,
                 astray, preferenceVars, startVars>>

\* The finalization has its id, or could not be submitted.
Finalizing ==
  /\ handler.at = "finalizing"
  /\ LET k == handler.update
         c == <<"finalize", k>>
         own == pending = [stage |-> "preparing", update |-> k]
     IN /\ Returns(c)
        /\ \/ /\ sent[c] = "accepted" /\ UNCHANGED update
              /\ pending' = IF own THEN [pending EXCEPT !.stage = "finalizing"] ELSE pending
           \/ /\ sent[c] = "posted"
              /\ pending' = IF own THEN NoPending ELSE pending
              /\ update' = [update EXCEPT ![k] = IF @ = "waiting" THEN "rejected" ELSE @]
  /\ handler' = Idle
  /\ UNCHANGED <<fixed, faulted, hostVars, runtimeVars, snapshot, completion, automatic, expected,
                 outcome, astray, preferenceVars, startVars>>

IsFinalized == pending.stage = "finalizing" /\ id[<<"finalize", pending.update>>] = Reply.id
\* Mutant: the answer of an aborted update resolves its promise.
SettlesFine(k, r) ==
  /\ pending' = NoPending
  /\ update' = [update EXCEPT ![k] = "resolved"]
  /\ UNCHANGED <<completion, automatic, expected, outcome, astray>>

Settles(k, r) ==
  /\ pending' = NoPending
  /\ update' = [update EXCEPT ![k] = r]
  /\ UNCHANGED <<completion, automatic, expected, outcome, astray>>

\* handleCommitted; the refresh of the compiled cache may throw before the promise is resolved.
HandleCommitted ==
  /\ Ready /\ Reply.type = "committed"
  /\ IF IsFinalized THEN
       LET k == pending.update IN
       /\ snapshot' = Reply.source
       /\ \/ /\ Consumes /\ Settles(k, IF outcome[k] = "commit" THEN "resolved" ELSE "rejected")
             /\ UNCHANGED <<handler, faulted, startVars>>
          \/ /\ Throws(Tail(replies)) /\ Settles(k, "waiting")
             /\ writable /\ k \notin automatic /\ outcome[k] = "commit"
     ELSE Consumes /\ UNCHANGED <<snapshot, updateVars, handler, faulted, startVars>>
  /\ UNCHANGED <<fixed, hostVars, sendVars, preferenceVars>>

\* The application in progress.
Active == {s \in Sessions : application[s] \in {"sending", "waiting"}}
Ends(s, r) == application' = [application EXCEPT ![s] = r] /\ early' = {}

\* matchOrDefer: a reply settles the application it answers; one before its id is put aside.
Matched(s) == application[s] = "waiting" /\ id[<<"apply", s>>] = Reply.id
Deferred(s) == application[s] = "sending" /\ early' = early \cup {Reply} /\ UNCHANGED application
Unmatched == (\A s \in Active : application[s] = "waiting" /\ ~Matched(s)) /\ UNCHANGED preferenceVars

\* command_rejected: reject of the configuration, or else of the preferences.
HandleRejected ==
  /\ Takes("rejected")
  /\ LET k == pending.update
         c == IF pending.stage = "preparing" THEN <<"prepare", k>> ELSE <<"finalize", k>>
         own == pending.stage # "none" /\ id[c] = Reply.id
     IN \/ own /\ Settles(k, "rejected") /\ UNCHANGED preferenceVars
        \/ /\ ~own /\ Misses /\ UNCHANGED <<pending, completion, update, automatic, expected, outcome>>
           /\ \/ \E s \in Active : (Matched(s) /\ Ends(s, "rejected")) \/ Deferred(s)
              \/ Unmatched
  /\ UNCHANGED <<fixed, hostVars, faulted, snapshot, sendVars, handler, startVars>>

\* handleApplied; the host's part of it may fail.
HandleApplied ==
  /\ Takes("applied")
  /\ \/ \E s \in Active, r \in {"resolved", "rejected"} :
          Matched(s) /\ Ends(s, r) /\ snapshot' = Reply.source
     \/ ((\E s \in Active : Deferred(s)) \/ Unmatched) /\ UNCHANGED snapshot
  /\ UNCHANGED <<fixed, hostVars, faulted, sendVars, updateVars, handler, startVars>>

\* The handler of another message throws.
Faults ==
  /\ ~faulted /\ ~replacing /\ handler.at = "idle" /\ Disturbs
  /\ Throws(replies)
  /\ UNCHANGED <<native, writable, session, replacing, hostVars, sendVars, snapshot, updateVars, preferenceVars>>

-----------------------------------------------------------------------------
(* The startup, one chain for each session: whenSettled, the preferences, and then             *)
(* continueLoadedProject.                                                                      *)

ChainKeeps == UNCHANGED <<fixed, faulted, hostVars, runtimeVars, updateVars, handler>>

\* The chain's catch block, whatever the session by now.
Abandons(s) ==
  /\ startup' = [startup EXCEPT ![s].at = "failed"]
  /\ loading' = FALSE

MovesTo(s, at) ==
  startup' = [startup EXCEPT ![s].at = at] /\ UNCHANGED loading

\* The update the chain waits for has ended: apply submits the preferences.
Settled(s) ==
  /\ startup[s].at = "settling"
  /\ LET k == startup[s].on IN
     \/ /\ k # 0 => update[k] = "resolved"
        /\ MovesTo(s, "applying")
        /\ \/ /\ snapshot = Null /\ application' = [application EXCEPT ![s] = "resolved"]
              /\ UNCHANGED <<early, sendVars>>
           \/ /\ snapshot # Null /\ application' = [application EXCEPT ![s] = "sending"]
              /\ early' = {} /\ Posts(<<"apply", s>>)
     \/ k # 0 /\ update[k] = "rejected" /\ Abandons(s) /\ UNCHANGED <<preferenceVars, sendVars>>
  /\ ChainKeeps /\ UNCHANGED snapshot

\* The id of the application: an early reply with it settles it.
Applied(s) ==
  /\ sent[<<"apply", s>>] = "accepted" /\ Returns(<<"apply", s>>)
  /\ IF application[s] # "sending" THEN UNCHANGED <<preferenceVars, snapshot>>
     ELSE \/ \E m \in early, r \in {"resolved", "rejected"} :
               /\ m.id = id[<<"apply", s>>] /\ (m.type = "rejected" => r = "rejected")
               /\ Ends(s, r)
               /\ snapshot' = IF m.type = "applied" THEN m.source ELSE snapshot
          \/ /\ \A m \in early : m.id # id[<<"apply", s>>]
             /\ Ends(s, "waiting") /\ UNCHANGED snapshot
  /\ ChainKeeps /\ UNCHANGED startVars

ApplyFails(s) ==
  /\ sent[<<"apply", s>>] = "posted" /\ Returns(<<"apply", s>>)
  /\ IF application[s] = "sending" THEN Ends(s, "rejected") ELSE UNCHANGED preferenceVars
  /\ ChainKeeps /\ UNCHANGED <<snapshot, startVars>>

\* apply's promise.
PreferencesApplied(s) ==
  /\ startup[s].at = "applying"
  /\ \/ application[s] = "resolved" /\ MovesTo(s, "continuing")
     \/ application[s] = "rejected" /\ Abandons(s)
  /\ ChainKeeps /\ UNCHANGED <<snapshot, preferenceVars, sendVars>>

\* continueLoadedProject, after the viewport has settled.
Starts(s) ==
  /\ startup[s].at = "continuing"
  /\ startup' = [startup EXCEPT ![s].at = "done"]
  /\ loading' = FALSE
  /\ ChainKeeps /\ UNCHANGED <<snapshot, preferenceVars, sendVars>>

-----------------------------------------------------------------------------
(* A new session: restartSession. *)

\* Mutant: a reset forgets the update in progress instead of rejecting its promise.
ForgetsUpdate ==
  /\ snapshot' = Null /\ pending' = NoPending /\ completion' = 0
  /\ UNCHANGED <<update, automatic, expected, outcome, astray>>

ResetsUpdate ==
  /\ snapshot' = Null /\ pending' = NoPending /\ completion' = 0
  /\ update' = [k \in Updates |-> IF pending.update = k THEN "rejected" ELSE update[k]]
  /\ UNCHANGED <<automatic, expected, outcome, astray>>

\* retireFrontendOwners, while the pump is idle: reset of the configuration and the preferences.
Retires ==
  /\ ~loading /\ ~replacing /\ Disturbs /\ handler.at = "idle"
  /\ replacing' = TRUE /\ loading' = TRUE
  /\ ResetsUpdate
  /\ application' = [s \in Sessions |-> IF s \in Active THEN "rejected" ELSE application[s]]
  /\ early' = {}
  /\ UNCHANGED <<native, writable, session, faulted, hostVars, runtimeVars, sendVars,
                 handler, startup>>

\* The new session, which reads the file; the worker of the old one takes its answers with it.
Replaces ==
  /\ replacing /\ replacing' = FALSE
  /\ session' = session + 1
  /\ sent' = [c \in Commands |-> IF ~native /\ sent[c] = "accepted" THEN "posted" ELSE sent[c]]
  /\ source' = file /\ preparation' = NoPreparation /\ nextId' = 1
  /\ replies' = <<Message("report", 0, file, Null)>>
  /\ UNCHANGED <<native, writable, disturbances, faulted, hostVars, committed, id, sentIn, snapshot,
                 updateVars, handler, preferenceVars, startVars>>

Store ==
  \/ TakesConfiguration \/ Migrates \/ HandlePrepared \/ Written \/ Finalizing
  \/ HandleCommitted \/ HandleRejected \/ HandleApplied \/ Replaces
  \/ \E k \in Updates : Registers(k) \/ PrepareFails(k)
  \/ \E s \in Sessions : Settled(s) \/ Applied(s) \/ ApplyFails(s) \/ PreferencesApplied(s) \/ Starts(s)

Next ==
  \/ Store \/ Reloads \/ Faults \/ Retires
  \/ \E c \in Commands : Accepted(c)
  \/ \E k \in Updates : Save(k)

Fairness == WF_vars(Store) /\ \A c \in Commands : WF_vars(Accepted(c))

Spec == Init /\ [][Next]_vars /\ Fairness

-----------------------------------------------------------------------------
(* Properties. *)

\* A project with a writable file never runs on a configuration its file has not held: the
\* runtime commits an update only when the host has written it (handlePrepared).
RuntimeOnStored == writable => source \in stored

\* The player is told that an update is saved only when the runtime has committed it: no late
\* reply, failed write or failed finalization resolves an update's promise.
SavedIsCommitted ==
  [][\A k \in Updates :
       update'[k] = "resolved" /\ update[k] # "resolved" => k \in committed \cup astray]_vars

Unanswered(k) == update[k] \in {"sending", "waiting"}

AllSettled ==
  /\ ~loading /\ \A k \in Updates : ~Unanswered(k)
  /\ \A s \in Sessions : startup[s].at \in {"none", "done", "failed"}

\* Every update is answered, and the startup of every session comes to an end, again and again,
\* unless an update went astray or a batch handler has thrown, which the player sees as a fault.
SettingsSettle == []<>(AllSettled \/ faulted \/ astray # {})

\* A reset cancels the updates in progress: none of them is pending in the next session.
ResetCancels == pending.stage # "none" => ~Stray(pending.update)
=============================================================================
