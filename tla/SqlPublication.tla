--------------------------- MODULE SqlPublication ---------------------------
(***************************************************************************)
(* How a game's SQL database becomes durable (src/platform/sqlProvider.ts, *)
(* sqlStorage.ts and sql.worker.ts).  A revision of a database, named by   *)
(* its digest, lives in three places: the worker's live and durable copies *)
(* of a connection, the chain the provider keeps for it, and the project's *)
(* storage - one immutable blob per revision and one pointer, "current".   *)
(* A statement that changes the database is published: the blob is         *)
(* written, the pointer is swapped, and the worker is told to accept the   *)
(* revision or to go back to the last durable one.                         *)
(*                                                                         *)
(* Requests run one at a time (the provider's tail), but a request in      *)
(* flight may be aborted, its worker may fail, the provider may be reset   *)
(* under it, the page may go away, and another host may use the project.   *)
(* All connections are to one Resource database.  One action is one turn:  *)
(* the worker's or storage's answer, and what the provider does with it.   *)
(***************************************************************************)
EXTENDS Naturals, Sequences

CONSTANTS
  Requests,     \* service requests to the provider
  Connections,  \* connection handles
  Revisions,    \* database contents
  Seed,         \* the revision the Resource ships
  Epochs,       \* service epochs of the provider handles
  Hosts,        \* where the page runs: "native" swaps a file atomically,
                \* "browser" does not
  SharedOn,     \* the hosts on which another window publishes to the same project
  None

ASSUME RevisionsAssumption == Seed \in Revisions /\ Revisions \cap {None, "missing", "malformed"} = {}
ASSUME EpochsAssumption == Epochs \subseteq Nat \ {0}
ASSUME HostsAssumption == Hosts \subseteq {"native", "browser"}

VARIABLES
  host,     \* the one of Hosts
  queue,    \* the requests chained on tail; the head is running unless stage is "none"
  aborted,  \* the queued requests whose signal is aborted
  fresh,    \* the queued requests accepted by the current generation
  answer,   \* how the request that ended in the last turn was answered
  stage,    \* what the running request awaits
  conn,     \* the connection it is about
  task,     \* what it opens or publishes: the durable base, the chain, the revision
  moved,    \* history: its publication has swapped the pointer
  up,       \* the provider has a transport, which is not closed
  dead,     \* its worker will answer nothing any more
  serving,  \* the epoch of the provider handle, 0 for none
  chain,    \* chains
  conns,    \* the worker's connections
  blobs,    \* revisions/<digest>.sqlite3 in storage
  pointer   \* current in storage

worker == <<up, dead, serving, chain, conns>>
turn == <<queue, aborted>>
storage == <<blobs, pointer>>
vars == <<host, turn, answer, fresh, stage, conn, task, moved, worker, storage>>

\* What the running request awaits:
\*   seed          readResource
\*   validating    the worker's validation of the seed
\*   reading       current and the revision it names
\*   seeding       the write of the seed's blob ...
\*   initializing  ... of the pointer to it (initClosing: past its precondition)
\*   executing     the worker's answer
\*   blob          the write of the published revision's blob ...
\*   pointer       ... of the pointer to it (closing: past its precondition)
\*   settling      the worker's acceptance of the published revision
\*   rolling       its return to the durable one
WorkerStages == {"validating", "executing", "settling", "rolling"}
OpenStages == {"seed", "validating", "reading", "seeding", "initializing", "initClosing"}
PublishStages == {"blob", "pointer", "closing", "settling", "rolling"}
Stages == OpenStages \cup {"executing"} \cup PublishStages

\*   error      an error reply that admits no commit
\*   committed, unknown  an error reply with that commit_outcome
\*   failed     InvalidState, after a reset
Answers == {"none", "ok", "error", "committed", "unknown", "failed", "stale", "aborted"}

Chain == [db : Revisions, storage : Revisions \cup {None}]
Connection == [live : Revisions, durable : Revisions, tx : BOOLEAN, writing : BOOLEAN]
Task == [base : Revisions, chain : Chain, revision : Revisions]

ASSUME NoneAssumption == None \notin Chain \cup Connection \cup Task

Waiting == {queue[i] : i \in 1 .. Len(queue)}

TypeOK ==
  /\ host \in Hosts
  /\ queue \in Seq(Requests) /\ aborted \subseteq Requests /\ fresh \subseteq Requests
  /\ answer \in Answers
  /\ stage \in Stages \cup {"none"}
  /\ stage # "none" => queue # <<>>
  /\ conn \in Connections
  /\ task \in Task \cup {None}
  /\ moved \in BOOLEAN /\ up \in BOOLEAN /\ dead \in BOOLEAN
  /\ serving \in Epochs \cup {0}
  /\ chain \in [Connections -> Chain \cup {None}]
  /\ conns \in [Connections -> Connection \cup {None}]
  /\ blobs \in [Revisions -> {"missing", "empty", "whole"}]
  /\ pointer \in Revisions \cup {"missing", "malformed"}

Init ==
  /\ host \in Hosts
  /\ queue = <<>> /\ aborted = {} /\ fresh = {}
  /\ answer = "none"
  /\ stage = "none"
  /\ conn \in Connections
  /\ task = None
  /\ moved = FALSE /\ up = FALSE /\ dead = FALSE
  /\ serving = 0
  /\ chain = [c \in Connections |-> None] /\ conns = [c \in Connections |-> None]
  /\ blobs = [v \in Revisions |-> "missing"]
  /\ pointer = "missing"

-----------------------------------------------------------------------------
(* Pieces of the provider. *)

\* reset(), after which the provider serves epoch and the requests of rs.
ResetFor(epoch, rs) ==
  /\ up' = FALSE /\ dead' = FALSE
  /\ serving' = epoch
  /\ chain' = [c \in Connections |-> None]
  /\ conns' = [c \in Connections |-> None]
  /\ fresh' = rs
Reset == ResetFor(0, {})

Running == Head(queue)

\* The operation settles, and with it its turn on tail.
EndsWithoutTurn(a) ==
  /\ answer' = a
  /\ stage' = "none"
  /\ UNCHANGED <<queue, aborted>>
EndsStillCancellable(a) ==
  /\ answer' = a
  /\ stage' = "none"
  /\ queue' = Tail(queue)
  /\ UNCHANGED aborted
Ends(a) ==
  /\ answer' = a
  /\ stage' = "none"
  /\ queue' = Tail(queue)
  /\ aborted' = aborted \ {Running}
EndsQuietly(a) == Ends(a) /\ fresh' = fresh \ {Running}

\* Nothing is answered in this turn.
Silent == answer' = "none"

\* The operation goes on to its next await.
Awaits(s) == stage' = s /\ Silent /\ UNCHANGED <<turn, fresh>>

\* execute() catches a SqlStorageError ...
Fails ==
  IF Running \in aborted THEN Reset /\ Ends("aborted") ELSE EndsQuietly("error") /\ UNCHANGED worker
\* ... or any other error.
Breaks == Reset /\ Ends(IF Running \in aborted THEN "aborted" ELSE "failed")

\* transport.request: a closed transport or an aborted signal refuses at once.
Refused == ~up \/ Running \in aborted

\* How a request that awaits the worker ends when the transport gives it up, and
\* when its signal aborts.
Severed == [validating |-> "error", executing |-> "failed",
            settling |-> "committed", rolling |-> "error"]
CutOff == [validating |-> "aborted", executing |-> "aborted",
           settling |-> "committed", rolling |-> "aborted"]

-----------------------------------------------------------------------------
(* handle(), and what may happen to a request in flight. *)

\* enterProvider, then the operation joins tail.
Submit(r, epoch) ==
  /\ r \notin Waiting
  /\ \/ /\ serving # 0 /\ epoch < serving
        /\ answer' = "stale"
        /\ UNCHANGED <<queue, aborted, fresh, stage, worker>>
     \/ /\ serving \in {0, epoch}
        /\ queue' = Append(queue, r)
        /\ serving' = epoch
        /\ fresh' = fresh \cup {r}
        /\ Silent
        /\ UNCHANGED <<aborted, stage, up, dead, chain, conns>>
     \/ /\ serving # 0 /\ epoch > serving /\ stage \notin WorkerStages
        /\ queue' = Append(queue, r)
        /\ ResetFor(epoch, {r})
        /\ Silent
        /\ UNCHANGED <<aborted, stage>>
     \* The reset rejects the running operation, whose own catch block runs after
     \* this one has been accepted, and resets again.
     \/ /\ serving # 0 /\ epoch > serving /\ stage \in WorkerStages
        /\ queue' = Append(Tail(queue), r)
        /\ answer' = Severed[stage]
        /\ IF stage = "validating" THEN ResetFor(epoch, {r}) ELSE Reset
        /\ stage' = "none"
        /\ UNCHANGED aborted
  /\ UNCHANGED <<host, conn, task, moved, storage>>

\* The runtime cancels a request.
Abort(r) ==
  /\ r \in Waiting \ aborted
  /\ IF stage \in WorkerStages /\ r = Running
     THEN Reset /\ Ends(CutOff[stage])
     ELSE /\ aborted' = aborted \cup {r}
          /\ Silent
          /\ UNCHANGED <<queue, fresh, stage, worker>>
  /\ UNCHANGED <<host, conn, task, moved, storage>>

\* A fault, another session or the teardown: the store retires every service
\* request and resets the provider in one turn.
ExternalReset ==
  /\ serving # 0
  /\ Reset
  /\ IF stage \in WorkerStages
     THEN /\ queue' = Tail(queue)
          /\ aborted' = Waiting \ {Running}
          /\ answer' = CutOff[stage]
          /\ stage' = "none"
     ELSE aborted' = Waiting /\ Silent /\ UNCHANGED <<queue, stage>>
  /\ UNCHANGED <<host, conn, task, moved, storage>>

\* The worker answers with an error or cannot be understood: the operation is
\* rejected.  A worker that died (onerror) answers nothing any more, and only a
\* reset replaces it.
WorkerFails(dies) ==
  /\ up /\ ~dead
  /\ dies \/ stage \in WorkerStages
  /\ \/ /\ stage \in WorkerStages \ {"validating"}
        /\ Reset /\ Ends(Severed[stage])
     \/ /\ stage = "validating"
        /\ EndsQuietly(Severed[stage])
        /\ dead' = dies
        /\ UNCHANGED <<up, serving, chain, conns>>
     \/ /\ stage \notin WorkerStages
        /\ dead' = TRUE
        /\ Silent
        /\ UNCHANGED <<turn, fresh, stage, up, serving, chain, conns>>
  /\ UNCHANGED <<host, conn, task, moved, storage>>

\* The page goes away; storage stays.
PageLost ==
  /\ queue' = <<>> /\ aborted' = {}
  /\ Silent
  /\ stage' = "none"
  /\ task' = None
  /\ moved' = FALSE
  /\ Reset
  /\ UNCHANGED <<host, conn, storage>>

\* Another window seeds the database or publishes on top of what is current.
OtherHostPublishes(v) ==
  /\ host \in SharedOn
  /\ \/ pointer \in Revisions
     \/ pointer = "missing" /\ v = Seed
  /\ blobs[v] # "empty"
  /\ blobs' = [blobs EXCEPT ![v] = "whole"]
  /\ pointer' = v
  /\ Silent
  /\ UNCHANGED <<host, turn, fresh, stage, conn, task, moved, worker>>

-----------------------------------------------------------------------------
(* execute() *)

\* The generation check, past which only requests of the current provider run.
EveryGeneration == TRUE
SameGeneration == Running \in fresh

Start ==
  /\ stage = "none" /\ queue # <<>>
  /\ task' = None
  /\ moved' = FALSE
  /\ \/ /\ ~SameGeneration
        /\ EndsQuietly("stale")
        /\ UNCHANGED <<conn, worker>>
     \/ /\ SameGeneration /\ Running \in aborted
        /\ EndsQuietly("aborted")
        /\ UNCHANGED <<conn, worker>>
     \/ /\ SameGeneration /\ Running \notin aborted
        /\ conn' \in Connections
        /\ up' = TRUE
        /\ EndsQuietly("error") \/ \E s \in {"seed", "executing"} : Awaits(s)
        /\ UNCHANGED <<dead, serving, chain, conns>>
  /\ UNCHANGED <<host, storage>>

\* The seed is read and handed to the worker for validation.
SeedRead ==
  /\ stage = "seed"
  /\ Fails \/ (~Refused /\ Awaits("validating") /\ UNCHANGED worker)
  /\ UNCHANGED <<host, conn, task, moved, storage>>

SeedValidated ==
  /\ stage = "validating" /\ ~dead
  /\ Fails \/ (Awaits("reading") /\ UNCHANGED worker)
  /\ UNCHANGED <<host, conn, task, moved, storage>>

\* The material of an open is at hand: transport.execute.
Opens(base, db, expected) ==
  /\ task' = [base |-> base, chain |-> [db |-> db, storage |-> expected], revision |-> base]
  /\ IF Refused THEN Breaks ELSE Awaits("executing") /\ UNCHANGED worker

\* readCurrent and readRevision, of the current revision or an exact one.
CurrentRead ==
  /\ stage = "reading"
  /\ \/ Fails /\ UNCHANGED task
     \/ /\ pointer \in Revisions /\ blobs[pointer] = "whole"
        /\ Opens(pointer, pointer, pointer)
     \/ \E exact \in Revisions :
          /\ blobs[exact] = "whole"
          /\ \/ pointer \in Revisions /\ Opens(exact, pointer, pointer)
             \/ pointer = "missing" /\ Opens(exact, exact, None)
     \/ /\ pointer = "missing"
        /\ task' = [base |-> Seed, chain |-> [db |-> Seed, storage |-> None], revision |-> Seed]
        /\ Awaits("seeding")
        /\ UNCHANGED worker
  /\ UNCHANGED <<host, conn, moved, storage>>

-----------------------------------------------------------------------------
(* SqlStorage.publish, and the same two writes when the seed is installed. *)

PointerFirst == "pointer"
FirstWrite == "blob"

\* settle(false): the worker goes back, or cannot be asked to.
RollsBack ==
  IF Refused
  THEN Reset /\ Ends(IF Running \in aborted THEN "aborted" ELSE "error")
  ELSE Awaits("rolling") /\ UNCHANGED worker

\* The worker has executed a statement that left revision v to be published.
Publishes(v) ==
  /\ chain[conn] # None
  /\ task' = [base |-> conns[conn].durable, chain |-> chain[conn], revision |-> v]
  /\ Awaits(IF chain[conn].db = conns[conn].durable THEN FirstWrite ELSE "rolling")

\* writeRevision: a new blob, or a whole one that is already there.
BlobWritten ==
  /\ stage \in {"seeding", "blob"}
  /\ blobs[task.revision] # "empty"
  /\ blobs' = [blobs EXCEPT ![task.revision] = "whole"]
  /\ Awaits(IF stage = "seeding" THEN "initializing" ELSE "pointer")
  /\ UNCHANGED <<host, conn, task, moved, worker, pointer>>

\* The quota, the write or the verification fails.  The browser's write may leave
\* the file it had created, and a lost answer leaves a whole one.
BlobFails ==
  /\ stage \in {"seeding", "blob"}
  /\ \/ UNCHANGED blobs
     \/ /\ blobs[task.revision] = "missing"
        /\ \E left \in {"whole"} \cup (IF host = "browser" THEN {"empty"} ELSE {}) :
             blobs' = [blobs EXCEPT ![task.revision] = left]
  /\ IF stage = "seeding" THEN Fails ELSE RollsBack
  /\ UNCHANGED <<host, conn, task, moved, pointer>>

\* The precondition of the pointer's write.
NoPrecondition == TRUE
Precondition ==
  pointer = IF task.chain.storage = None THEN "missing" ELSE task.chain.storage

\* The browser's write checks its precondition and creates the file ...
PointerChecked ==
  /\ host = "browser" /\ stage \in {"initializing", "pointer"}
  /\ Precondition
  /\ pointer' = IF pointer = "missing" THEN "malformed" ELSE pointer
  /\ Awaits(IF stage = "pointer" THEN "closing" ELSE "initClosing")
  /\ UNCHANGED <<host, conn, task, moved, worker, blobs>>

\* ... before it replaces it.
Replaces ==
  /\ \/ host = "native" /\ stage \in {"initializing", "pointer"} /\ Precondition
     \/ stage \in {"initClosing", "closing"}
  /\ pointer' = task.revision
  /\ UNCHANGED blobs

Initial == stage \in {"initializing", "initClosing"}
Publication == stage \in {"pointer", "closing"}

\* The seed is current: the open goes on.
SeedInstalled ==
  /\ Initial
  /\ Replaces
  /\ Opens(Seed, Seed, Seed)
  /\ UNCHANGED <<host, conn, moved>>

\* Written: the chain follows, then the worker is told, unless it cannot be told
\* or the answer lacks the storage revision.
PointerSwapped ==
  /\ Publication
  /\ Replaces
  /\ moved' = TRUE
  /\ \/ Reset /\ Ends("committed")
     \/ /\ ~Refused
        /\ chain' = [chain EXCEPT ![conn] = [db |-> task.revision, storage |-> task.revision]]
        /\ Awaits("settling")
        /\ UNCHANGED <<up, dead, serving, conns>>
  /\ UNCHANGED <<host, conn, task>>

\* A conflict or another error result.  An open that finds the seed installed by
\* another host goes on.
PointerRefused ==
  /\ \/ Initial /\ Fails /\ UNCHANGED task
     \/ stage = "initializing" /\ pointer = Seed /\ Opens(Seed, Seed, Seed)
     \/ Publication /\ RollsBack /\ UNCHANGED task
  /\ UNCHANGED <<host, conn, moved, storage>>

\* The call fails or cannot be decoded: the pointer may have been swapped.
UnknownIsRefused == RollsBack
UnknownEnds == Reset /\ Ends("unknown")

OutcomeUnknown(swapped) ==
  /\ IF swapped THEN Replaces ELSE UNCHANGED storage
  /\ \/ Initial /\ UNCHANGED moved /\ Fails
     \/ Publication /\ moved' = swapped /\ UnknownEnds
  /\ UNCHANGED <<host, conn, task>>

-----------------------------------------------------------------------------
(* The worker. *)

Becomes(s) == conns' = [conns EXCEPT ![conn] = s]

\* runOperation, case open.
Opened ==
  /\ stage = "executing" /\ ~dead /\ task # None
  /\ \/ EndsQuietly("error") /\ UNCHANGED <<conns, chain>>
     \/ /\ conns[conn] = None
        /\ Becomes([live |-> task.base, durable |-> task.base, tx |-> FALSE, writing |-> FALSE])
        /\ chain' = [chain EXCEPT ![conn] = task.chain]
        /\ EndsQuietly("ok")
  /\ UNCHANGED <<host, conn, task, moved, up, dead, serving, storage>>

\* A statement leaves content v and a transaction open or not; preparePublication
\* follows what changes the database, outside a transaction.
StatementRuns(v, tx, writing) ==
  LET s == conns[conn] IN
  /\ writing => s.writing
  /\ Becomes([s EXCEPT !.live = v, !.tx = tx, !.writing = writing])
  /\ IF ~tx /\ v # s.durable THEN Publishes(v) ELSE EndsQuietly("ok") /\ UNCHANGED task

\* A row of a reader whose statement writes: nothing is published before it ends.
ReaderSteps(v) ==
  /\ Becomes([conns[conn] EXCEPT !.live = v, !.writing = TRUE])
  /\ EndsQuietly("ok")
  /\ UNCHANGED task

\* The statement fails, having left v.  Outside a transaction the durable copy is
\* restored if anything differs from it, which closes the readers.
StatementFails(v, tx) ==
  LET s == conns[conn] IN
  /\ Becomes(IF tx THEN [s EXCEPT !.live = v, !.tx = TRUE]
             ELSE [s EXCEPT !.live = s.durable, !.tx = FALSE,
                            !.writing = s.writing /\ v = s.durable])
  /\ EndsQuietly("error")
  /\ UNCHANGED task

Executed ==
  /\ stage = "executing" /\ ~dead /\ task = None
  /\ \/ /\ conns[conn] = None
        /\ EndsQuietly("error")
        /\ UNCHANGED <<task, conns, chain>>
     \/ /\ conns[conn] # None
        /\ \E a \in {"ok", "error"} : EndsQuietly(a)
        /\ UNCHANGED <<task, conns, chain>>
     \/ /\ conns[conn] # None
        /\ \E v \in Revisions, tx, writing \in BOOLEAN :
             StatementRuns(v, tx, writing) \/ StatementFails(v, tx) \/ ReaderSteps(v)
        /\ UNCHANGED chain
     \/ /\ conns[conn] # None   \* disconnect
        /\ Becomes(None)
        /\ chain' = [chain EXCEPT ![conn] = None]
        /\ EndsQuietly("ok")
        /\ UNCHANGED task
  /\ UNCHANGED <<host, conn, moved, up, dead, serving, storage>>

\* settle(true)
Accepted ==
  /\ stage = "settling" /\ ~dead
  /\ Becomes([conns[conn] EXCEPT !.durable = task.revision])
  /\ EndsQuietly("ok")
  /\ UNCHANGED <<host, conn, task, moved, up, dead, serving, chain, storage>>

\* settle(false): replaceDatabase with the durable copy.
KeptAfterRejection(s) == s
RolledBack(s) == [s EXCEPT !.live = s.durable, !.tx = FALSE, !.writing = FALSE]

Rejected ==
  /\ stage = "rolling" /\ ~dead
  /\ Becomes(RolledBack(conns[conn]))
  /\ EndsQuietly("error")
  /\ UNCHANGED <<host, conn, task, moved, up, dead, serving, chain, storage>>

-----------------------------------------------------------------------------
Progress ==
  \/ Start \/ SeedRead \/ SeedValidated \/ CurrentRead
  \/ BlobWritten \/ BlobFails
  \/ PointerChecked \/ SeedInstalled \/ PointerSwapped \/ PointerRefused
  \/ \E swapped \in BOOLEAN : OutcomeUnknown(swapped)
  \/ Opened \/ Executed \/ Accepted \/ Rejected

Environment ==
  \/ \E r \in Requests : Abort(r) \/ \E epoch \in Epochs : Submit(r, epoch)
  \/ ExternalReset \/ PageLost
  \/ \E dies \in BOOLEAN : WorkerFails(dies)
  \/ \E v \in Revisions : OtherHostPublishes(v)

Next == Progress \/ Environment

\* Storage and the worker answer in the end.
Spec == Init /\ [][Next]_vars /\ WF_vars(Progress)

-----------------------------------------------------------------------------
(* The pointer never names a revision whose blob is not there in full: no      *)
(* crash, abort or failed write between the two writes can leave the database  *)
(* unreadable, because the blob is written first and is never overwritten.     *)
PointerNamesBlob == pointer \in Revisions => blobs[pointer] = "whole"

(* The script is told the truth about its commit: success only after the       *)
(* pointer has moved, a plain error only if it has not, and commit_outcome     *)
(* "committed" only if it has.                                                 *)
RepliesTruthfully ==
  [][~PageLost /\ stage \in PublishStages /\ stage' = "none"
       => /\ answer' \in {"ok", "committed"} => moved'
          /\ answer' \in {"error", "aborted"} => ~moved']_vars

(* What the game has seen outside a transaction survives: between requests, a  *)
(* connection that is neither in a transaction nor stepping through a writing  *)
(* statement shows exactly its durable revision, whose blob is in storage, and *)
(* the provider's chain for it rests on a stored revision too.                 *)
LiveIsDurable ==
  \A c \in Connections : stage = "none" /\ conns[c] # None =>
    /\ blobs[conns[c].durable] = "whole"
    /\ ~conns[c].tx /\ ~conns[c].writing => conns[c].live = conns[c].durable
    /\ chain[c] # None /\ blobs[chain[c].db] = "whole"

(* No update is lost: a publication replaces the very revision its statement   *)
(* ran on, although worker, chain and pointer are three copies of it and other *)
(* hosts may move the pointer.  (An exact revision may be restored when there  *)
(* is no pointer at all.)                                                      *)
PublishesOnBase ==
  [][moved' /\ ~moved => pointer \in {task.base, "missing", "malformed"}]_vars

(* An operation never reaches a worker of a later provider than its own: the   *)
(* queue outlives a reset, but what is left in it runs against no worker.      *)
OwnWorkerOnly == stage # "none" /\ up => Running \in fresh

(* Every request is answered in the end, and no request waits behind another   *)
(* for good, unless the worker died while nothing was asked of it (which the   *)
(* provider does not notice).                                                  *)
RequestSettles == \A r \in Requests : r \in Waiting ~> r \notin Waiting \/ dead
=============================================================================
