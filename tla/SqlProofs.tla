----------------------------- MODULE SqlProofs -----------------------------
(***************************************************************************)
(* What holds of the publication of a database for any number of requests, *)
(* connections, revisions and epochs.  A blob that is whole stays whole;   *)
(* so it is enough that a revision is whole before the pointer, a chain or *)
(* a connection takes it over (Prepared, Kept).  A connection differs from *)
(* its durable copy only inside a transaction, a writing statement, or the *)
(* publication that is about to make both the same.                        *)
(***************************************************************************)
EXTENDS SqlPublication, TLAPS

USE RevisionsAssumption, NoneAssumption, EpochsAssumption, HostsAssumption

Whole(v) == blobs[v] = "whole"

\* The chain's storage revision is what the precondition of a pointer's write asks for.
Linked(c) == c.storage \in {c.db, None}

\* What the running request has made sure of.
Prepared ==
  /\ stage \in {"seeding", "initializing", "initClosing"} => task \in Task /\ task.revision = Seed
  /\ stage \in {"initializing", "initClosing"} => Whole(Seed)
  /\ stage = "executing" /\ task # None =>
       task \in Task /\ Whole(task.base) /\ Whole(task.chain.db) /\ Linked(task.chain)
  /\ stage \in WorkerStages => up

\* What a publication has made sure of.
Publishing ==
  /\ stage \in PublishStages => task \in Task /\ (up => conns[conn] \in Connection)
  /\ stage \in PublishStages \ {"rolling"} /\ up =>
       conns[conn].live = task.revision /\ ~conns[conn].tx
  /\ stage \in {"blob", "pointer", "closing"} => task.chain.db = task.base /\ Linked(task.chain)
  /\ stage \in {"pointer", "closing", "settling"} => Whole(task.revision)
  /\ stage \notin {"none", "settling"} => ~moved
  /\ stage = "settling" => moved

\* What a connection keeps.
Kept(c) ==
  conns[c] # None =>
    /\ conns[c] \in Connection /\ Whole(conns[c].durable)
    /\ chain[c] \in Chain /\ Whole(chain[c].db) /\ Linked(chain[c])
    /\ ~conns[c].tx /\ ~conns[c].writing /\ ~(stage \in PublishStages /\ c = conn) =>
         conns[c].live = conns[c].durable

\* Between check and replacement of the browser's write nobody else moves the pointer.
Undisturbed ==
  stage = "closing" =>
    host = "browser" /\ ("browser" \notin SharedOn => pointer \in {task.base, "malformed"})

SqlInv ==
  /\ TypeOK /\ Prepared /\ Publishing /\ (\A c \in Connections : Kept(c)) /\ Undisturbed
  /\ PointerNamesBlob /\ OwnWorkerOnly

\* All of it that is not a type and not about storage.
Provider == Prepared /\ Publishing /\ (\A c \in Connections : Kept(c)) /\ Undisturbed /\ OwnWorkerOnly

\* The parts of TypeOK.
TurnType ==
  /\ queue \in Seq(Requests) /\ aborted \subseteq Requests /\ fresh \subseteq Requests
  /\ answer \in Answers /\ stage \in Stages \cup {"none"} /\ (stage # "none" => queue # <<>>)
WorkerType ==
  /\ up \in BOOLEAN /\ dead \in BOOLEAN /\ serving \in Epochs \cup {0}
  /\ chain \in [Connections -> Chain \cup {None}] /\ conns \in [Connections -> Connection \cup {None}]
OtherType ==
  /\ host \in Hosts /\ conn \in Connections /\ task \in Task \cup {None} /\ moved \in BOOLEAN
  /\ blobs \in [Revisions -> {"missing", "empty", "whole"}]
  /\ pointer \in Revisions \cup {"missing", "malformed"}

LEMMA TypeParts == TypeOK <=> TurnType /\ WorkerType /\ OtherType
BY DEF TypeOK, TurnType, WorkerType, OtherType

BlobsGrow == \A v \in Revisions : Whole(v) => blobs'[v] = "whole"

-----------------------------------------------------------------------------
(* Queues, answers and blobs. *)

LEMMA QueueEnds ==
  ASSUME queue \in Seq(Requests), queue # <<>>
  PROVE  Running \in Requests /\ Tail(queue) \in Seq(Requests)
BY DEF Running

LEMMA QueueGrows ==
  ASSUME NEW q \in Seq(Requests), NEW r \in Requests
  PROVE  /\ Append(q, r) \in Seq(Requests) /\ Append(q, r) # <<>>
         /\ q # <<>> => Head(Append(q, r)) = Head(q)
OBVIOUS

LEMMA EndsTypes ==
  ASSUME TypeOK, queue # <<>>, NEW a \in Answers, Ends(a), fresh' \subseteq Requests
  PROVE  TurnType'
BY QueueEnds DEF TypeOK, TurnType, Ends

LEMMA ResetTypes ==
  ASSUME TypeOK, NEW e \in Epochs \cup {0}, NEW rs, ResetFor(e, rs)
  PROVE  WorkerType' /\ fresh' = rs
BY DEF TypeOK, WorkerType, ResetFor

LEMMA SameWorker == ASSUME TypeOK, UNCHANGED worker PROVE WorkerType'
BY DEF TypeOK, WorkerType, worker

LEMMA WritesGrow ==
  ASSUME TypeOK, NEW v \in Revisions, NEW b \in {"missing", "empty", "whole"},
         b = "whole" \/ blobs[v] # "whole", blobs' = [blobs EXCEPT ![v] = b]
  PROVE  blobs' \in [Revisions -> {"missing", "empty", "whole"}] /\ BlobsGrow
BY DEF TypeOK, BlobsGrow, Whole

LEMMA SameBlobs == blobs' = blobs => BlobsGrow
BY DEF BlobsGrow, Whole

-----------------------------------------------------------------------------
(* The three ways a turn goes on. *)

\* The provider is reset: no connection is left, and nothing reaches a worker.
LEMMA AfterReset ==
  ASSUME SqlInv, NEW e, NEW rs, ResetFor(e, rs), BlobsGrow,
         \/ stage' = "none"
         \/ stage' = stage /\ stage \notin WorkerStages /\ UNCHANGED <<host, conn, task, moved, pointer>>
  PROVE  Provider'
<1>1. ~up' /\ \A c \in Connections : conns'[c] = None
  BY DEF ResetFor
<1>2. CASE stage' = "none"
  BY <1>1, <1>2 DEF Provider, Prepared, Publishing, Kept, Undisturbed, OwnWorkerOnly, WorkerStages, PublishStages
<1>3. CASE stage' = stage /\ stage \notin WorkerStages /\ UNCHANGED <<host, conn, task, moved, pointer>>
  <2>1. \A v \in Revisions : Whole(v) => Whole(v)'
    BY DEF BlobsGrow, Whole
  <2>2. Prepared'
    BY <1>3, <2>1 DEF SqlInv, Prepared, WorkerStages
  <2>3. stage \in PublishStages => task \in Task /\ task.revision \in Revisions
    BY DEF SqlInv, Publishing, Task
  <2>4. Publishing'
    BY <1>1, <1>3, <2>1, <2>3 DEF SqlInv, Publishing, PublishStages, WorkerStages
  <2>5. (\A c \in Connections : Kept(c))' /\ Undisturbed' /\ OwnWorkerOnly'
    BY <1>1, <1>3 DEF SqlInv, Kept, Undisturbed, OwnWorkerOnly
  <2> QED BY <2>2, <2>4, <2>5 DEF Provider
<1> QED BY <1>2, <1>3

\* The request ends and the worker is as it was.
LEMMA AfterEnd ==
  ASSUME SqlInv, stage \notin PublishStages, stage' = "none", UNCHANGED <<chain, conns>>, BlobsGrow
  PROVE  Provider'
<1>1. (\A c \in Connections : Kept(c))'
  BY DEF SqlInv, Kept, BlobsGrow, Whole, Connection, Chain, PublishStages
<1>2. Prepared' /\ Publishing' /\ Undisturbed' /\ OwnWorkerOnly'
  BY DEF Prepared, Publishing, Undisturbed, OwnWorkerOnly, WorkerStages, PublishStages
<1> QED BY <1>1, <1>2 DEF Provider

\* The request goes on to its next await.
LEMMA AfterAwait ==
  ASSUME SqlInv, NEW s \in Stages, Awaits(s), UNCHANGED <<host, conn, worker>>, BlobsGrow,
         stage # "none", stage \in PublishStages => s \in PublishStages
  PROVE  (\A c \in Connections : Kept(c))' /\ OwnWorkerOnly' /\ TurnType' /\ WorkerType'
<1>1. (\A c \in Connections : Kept(c))'
  BY DEF SqlInv, Kept, BlobsGrow, Whole, Connection, Chain, Awaits, worker
<1>2. OwnWorkerOnly'
  BY DEF SqlInv, OwnWorkerOnly, Awaits, worker, turn, Running
<1>3. TypeOK /\ queue' = queue /\ aborted' = aborted /\ fresh' = fresh /\ answer' = "none"
  BY DEF SqlInv, Awaits, turn, Silent
<1>4. TurnType'
  BY <1>3 DEF TypeOK, TurnType, Answers, Awaits
<1> QED BY <1>1, <1>2, <1>4, <1>3, SameWorker

\* execute() catches a SqlStorageError, or another one.
LEMMA FailsKeeps ==
  ASSUME SqlInv, stage # "none", Fails, BlobsGrow, stage \notin PublishStages
  PROVE  Provider' /\ TurnType' /\ WorkerType'
<1>0. TypeOK /\ queue # <<>> /\ "aborted" \in Answers /\ "error" \in Answers /\ fresh \subseteq Requests /\ 0 \in Epochs \cup {0}
  BY DEF SqlInv, TypeOK, Answers
<1>1. CASE Reset /\ Ends("aborted")
  <2>1. WorkerType' /\ fresh' = {}
    BY <1>0, <1>1, ResetTypes DEF Reset
  <2>2. TurnType'
    BY <1>0, <1>1, <2>1, EndsTypes
  <2> QED BY <1>1, <2>1, <2>2, AfterReset DEF Reset, Ends
<1>2. CASE EndsQuietly("error") /\ UNCHANGED worker
  <2>1. TurnType'
    BY <1>0, <1>2, EndsTypes DEF EndsQuietly
  <2> QED BY <1>0, <1>2, <2>1, SameWorker, AfterEnd DEF EndsQuietly, Ends, worker
<1> QED BY <1>1, <1>2 DEF Fails

LEMMA ResetEnds ==
  ASSUME SqlInv, stage # "none", BlobsGrow, NEW a \in Answers, Reset, Ends(a)
  PROVE  Provider' /\ TurnType' /\ WorkerType'
<1>0. TypeOK /\ queue # <<>> /\ 0 \in Epochs \cup {0}
  BY DEF SqlInv, TypeOK
<1>1. WorkerType' /\ fresh' = {}
  BY <1>0, ResetTypes DEF Reset
<1>2. TurnType'
  BY <1>0, <1>1, EndsTypes
<1> QED BY <1>1, <1>2, AfterReset DEF Reset, Ends

LEMMA QuietEnds ==
  ASSUME SqlInv, queue # <<>>, stage \notin PublishStages, BlobsGrow, NEW a \in Answers, EndsQuietly(a),
         UNCHANGED <<chain, conns>>
  PROVE  Provider' /\ TurnType'
<1>0. TypeOK /\ fresh' \subseteq Requests
  BY DEF SqlInv, TypeOK, EndsQuietly
<1> QED BY <1>0, EndsTypes, AfterEnd DEF EndsQuietly, Ends

\* The material of an open is at hand.
LEMMA OpensKeeps ==
  ASSUME SqlInv, stage \in OpenStages, UNCHANGED <<host, conn, moved>>, BlobsGrow,
         NEW base \in Revisions, NEW db \in Revisions, NEW expected \in {db, None}, Opens(base, db, expected),
         blobs'[base] = "whole", blobs'[db] = "whole"
  PROVE  Provider' /\ TurnType' /\ WorkerType' /\ task' \in Task
<1>0. stage # "none" /\ stage \notin PublishStages /\ {"aborted", "failed"} \subseteq Answers /\ "executing" \in Stages
  BY DEF OpenStages, PublishStages, Answers, Stages
<1>1. task' \in Task
  BY DEF Opens, Task, Chain
<1>2. CASE Breaks
  BY <1>0, <1>1, <1>2, ResetEnds DEF Breaks
<1>3. CASE up /\ Awaits("executing") /\ UNCHANGED worker
  <2>1. (\A c \in Connections : Kept(c))' /\ OwnWorkerOnly' /\ TurnType' /\ WorkerType'
    BY <1>0, <1>3, AfterAwait
  <2>2. stage' = "executing" /\ up' /\ moved' = moved /\ ~moved
    BY <1>0, <1>3 DEF Awaits, worker, SqlInv, Publishing, OpenStages
  <2>3. Prepared'
    BY <2>2, <1>1 DEF Opens, Prepared, Whole, Linked
  <2>4. Publishing' /\ Undisturbed'
    BY <2>2 DEF Publishing, Undisturbed, PublishStages
  <2> QED BY <1>1, <2>1, <2>3, <2>4 DEF Provider
<1> QED BY <1>2, <1>3 DEF Opens, Refused

\* settle(false), or a reset if the worker cannot be told.
LEMMA RollsBackKeeps ==
  ASSUME SqlInv, stage \in {"blob", "pointer", "closing"}, UNCHANGED <<host, conn, task, moved>>, BlobsGrow, RollsBack
  PROVE  Provider' /\ TurnType' /\ WorkerType'
<1>0. /\ stage # "none" /\ stage \in PublishStages /\ {"aborted", "error"} \subseteq Answers
      /\ "rolling" \in Stages /\ "rolling" \in PublishStages
  BY DEF PublishStages, Answers, Stages
<1>1. CASE Reset /\ Ends(IF Running \in aborted THEN "aborted" ELSE "error")
  BY <1>0, <1>1, ResetEnds
<1>2. CASE up /\ Awaits("rolling") /\ UNCHANGED worker
  <2>1. (\A c \in Connections : Kept(c))' /\ OwnWorkerOnly' /\ TurnType' /\ WorkerType'
    BY <1>0, <1>2, AfterAwait
  <2>2. stage' = "rolling" /\ up' /\ UNCHANGED <<up, conns>>
    BY <1>2 DEF Awaits, worker
  <2>3. Prepared' /\ Undisturbed'
    BY <2>2 DEF Prepared, Undisturbed
  <2>4. Publishing'
    BY <1>0, <2>2 DEF SqlInv, Publishing, PublishStages
  <2> QED BY <2>1, <2>3, <2>4 DEF Provider
<1> QED BY <1>1, <1>2 DEF RollsBack, Refused

-----------------------------------------------------------------------------
(* The environment. *)

LEMMA SameStorage ==
  ASSUME SqlInv, UNCHANGED <<blobs, pointer>> PROVE BlobsGrow /\ PointerNamesBlob'
BY SameBlobs DEF SqlInv, PointerNamesBlob

LEMMA Assembled ==
  ASSUME Provider', TurnType', WorkerType', OtherType', PointerNamesBlob' PROVE SqlInv'
BY DEF Provider, TurnType, WorkerType, OtherType, SqlInv, TypeOK

\* Something happens beside the running request.
LEMMA Beside ==
  ASSUME SqlInv, UNCHANGED <<host, stage, conn, task, moved, up, chain, conns, blobs, pointer>>,
         stage # "none" => Head(queue') = Head(queue), fresh \subseteq fresh'
  PROVE  Provider'
<1>1. Prepared' /\ Publishing' /\ Undisturbed'
  BY DEF SqlInv, Prepared, Publishing, Undisturbed, Whole
<1>2. (\A c \in Connections : Kept(c))'
  BY DEF SqlInv, Kept, Whole
<1>3. OwnWorkerOnly'
  BY DEF SqlInv, OwnWorkerOnly, Running
<1> QED BY <1>1, <1>2, <1>3 DEF Provider

LEMMA SubmitKeeps ==
  ASSUME SqlInv, NEW r \in Requests, NEW epoch \in Epochs, Submit(r, epoch) PROVE SqlInv'
<1>1. BlobsGrow /\ PointerNamesBlob'
  BY SameStorage DEF Submit, storage
<1>2. OtherType'
  BY DEF Submit, storage, SqlInv, TypeOK, OtherType
<1>3. TypeOK /\ epoch \in Epochs \cup {0} /\ {"stale", "none"} \subseteq Answers
  BY DEF SqlInv, Answers
<1>4. CASE answer' = "stale" /\ UNCHANGED <<queue, aborted, fresh, stage, worker>>
  <2>1. Provider'
    BY <1>4, Beside DEF Submit, worker, storage
  <2>2. TurnType' /\ WorkerType'
    BY <1>3, <1>4, SameWorker DEF TypeOK, TurnType
  <2> QED BY <1>1, <1>2, <2>1, <2>2, Assembled
<1>5. CASE /\ queue' = Append(queue, r) /\ serving' = epoch /\ fresh' = fresh \cup {r} /\ Silent
           /\ UNCHANGED <<aborted, stage, up, dead, chain, conns>>
  <2>1. /\ queue' \in Seq(Requests) /\ queue' # <<>>
        /\ stage # "none" => Head(queue') = Head(queue)
    BY <1>3, <1>5, QueueGrows DEF TypeOK
  <2>2. Provider'
    BY <1>5, <2>1, Beside DEF Submit, storage
  <2>3. TurnType' /\ WorkerType'
    BY <1>3, <1>5, <2>1 DEF TypeOK, TurnType, WorkerType, Silent
  <2> QED BY <1>1, <1>2, <2>2, <2>3, Assembled
<1>6. CASE /\ stage \notin WorkerStages /\ queue' = Append(queue, r) /\ ResetFor(epoch, {r}) /\ Silent
           /\ UNCHANGED <<aborted, stage>>
  <2>1. queue' \in Seq(Requests) /\ queue' # <<>>
    BY <1>3, <1>6, QueueGrows DEF TypeOK
  <2>2. WorkerType' /\ fresh' = {r}
    BY <1>3, <1>6, ResetTypes
  <2>3. Provider'
    BY <1>1, <1>6, AfterReset DEF Submit, storage
  <2>4. TurnType'
    BY <1>3, <1>6, <2>1, <2>2 DEF TypeOK, TurnType, Silent
  <2> QED BY <1>1, <1>2, <2>2, <2>3, <2>4, Assembled
<1>7. CASE /\ stage \in WorkerStages /\ queue' = Append(Tail(queue), r) /\ answer' = Severed[stage]
           /\ (IF stage = "validating" THEN ResetFor(epoch, {r}) ELSE Reset)
           /\ stage' = "none" /\ UNCHANGED aborted
  <2>1. queue' \in Seq(Requests)
    BY <1>3, <1>7, QueueEnds, QueueGrows DEF TypeOK, WorkerStages
  <2>2. answer' \in Answers
    BY <1>7 DEF WorkerStages, Severed, Answers
  <2>3. WorkerType' /\ fresh' \subseteq Requests /\ Provider'
    <3>1. CASE ResetFor(epoch, {r})
      BY <1>1, <1>3, <1>7, <3>1, ResetTypes, AfterReset
    <3>2. CASE ResetFor(0, {})
      BY <1>1, <1>3, <1>7, <3>2, ResetTypes, AfterReset
    <3> QED BY <1>7, <3>1, <3>2 DEF Reset
  <2>4. TurnType'
    BY <1>3, <1>7, <2>1, <2>2, <2>3 DEF TypeOK, TurnType
  <2> QED BY <1>1, <1>2, <2>3, <2>4, Assembled
<1> QED BY <1>4, <1>5, <1>6, <1>7 DEF Submit

LEMMA AbortKeeps ==
  ASSUME SqlInv, NEW r \in Requests, Abort(r) PROVE SqlInv'
<1>1. BlobsGrow /\ PointerNamesBlob'
  BY SameStorage DEF Abort, storage
<1>2. OtherType'
  BY DEF Abort, storage, SqlInv, TypeOK, OtherType
<1>3. CASE stage \in WorkerStages /\ Reset /\ Ends(CutOff[stage])
  <2>1. CutOff[stage] \in Answers /\ stage # "none"
    BY <1>3 DEF WorkerStages, CutOff, Answers
  <2> QED BY <1>1, <1>2, <1>3, <2>1, ResetEnds, Assembled
<1>4. CASE aborted' = aborted \cup {r} /\ Silent /\ UNCHANGED <<queue, fresh, stage, worker>>
  <2>1. Provider'
    BY <1>4, Beside DEF Abort, worker, storage
  <2>2. TurnType' /\ WorkerType'
    BY <1>4, SameWorker DEF SqlInv, TypeOK, TurnType, Silent, Answers
  <2> QED BY <1>1, <1>2, <2>1, <2>2, Assembled
<1> QED BY <1>3, <1>4 DEF Abort

LEMMA ExternalResetKeeps == ASSUME SqlInv, ExternalReset PROVE SqlInv'
<1>1. BlobsGrow /\ PointerNamesBlob'
  BY SameStorage DEF ExternalReset, storage
<1>2. OtherType'
  BY DEF ExternalReset, storage, SqlInv, TypeOK, OtherType
<1>3. TypeOK /\ 0 \in Epochs \cup {0} /\ Waiting \subseteq Requests
  BY DEF SqlInv, TypeOK, Waiting
<1>4. WorkerType' /\ fresh' = {}
  BY <1>3, ResetTypes DEF ExternalReset, Reset
<1>5. Provider'
  BY <1>1, AfterReset DEF ExternalReset, Reset, storage
<1>6. TurnType'
  <2>1. CASE stage \in WorkerStages
    <3>1. CutOff[stage] \in Answers /\ queue # <<>>
      BY <1>3, <2>1 DEF WorkerStages, CutOff, Answers, TypeOK
    <3> QED BY <1>3, <1>4, <2>1, <3>1, QueueEnds DEF ExternalReset, TypeOK, TurnType
  <2>2. CASE stage \notin WorkerStages
    BY <1>3, <1>4, <2>2 DEF ExternalReset, TypeOK, TurnType, Silent, Answers
  <2> QED BY <2>1, <2>2
<1> QED BY <1>1, <1>2, <1>4, <1>5, <1>6, Assembled

LEMMA WorkerFailsKeeps ==
  ASSUME SqlInv, NEW dies \in BOOLEAN, WorkerFails(dies) PROVE SqlInv'
<1>1. BlobsGrow /\ PointerNamesBlob'
  BY SameStorage DEF WorkerFails, storage
<1>2. OtherType'
  BY DEF WorkerFails, storage, SqlInv, TypeOK, OtherType
<1>3. CASE stage \in WorkerStages \ {"validating"} /\ Reset /\ Ends(Severed[stage])
  <2>1. Severed[stage] \in Answers /\ stage # "none"
    BY <1>3 DEF WorkerStages, Severed, Answers
  <2> QED BY <1>1, <1>2, <1>3, <2>1, ResetEnds, Assembled
<1>4. CASE /\ stage = "validating" /\ EndsQuietly(Severed[stage]) /\ dead' = dies
           /\ UNCHANGED <<up, serving, chain, conns>>
  <2>1. Severed[stage] \in Answers /\ queue # <<>> /\ stage \notin PublishStages
    BY <1>4 DEF Severed, Answers, SqlInv, TypeOK, PublishStages
  <2>2. Provider' /\ TurnType'
    BY <1>1, <1>4, <2>1, QuietEnds
  <2>3. WorkerType'
    BY <1>4 DEF SqlInv, TypeOK, WorkerType
  <2> QED BY <1>1, <1>2, <2>2, <2>3, Assembled
<1>5. CASE dead' = TRUE /\ Silent /\ UNCHANGED <<turn, fresh, stage, up, serving, chain, conns>>
  <2>1. Provider'
    BY <1>5, Beside DEF WorkerFails, turn, storage
  <2>2. TurnType' /\ WorkerType'
    BY <1>5 DEF SqlInv, TypeOK, TurnType, WorkerType, Silent, Answers, turn
  <2> QED BY <1>1, <1>2, <2>1, <2>2, Assembled
<1> QED BY <1>3, <1>4, <1>5 DEF WorkerFails

LEMMA PageLostKeeps == ASSUME SqlInv, PageLost PROVE SqlInv'
<1>1. BlobsGrow /\ PointerNamesBlob'
  BY SameStorage DEF PageLost, storage
<1>2. OtherType'
  BY DEF PageLost, storage, SqlInv, TypeOK, OtherType
<1>3. TypeOK /\ 0 \in Epochs \cup {0}
  BY DEF SqlInv
<1>4. WorkerType' /\ fresh' = {}
  BY <1>3, ResetTypes DEF PageLost, Reset
<1>5. Provider'
  BY <1>1, AfterReset DEF PageLost, Reset
<1>6. TurnType'
  BY <1>4 DEF PageLost, TurnType, Silent, Answers
<1> QED BY <1>1, <1>2, <1>4, <1>5, <1>6, Assembled

\* Another window publishes, but not between check and replacement of the browser's write.
LEMMA OtherHostKeeps ==
  ASSUME SqlInv, NEW v \in Revisions, OtherHostPublishes(v) PROVE SqlInv'
<1>1. blobs' \in [Revisions -> {"missing", "empty", "whole"}] /\ BlobsGrow
  BY WritesGrow DEF SqlInv, OtherHostPublishes
<1>2. \A u \in Revisions : Whole(u) => Whole(u)'
  BY <1>1 DEF BlobsGrow, Whole
<1>3. UNCHANGED <<host, queue, aborted, fresh, stage, conn, task, moved, up, dead, serving, chain, conns>>
  BY DEF OtherHostPublishes, turn, worker
<1>4. TurnType' /\ WorkerType' /\ OtherType'
  BY <1>1, <1>3 DEF SqlInv, TypeOK, TurnType, WorkerType, OtherType, OtherHostPublishes, Silent, Answers
<1>5. PointerNamesBlob'
  BY DEF OtherHostPublishes, SqlInv, TypeOK, PointerNamesBlob
<1>6. Prepared'
  BY <1>2, <1>3 DEF SqlInv, Prepared, Task, Chain, Linked
<1>7. Publishing'
  BY <1>2, <1>3 DEF SqlInv, Publishing, Task, Linked, PublishStages
<1>8. (\A c \in Connections : Kept(c))'
  BY <1>2, <1>3 DEF SqlInv, Kept, Connection, Chain, Linked
<1>9. Undisturbed' /\ OwnWorkerOnly'
  BY <1>3 DEF SqlInv, Undisturbed, OwnWorkerOnly, Running, OtherHostPublishes
<1> QED BY <1>4, <1>5, <1>6, <1>7, <1>8, <1>9, Assembled DEF Provider

-----------------------------------------------------------------------------
(* An operation up to the worker. *)

LEMMA StartKeeps == ASSUME SqlInv, Start PROVE SqlInv'
<1>1. BlobsGrow /\ PointerNamesBlob'
  BY SameStorage DEF Start, storage
<1>2. OtherType'
  BY DEF Start, storage, SqlInv, TypeOK, OtherType
<1>3. /\ queue # <<>> /\ stage \notin PublishStages /\ {"stale", "aborted", "error"} \subseteq Answers
      /\ {"seed", "executing"} \subseteq Stages
  BY DEF Start, PublishStages, Answers, Stages, OpenStages
<1>4. ASSUME NEW a \in {"stale", "aborted", "error"}, EndsQuietly(a), UNCHANGED <<dead, serving, chain, conns>>,
             up' \in BOOLEAN
      PROVE  SqlInv'
  <2>1. Provider' /\ TurnType'
    BY <1>1, <1>3, <1>4, QuietEnds
  <2>2. WorkerType'
    BY <1>4 DEF SqlInv, TypeOK, WorkerType
  <2> QED BY <1>1, <1>2, <2>1, <2>2, Assembled
<1>5. CASE (EndsQuietly("stale") \/ EndsQuietly("aborted")) /\ UNCHANGED worker
  <2>1. up' \in BOOLEAN /\ UNCHANGED <<dead, serving, chain, conns>>
    BY <1>5 DEF worker, SqlInv, TypeOK
  <2> QED BY <1>4, <1>5, <2>1
<1>6. CASE EndsQuietly("error") /\ up' = TRUE /\ UNCHANGED <<dead, serving, chain, conns>>
  BY <1>4, <1>6
<1>7. ASSUME NEW s \in {"seed", "executing"}, Awaits(s), SameGeneration, up' = TRUE,
             UNCHANGED <<dead, serving, chain, conns>>
      PROVE  SqlInv'
  <2>1. stage = "none" /\ stage' = s /\ task' = None /\ moved' = FALSE /\ UNCHANGED <<blobs, queue, aborted, fresh>>
    BY <1>7 DEF Awaits, Start, turn, storage
  <2>2. Prepared' /\ Publishing' /\ Undisturbed'
    BY <1>7, <2>1 DEF Prepared, Publishing, Undisturbed, PublishStages
  <2>3. (\A c \in Connections : Kept(c))'
    BY <1>7, <2>1 DEF SqlInv, Kept, Whole, PublishStages
  <2>4. OwnWorkerOnly'
    BY <1>7, <2>1 DEF OwnWorkerOnly, SameGeneration, Running
  <2>5. TurnType' /\ WorkerType'
    BY <1>3, <1>7, <2>1 DEF SqlInv, TypeOK, TurnType, WorkerType, Awaits, Silent, Answers
  <2> QED BY <1>1, <1>2, <2>2, <2>3, <2>4, <2>5, Assembled DEF Provider
<1>8. CASE \E s \in {"seed", "executing"} : Awaits(s) /\ SameGeneration /\ up' = TRUE /\ UNCHANGED <<dead, serving, chain, conns>>
  BY <1>7, <1>8
<1>9. CASE SameGeneration /\ Running \notin aborted
  <2>1. /\ up' = TRUE /\ UNCHANGED <<dead, serving, chain, conns>>
        /\ EndsQuietly("error") \/ \E s \in {"seed", "executing"} : Awaits(s)
    BY <1>9 DEF Start
  <2>2. CASE EndsQuietly("error")
    BY <1>6, <2>1, <2>2
  <2>3. CASE \E s \in {"seed", "executing"} : Awaits(s)
    BY <1>8, <1>9, <2>1, <2>3
  <2> QED BY <2>1, <2>2, <2>3
<1>10. CASE ~SameGeneration \/ Running \in aborted
  <2>1. (EndsQuietly("stale") \/ EndsQuietly("aborted")) /\ UNCHANGED worker
    BY <1>10 DEF Start
  <2> QED BY <1>5, <2>1
<1> QED BY <1>9, <1>10

LEMMA SeedKeeps == ASSUME SqlInv, SeedRead \/ SeedValidated PROVE SqlInv'
<1>1. BlobsGrow /\ PointerNamesBlob'
  BY SameStorage DEF SeedRead, SeedValidated, storage
<1>2. OtherType'
  BY DEF SeedRead, SeedValidated, storage, SqlInv, TypeOK, OtherType
<1>3. stage \in {"seed", "validating"} /\ UNCHANGED <<host, conn, task, moved>>
  BY DEF SeedRead, SeedValidated
<1>4. stage # "none" /\ stage \notin PublishStages
  BY <1>3 DEF PublishStages
<1>5. CASE Fails
  BY <1>1, <1>2, <1>4, <1>5, FailsKeeps, Assembled
<1>6. ASSUME NEW s \in {"validating", "reading"}, Awaits(s), UNCHANGED worker, s = "validating" => up PROVE SqlInv'
  <2>1. s \in Stages
    BY <1>6 DEF Stages, OpenStages
  <2>2. (\A c \in Connections : Kept(c))' /\ OwnWorkerOnly' /\ TurnType' /\ WorkerType'
    BY <1>1, <1>3, <1>4, <1>6, <2>1, AfterAwait
  <2>3. stage' = s /\ up' = up /\ moved' = moved /\ ~moved
    BY <1>3, <1>6 DEF Awaits, worker, SqlInv, Publishing
  <2>4. Prepared' /\ Publishing' /\ Undisturbed'
    BY <1>6, <2>3 DEF Prepared, Publishing, Undisturbed, PublishStages, WorkerStages
  <2> QED BY <1>1, <1>2, <2>2, <2>4, Assembled DEF Provider
<1> QED BY <1>5, <1>6 DEF SeedRead, SeedValidated, Refused

LEMMA CurrentReadKeeps == ASSUME SqlInv, CurrentRead PROVE SqlInv'
<1>1. BlobsGrow /\ PointerNamesBlob'
  BY SameStorage DEF CurrentRead, storage
<1>2. stage = "reading" /\ UNCHANGED <<host, conn, moved, blobs, pointer>>
  BY DEF CurrentRead, storage
<1>3. stage # "none" /\ stage \notin PublishStages /\ stage \in OpenStages /\ "seeding" \in Stages
  BY <1>2 DEF PublishStages, OpenStages, Stages
<1>4. ASSUME task' \in Task \cup {None} PROVE OtherType'
  BY <1>2, <1>4 DEF SqlInv, TypeOK, OtherType
<1>5. CASE Fails /\ UNCHANGED task
  <2>1. OtherType'
    BY <1>4, <1>5 DEF SqlInv, TypeOK
  <2> QED BY <1>1, <1>3, <1>5, <2>1, FailsKeeps, Assembled
<1>6. ASSUME NEW base \in Revisions, NEW db \in Revisions, NEW expected \in {db, None},
             Opens(base, db, expected), Whole(base), Whole(db)
      PROVE  SqlInv'
  <2>1. Provider' /\ TurnType' /\ WorkerType' /\ task' \in Task
    BY <1>1, <1>2, <1>3, <1>6, OpensKeeps DEF Whole
  <2> QED BY <1>1, <1>4, <2>1, Assembled
<1>7. CASE /\ task' = [base |-> Seed, chain |-> [db |-> Seed, storage |-> None], revision |-> Seed]
           /\ Awaits("seeding") /\ UNCHANGED worker
  <2>1. task' \in Task /\ task'.revision = Seed
    BY <1>7 DEF Task, Chain
  <2>2. (\A c \in Connections : Kept(c))' /\ OwnWorkerOnly' /\ TurnType' /\ WorkerType'
    BY <1>1, <1>2, <1>3, <1>7, AfterAwait
  <2>3. stage' = "seeding" /\ moved' = moved /\ ~moved
    BY <1>2, <1>7 DEF Awaits, SqlInv, Publishing
  <2>4. Prepared' /\ Publishing' /\ Undisturbed'
    BY <2>1, <2>3 DEF Prepared, Publishing, Undisturbed, PublishStages, WorkerStages
  <2> QED BY <1>1, <1>4, <2>1, <2>2, <2>4, Assembled DEF Provider
<1>8. CASE pointer \in Revisions /\ blobs[pointer] = "whole" /\ Opens(pointer, pointer, pointer)
  BY <1>6, <1>8 DEF Whole
<1>9. ASSUME NEW exact \in Revisions, blobs[exact] = "whole",
             \/ pointer \in Revisions /\ Opens(exact, pointer, pointer)
             \/ pointer = "missing" /\ Opens(exact, exact, None)
      PROVE  SqlInv'
  BY <1>6, <1>9 DEF Whole, SqlInv, PointerNamesBlob
<1> QED BY <1>5, <1>7, <1>8, <1>9 DEF CurrentRead

-----------------------------------------------------------------------------
(* The two writes. *)

LEMMA BlobWrittenKeeps == ASSUME SqlInv, BlobWritten PROVE SqlInv'
<1>0. stage \in {"seeding", "blob"} /\ task \in Task /\ task.revision \in Revisions
  BY DEF BlobWritten, SqlInv, Prepared, Publishing, PublishStages, Task
<1>1. /\ blobs' \in [Revisions -> {"missing", "empty", "whole"}] /\ BlobsGrow
      /\ blobs'[task.revision] = "whole"
  BY <1>0, WritesGrow DEF BlobWritten, SqlInv, TypeOK
<1>2. UNCHANGED <<host, conn, task, moved, pointer>> /\ UNCHANGED worker
  BY DEF BlobWritten
<1>3. PointerNamesBlob' /\ OtherType'
  BY <1>1, <1>2 DEF SqlInv, TypeOK, OtherType, PointerNamesBlob, BlobsGrow, Whole
<1>4. ASSUME NEW s \in {"initializing", "pointer"}, Awaits(s), s = "initializing" <=> stage = "seeding" PROVE SqlInv'
  <2>1. s \in Stages /\ stage # "none" /\ (stage \in PublishStages => s \in PublishStages)
    BY <1>0, <1>4 DEF Stages, OpenStages, PublishStages
  <2>2. (\A c \in Connections : Kept(c))' /\ OwnWorkerOnly' /\ TurnType' /\ WorkerType'
    BY <1>1, <1>2, <1>4, <2>1, AfterAwait
  <2>3. stage' = s /\ UNCHANGED <<up, conns>>
    BY <1>2, <1>4 DEF Awaits, worker
  <2>4. Prepared'
    BY <1>0, <1>1, <1>2, <1>4, <2>3 DEF SqlInv, Prepared, Whole, WorkerStages
  <2>5. Publishing' /\ Undisturbed'
    BY <1>0, <1>1, <1>2, <1>4, <2>3 DEF SqlInv, Publishing, Undisturbed, Whole, PublishStages
  <2> QED BY <1>3, <2>2, <2>4, <2>5, Assembled DEF Provider
<1> QED BY <1>0, <1>4 DEF BlobWritten

LEMMA BlobFailsKeeps == ASSUME SqlInv, BlobFails PROVE SqlInv'
<1>0. stage \in {"seeding", "blob"} /\ task \in Task /\ task.revision \in Revisions
  BY DEF BlobFails, SqlInv, Prepared, Publishing, PublishStages, Task
<1>1. blobs' \in [Revisions -> {"missing", "empty", "whole"}] /\ BlobsGrow
  <2>1. CASE UNCHANGED blobs
    BY <2>1, SameBlobs DEF SqlInv, TypeOK
  <2>2. CASE blobs[task.revision] = "missing" /\ \E left \in {"whole", "empty"} :
               blobs' = [blobs EXCEPT ![task.revision] = left]
    BY <1>0, <2>2, WritesGrow DEF SqlInv
  <2> QED BY <2>1, <2>2 DEF BlobFails
<1>2. UNCHANGED <<host, conn, task, moved, pointer>>
  BY DEF BlobFails
<1>3. PointerNamesBlob' /\ OtherType'
  BY <1>1, <1>2 DEF SqlInv, TypeOK, OtherType, PointerNamesBlob, BlobsGrow, Whole
<1>4. CASE stage = "seeding" /\ Fails
  BY <1>1, <1>3, <1>4, FailsKeeps, Assembled DEF PublishStages
<1>5. CASE stage = "blob" /\ RollsBack
  BY <1>1, <1>2, <1>3, <1>5, RollsBackKeeps, Assembled
<1> QED BY <1>0, <1>4, <1>5 DEF BlobFails

LEMMA PointerCheckedKeeps == ASSUME SqlInv, PointerChecked PROVE SqlInv'
<1>0. host = "browser" /\ stage \in {"initializing", "pointer"} /\ task \in Task /\ task.revision \in Revisions
  BY DEF PointerChecked, SqlInv, Prepared, Publishing, PublishStages, Task
<1>1. UNCHANGED <<host, conn, task, moved, blobs>> /\ UNCHANGED worker /\ BlobsGrow
  BY SameBlobs DEF PointerChecked
<1>2. PointerNamesBlob' /\ OtherType'
  BY <1>1 DEF PointerChecked, SqlInv, TypeOK, OtherType, PointerNamesBlob
<1>3. ASSUME NEW s \in {"closing", "initClosing"}, Awaits(s), s = "closing" <=> stage = "pointer" PROVE SqlInv'
  <2>1. s \in Stages /\ stage # "none" /\ (stage \in PublishStages => s \in PublishStages)
    BY <1>0, <1>3 DEF Stages, OpenStages, PublishStages
  <2>2. (\A c \in Connections : Kept(c))' /\ OwnWorkerOnly' /\ TurnType' /\ WorkerType'
    BY <1>1, <1>3, <2>1, AfterAwait
  <2>3. stage' = s /\ UNCHANGED <<up, conns>>
    BY <1>1, <1>3 DEF Awaits, worker
  <2>4. Prepared'
    BY <1>0, <1>1, <1>3, <2>3 DEF SqlInv, Prepared, Whole, WorkerStages
  <2>5. Publishing'
    BY <1>0, <1>1, <1>3, <2>3 DEF SqlInv, Publishing, Whole, PublishStages
  <2>6. stage = "pointer" => pointer' \in {task.base, "malformed"}
    BY DEF PointerChecked, Precondition, SqlInv, Publishing, Linked
  <2>7. Undisturbed'
    BY <1>0, <1>1, <1>3, <2>3, <2>6 DEF Undisturbed
  <2> QED BY <1>2, <2>2, <2>4, <2>5, <2>7, Assembled DEF Provider
<1> QED BY <1>0, <1>3 DEF PointerChecked

\* The pointer is replaced by a whole revision.
LEMMA ReplacesKeeps ==
  ASSUME SqlInv, Replaces
  PROVE  /\ blobs' = blobs /\ BlobsGrow /\ task \in Task /\ pointer' = task.revision /\ Whole(task.revision)
         /\ pointer' \in Revisions /\ PointerNamesBlob'
<1>1. blobs' = blobs /\ pointer' = task.revision /\ stage \in {"initializing", "pointer", "initClosing", "closing"}
  BY DEF Replaces
<1>2. task \in Task /\ task.revision \in Revisions /\ Whole(task.revision)
  BY <1>1 DEF SqlInv, Prepared, Publishing, PublishStages, Task
<1> QED BY <1>1, <1>2, SameBlobs DEF PointerNamesBlob, Whole

LEMMA SeedInstalledKeeps == ASSUME SqlInv, SeedInstalled PROVE SqlInv'
<1>1. blobs' = blobs /\ BlobsGrow /\ pointer' \in Revisions /\ PointerNamesBlob' /\ Whole(Seed)
  BY ReplacesKeeps DEF SeedInstalled, SqlInv, Prepared, Initial
<1>2. stage \in OpenStages /\ UNCHANGED <<host, conn, moved>> /\ Opens(Seed, Seed, Seed) /\ blobs'[Seed] = "whole"
  BY <1>1 DEF SeedInstalled, Initial, OpenStages, Whole
<1>3. Provider' /\ TurnType' /\ WorkerType' /\ task' \in Task
  BY <1>1, <1>2, OpensKeeps
<1>4. OtherType'
  BY <1>1, <1>2, <1>3 DEF SqlInv, TypeOK, OtherType
<1> QED BY <1>1, <1>3, <1>4, Assembled

LEMMA PointerSwappedKeeps == ASSUME SqlInv, PointerSwapped PROVE SqlInv'
<1>1. /\ blobs' = blobs /\ BlobsGrow /\ task \in Task /\ pointer' \in Revisions /\ PointerNamesBlob'
      /\ Whole(task.revision) /\ task.revision \in Revisions
  BY ReplacesKeeps DEF PointerSwapped, Task
<1>2. stage \in {"pointer", "closing"} /\ stage # "none" /\ stage \in PublishStages /\ moved' = TRUE /\ UNCHANGED <<host, conn, task>>
  BY DEF PointerSwapped, Publication, PublishStages
<1>3. OtherType'
  BY <1>1, <1>2 DEF SqlInv, TypeOK, OtherType
<1>4. CASE Reset /\ Ends("committed")
  BY <1>1, <1>2, <1>3, <1>4, ResetEnds, Assembled DEF Answers
<1>5. CASE /\ up
           /\ chain' = [chain EXCEPT ![conn] = [db |-> task.revision, storage |-> task.revision]]
           /\ Awaits("settling") /\ UNCHANGED <<up, dead, serving, conns>>
  <2>1. /\ stage' = "settling" /\ UNCHANGED <<queue, aborted, fresh>> /\ answer' = "none"
        /\ chain'[conn] = [db |-> task.revision, storage |-> task.revision] /\ chain'[conn] \in Chain
        /\ chain' \in [Connections -> Chain \cup {None}]
        /\ \A c \in Connections : c # conn => chain'[c] = chain[c]
    <3>1. [db |-> task.revision, storage |-> task.revision] \in Chain
      BY <1>1 DEF Chain
    <3>2. chain \in [Connections -> Chain \cup {None}] /\ conn \in Connections
      BY DEF SqlInv, TypeOK
    <3> QED BY <1>5, <3>1, <3>2 DEF Awaits, turn, Silent
  <2>2. TurnType' /\ WorkerType'
    BY <1>2, <1>5, <2>1 DEF SqlInv, TypeOK, TurnType, WorkerType, Answers, Stages, PublishStages
  <2>3. Prepared' /\ Undisturbed'
    BY <1>5, <2>1 DEF Prepared, Undisturbed
  <2>4. Publishing'
    BY <1>1, <1>2, <1>5, <2>1 DEF SqlInv, Publishing, Whole, PublishStages
  <2>5. ASSUME NEW c \in Connections PROVE Kept(c)'
    <3>1. CASE c = conn
      BY <1>1, <1>2, <1>5, <2>1, <3>1 DEF SqlInv, Kept, Whole, Linked, PublishStages
    <3>2. CASE c # conn
      BY <1>1, <1>2, <1>5, <2>1, <3>2 DEF SqlInv, Kept, Whole, Linked, PublishStages
    <3> QED BY <3>1, <3>2
  <2>6. OwnWorkerOnly'
    BY <1>2, <1>5, <2>1 DEF SqlInv, OwnWorkerOnly, Running
  <2> QED BY <1>1, <1>3, <2>2, <2>3, <2>4, <2>5, <2>6, Assembled DEF Provider
<1> QED BY <1>4, <1>5 DEF PointerSwapped, Refused

LEMMA PointerRefusedKeeps == ASSUME SqlInv, PointerRefused PROVE SqlInv'
<1>1. BlobsGrow /\ PointerNamesBlob' /\ UNCHANGED <<host, conn, moved, blobs, pointer>>
  BY SameStorage DEF PointerRefused, storage
<1>2. ASSUME task' \in Task \cup {None} PROVE OtherType'
  BY <1>1, <1>2 DEF SqlInv, TypeOK, OtherType
<1>3. task \in Task \cup {None}
  BY DEF SqlInv, TypeOK
<1>4. CASE Initial /\ Fails /\ UNCHANGED task
  BY <1>1, <1>2, <1>3, <1>4, FailsKeeps, Assembled DEF Initial, PublishStages
<1>5. CASE stage = "initializing" /\ pointer = Seed /\ Opens(Seed, Seed, Seed)
  <2>1. blobs'[Seed] = "whole" /\ stage \in OpenStages
    BY <1>1, <1>5 DEF SqlInv, PointerNamesBlob, OpenStages
  <2> QED BY <1>1, <1>2, <1>5, <2>1, OpensKeeps, Assembled
<1>6. CASE Publication /\ RollsBack /\ UNCHANGED task
  BY <1>1, <1>2, <1>3, <1>6, RollsBackKeeps, Assembled DEF Publication
<1> QED BY <1>4, <1>5, <1>6 DEF PointerRefused

LEMMA OutcomeUnknownKeeps ==
  ASSUME SqlInv, NEW swapped \in BOOLEAN, OutcomeUnknown(swapped) PROVE SqlInv'
<1>1. BlobsGrow /\ PointerNamesBlob' /\ blobs' = blobs /\ pointer' \in Revisions \cup {"missing", "malformed"}
  <2>1. CASE swapped
    BY <2>1, ReplacesKeeps DEF OutcomeUnknown
  <2>2. CASE ~swapped
    BY <2>2, SameStorage DEF OutcomeUnknown, storage, SqlInv, TypeOK
  <2> QED BY <2>1, <2>2
<1>2. OtherType'
  BY <1>1 DEF OutcomeUnknown, SqlInv, TypeOK, OtherType
<1>3. CASE Initial /\ Fails
  BY <1>1, <1>2, <1>3, FailsKeeps, Assembled DEF Initial, PublishStages
<1>4. CASE Publication /\ UnknownEnds
  BY <1>1, <1>2, <1>4, ResetEnds, Assembled DEF Publication, UnknownEnds, Answers
<1> QED BY <1>3, <1>4 DEF OutcomeUnknown

-----------------------------------------------------------------------------
(* The worker's answers. *)

\* The request ends with a change of its own connection only.
LEMMA ConnectionEnds ==
  ASSUME SqlInv, queue # <<>>, blobs' = blobs, NEW a \in Answers, EndsQuietly(a),
         \A c \in Connections \ {conn} : conns'[c] = conns[c] /\ chain'[c] = chain[c],
         conn' = conn, Kept(conn)'
  PROVE  Provider' /\ TurnType'
<1>1. TypeOK /\ fresh' \subseteq Requests /\ stage' = "none"
  BY DEF SqlInv, TypeOK, EndsQuietly, Ends
<1>2. TurnType'
  BY <1>1, EndsTypes DEF EndsQuietly
<1>3. ASSUME NEW c \in Connections PROVE Kept(c)'
  <2>1. CASE c = conn
    BY <2>1
  <2>2. CASE c # conn
    BY <1>1, <2>2 DEF SqlInv, Kept, Whole
  <2> QED BY <2>1, <2>2
<1>4. Prepared' /\ Publishing' /\ Undisturbed' /\ OwnWorkerOnly'
  BY <1>1 DEF Prepared, Publishing, Undisturbed, OwnWorkerOnly, WorkerStages, PublishStages
<1> QED BY <1>2, <1>3, <1>4 DEF Provider

LEMMA OpenedKeeps == ASSUME SqlInv, Opened PROVE SqlInv'
<1>1. BlobsGrow /\ PointerNamesBlob' /\ blobs' = blobs
  BY SameStorage DEF Opened, storage
<1>2. OtherType'
  BY DEF Opened, storage, SqlInv, TypeOK, OtherType
<1>3. stage = "executing" /\ task # None /\ queue # <<>> /\ conn \in Connections /\ {"ok", "error"} \subseteq Answers
  BY DEF Opened, SqlInv, TypeOK, Answers
<1>4. CASE EndsQuietly("error") /\ UNCHANGED <<conns, chain>>
  <2>1. Provider' /\ TurnType'
    BY <1>1, <1>3, <1>4, QuietEnds DEF PublishStages
  <2>2. WorkerType'
    BY <1>4 DEF Opened, SqlInv, TypeOK, WorkerType
  <2> QED BY <1>1, <1>2, <2>1, <2>2, Assembled
<1>5. CASE /\ Becomes([live |-> task.base, durable |-> task.base, tx |-> FALSE, writing |-> FALSE])
           /\ chain' = [chain EXCEPT ![conn] = task.chain] /\ EndsQuietly("ok")
  <2>1. task \in Task /\ Whole(task.base) /\ Whole(task.chain.db) /\ Linked(task.chain)
    BY <1>3 DEF SqlInv, Prepared
  <2>2. /\ conns'[conn] = [live |-> task.base, durable |-> task.base, tx |-> FALSE, writing |-> FALSE]
        /\ conns'[conn] \in Connection /\ chain'[conn] = task.chain /\ task.chain \in Chain
        /\ \A c \in Connections \ {conn} : conns'[c] = conns[c] /\ chain'[c] = chain[c]
    BY <1>3, <1>5, <2>1 DEF Becomes, SqlInv, TypeOK, Task, Connection
  <2>3. WorkerType'
    BY <1>3, <1>5, <2>2 DEF Opened, SqlInv, TypeOK, WorkerType, Becomes
  <2>4. Kept(conn)' /\ conn' = conn
    BY <1>1, <2>1, <2>2 DEF Opened, Kept, Whole, Linked
  <2>5. Provider' /\ TurnType'
    BY <1>1, <1>3, <1>5, <2>2, <2>4, ConnectionEnds
  <2> QED BY <1>1, <1>2, <2>3, <2>5, Assembled
<1> QED BY <1>4, <1>5 DEF Opened

\* A connection takes a new state in storage's eyes: the same durable revision and chain.
LEMMA BecomesKeeps ==
  ASSUME SqlInv, conns[conn] # None, NEW s \in Connection, Becomes(s), s.durable = conns[conn].durable,
         ~s.tx /\ ~s.writing => s.live = s.durable,
         UNCHANGED <<conn, chain, blobs>>
  PROVE  /\ conns' \in [Connections -> Connection \cup {None}] /\ Kept(conn)'
         /\ \A c \in Connections \ {conn} : conns'[c] = conns[c] /\ chain'[c] = chain[c]
BY DEF Becomes, SqlInv, TypeOK, Kept, Whole, Linked

LEMMA ExecutedKeeps == ASSUME SqlInv, Executed PROVE SqlInv'
<1>1. BlobsGrow /\ PointerNamesBlob' /\ blobs' = blobs
  BY SameStorage DEF Executed, storage
<1>2. /\ stage = "executing" /\ task = None /\ queue # <<>> /\ conn \in Connections /\ {"ok", "error"} \subseteq Answers
      /\ UNCHANGED <<host, conn, moved, up, dead, serving, pointer>> /\ up /\ ~moved
  BY DEF Executed, storage, SqlInv, TypeOK, Answers, Prepared, Publishing, WorkerStages
<1>3. ASSUME task' \in Task \cup {None} PROVE OtherType'
  BY <1>1, <1>2, <1>3 DEF SqlInv, TypeOK, OtherType
<1>4. ASSUME conns' \in [Connections -> Connection \cup {None}], chain' \in [Connections -> Chain \cup {None}]
      PROVE  WorkerType'
  BY <1>2, <1>4 DEF SqlInv, TypeOK, WorkerType
<1>5. ASSUME NEW a \in {"ok", "error"}, EndsQuietly(a), UNCHANGED <<task, conns, chain>> PROVE SqlInv'
  <2>1. Provider' /\ TurnType'
    BY <1>1, <1>2, <1>5, QuietEnds DEF PublishStages
  <2> QED BY <1>1, <1>2, <1>3, <1>4, <1>5, <2>1, Assembled DEF SqlInv, TypeOK
<1>6. ASSUME NEW a \in {"ok", "error"}, EndsQuietly(a), UNCHANGED <<task, chain>>, conns[conn] # None,
             NEW s \in Connection, Becomes(s), s.durable = conns[conn].durable,
             ~s.tx /\ ~s.writing => s.live = s.durable
      PROVE  SqlInv'
  <2>1. /\ conns' \in [Connections -> Connection \cup {None}] /\ Kept(conn)'
        /\ \A c \in Connections \ {conn} : conns'[c] = conns[c] /\ chain'[c] = chain[c]
    BY <1>1, <1>2, <1>6, BecomesKeeps
  <2>2. Provider' /\ TurnType'
    BY <1>1, <1>2, <1>6, <2>1, ConnectionEnds
  <2> QED BY <1>1, <1>2, <1>3, <1>4, <1>6, <2>1, <2>2, Assembled DEF SqlInv, TypeOK
<1>7. ASSUME NEW v \in Revisions, NEW tx \in BOOLEAN, NEW writing \in BOOLEAN, conns[conn] # None, UNCHANGED chain,
             StatementRuns(v, tx, writing) \/ StatementFails(v, tx) \/ ReaderSteps(v)
      PROVE  SqlInv'
  <2>0. conns[conn] \in Connection /\ Whole(conns[conn].durable) /\ chain[conn] \in Chain /\ Linked(chain[conn])
        /\ (~conns[conn].tx /\ ~conns[conn].writing => conns[conn].live = conns[conn].durable)
    BY <1>2, <1>7 DEF SqlInv, Kept, PublishStages
  <2>1. CASE StatementRuns(v, tx, writing)
    <3> DEFINE s == [conns[conn] EXCEPT !.live = v, !.tx = tx, !.writing = writing]
    <3>1. s \in Connection /\ s.durable = conns[conn].durable /\ s.live = v /\ s.tx = tx /\ Becomes(s)
      BY <2>0, <2>1 DEF Connection, StatementRuns
    <3>2. CASE ~tx /\ v # conns[conn].durable
      <4>1. /\ task' = [base |-> conns[conn].durable, chain |-> chain[conn], revision |-> v]
            /\ Awaits(IF chain[conn].db = conns[conn].durable THEN "blob" ELSE "rolling")
        BY <2>1, <3>2 DEF StatementRuns, Publishes, FirstWrite
      <4>2. task' \in Task /\ UNCHANGED <<queue, aborted, fresh>> /\ answer' = "none"
        BY <2>0, <4>1 DEF Task, Connection, Awaits, turn, Silent
      <4>3. /\ stage' \in {"blob", "rolling"}
            /\ stage' = "blob" => chain[conn].db = conns[conn].durable
        BY <4>1 DEF Awaits
      <4>4. /\ conns' \in [Connections -> Connection \cup {None}] /\ conns'[conn] = s
            /\ \A c \in Connections \ {conn} : conns'[c] = conns[c]
        BY <1>2, <3>1 DEF Becomes, SqlInv, TypeOK
      <4>5. TurnType' /\ WorkerType' /\ OtherType'
        BY <1>3, <1>4, <1>7, <4>2, <4>3, <4>4, <1>2
           DEF SqlInv, TypeOK, TurnType, Answers, Stages, PublishStages
      <4>6. Prepared' /\ Undisturbed'
        BY <1>2, <4>3 DEF Prepared, Undisturbed
      <4>7. Publishing'
        BY <1>2, <2>0, <3>1, <3>2, <4>1, <4>2, <4>3, <4>4 DEF Publishing, PublishStages, Linked
      <4>8. ASSUME NEW c \in Connections PROVE Kept(c)'
        <5>1. CASE c = conn
          <6> HIDE DEF s
          <6>1. conn' = conn /\ conns'[conn].durable = conns[conn].durable /\ Whole(chain[conn].db)
            BY <1>2, <1>7, <3>1, <4>4 DEF SqlInv, Kept
          <6> QED BY <1>1, <1>7, <2>0, <3>1, <4>3, <4>4, <5>1, <6>1 DEF Kept, Whole, Linked, PublishStages
        <5>2. CASE c # conn
          BY <1>1, <1>2, <1>7, <4>3, <4>4, <5>2 DEF SqlInv, Kept, Whole, Linked, PublishStages
        <5> QED BY <5>1, <5>2
      <4>9. OwnWorkerOnly'
        BY <1>2, <4>2 DEF SqlInv, OwnWorkerOnly, Running
      <4> QED BY <1>1, <4>5, <4>6, <4>7, <4>8, <4>9, Assembled DEF Provider
    <3>3. CASE tx \/ v = conns[conn].durable
      <4>1. EndsQuietly("ok") /\ UNCHANGED task
        BY <2>1, <3>3 DEF StatementRuns
      <4> HIDE DEF s
      <4> QED BY <1>6, <1>7, <3>1, <3>3, <4>1
    <3> QED BY <3>2, <3>3
  <2>2. CASE StatementFails(v, tx)
    <3> DEFINE s == IF tx THEN [conns[conn] EXCEPT !.live = v, !.tx = TRUE]
                    ELSE [conns[conn] EXCEPT !.live = conns[conn].durable, !.tx = FALSE,
                                             !.writing = conns[conn].writing /\ v = conns[conn].durable]
    <3>1. s \in Connection /\ s.durable = conns[conn].durable /\ (~s.tx => s.live = s.durable)
      BY <2>0 DEF Connection
    <3>2. Becomes(s) /\ EndsQuietly("error") /\ UNCHANGED task
      BY <2>2 DEF StatementFails
    <3> HIDE DEF s
    <3> QED BY <1>6, <1>7, <3>1, <3>2
  <2>3. CASE ReaderSteps(v)
    <3> DEFINE s == [conns[conn] EXCEPT !.live = v, !.writing = TRUE]
    <3>1. s \in Connection /\ s.durable = conns[conn].durable /\ s.writing
      BY <2>0 DEF Connection
    <3>2. Becomes(s) /\ EndsQuietly("ok") /\ UNCHANGED task
      BY <2>3 DEF ReaderSteps
    <3> HIDE DEF s
    <3> QED BY <1>6, <1>7, <3>1, <3>2
  <2> QED BY <1>7, <2>1, <2>2, <2>3
<1>8. CASE Becomes(None) /\ chain' = [chain EXCEPT ![conn] = None] /\ EndsQuietly("ok") /\ UNCHANGED task
  <2>1. /\ conns' \in [Connections -> Connection \cup {None}] /\ chain' \in [Connections -> Chain \cup {None}]
        /\ conns'[conn] = None
        /\ \A c \in Connections \ {conn} : conns'[c] = conns[c] /\ chain'[c] = chain[c]
    BY <1>2, <1>8 DEF Becomes, SqlInv, TypeOK
  <2>2. Provider' /\ TurnType'
    BY <1>1, <1>2, <1>8, <2>1, ConnectionEnds DEF Kept
  <2> QED BY <1>1, <1>2, <1>3, <1>4, <1>8, <2>1, <2>2, Assembled DEF SqlInv, TypeOK
<1> QED BY <1>5, <1>7, <1>8 DEF Executed

LEMMA SettledKeeps == ASSUME SqlInv, Accepted \/ Rejected PROVE SqlInv'
<1>1. BlobsGrow /\ PointerNamesBlob' /\ blobs' = blobs
  BY SameStorage DEF Accepted, Rejected, storage
<1>2. OtherType'
  BY DEF Accepted, Rejected, storage, SqlInv, TypeOK, OtherType
<1>3. /\ stage \in {"settling", "rolling"} /\ queue # <<>> /\ conn \in Connections /\ {"ok", "error"} \subseteq Answers
      /\ UNCHANGED <<conn, up, dead, serving, chain>>
  BY DEF Accepted, Rejected, SqlInv, TypeOK, Answers
<1>4. conns[conn] \in Connection /\ conns[conn] # None /\ task \in Task
  BY <1>3 DEF SqlInv, Prepared, Publishing, WorkerStages, PublishStages
<1>5. ASSUME NEW a \in {"ok", "error"}, EndsQuietly(a), NEW s \in Connection, Becomes(s), Whole(s.durable),
             s.live = s.durable
      PROVE  SqlInv'
  <2>1. /\ conns' \in [Connections -> Connection \cup {None}] /\ conns'[conn] = s
        /\ \A c \in Connections \ {conn} : conns'[c] = conns[c] /\ chain'[c] = chain[c]
    BY <1>3, <1>5 DEF Becomes, SqlInv, TypeOK
  <2>2. Kept(conn)'
    BY <1>1, <1>3, <1>4, <1>5, <2>1 DEF SqlInv, Kept, Whole, Linked
  <2>3. Provider' /\ TurnType'
    BY <1>1, <1>3, <1>5, <2>1, <2>2, ConnectionEnds
  <2>4. WorkerType'
    BY <1>3, <2>1 DEF SqlInv, TypeOK, WorkerType
  <2> QED BY <1>1, <1>2, <2>3, <2>4, Assembled
<1>6. CASE Accepted
  <2> DEFINE s == [conns[conn] EXCEPT !.durable = task.revision]
  <2>1. conns[conn].live = task.revision /\ Whole(task.revision) /\ task.revision \in Revisions
    BY <1>4, <1>6 DEF Accepted, SqlInv, Prepared, Publishing, WorkerStages, PublishStages, Task
  <2>2. s \in Connection /\ s.durable = task.revision /\ s.live = s.durable
    BY <1>4, <2>1 DEF Connection
  <2>3. Becomes(s) /\ EndsQuietly("ok")
    BY <1>6 DEF Accepted
  <2> HIDE DEF s
  <2> QED BY <1>5, <2>1, <2>2, <2>3
<1>7. CASE Rejected
  <2> DEFINE s == RolledBack(conns[conn])
  <2>1. s \in Connection /\ s.durable = conns[conn].durable /\ s.live = s.durable
    BY <1>4 DEF Connection, RolledBack
  <2>2. Whole(conns[conn].durable)
    BY <1>3, <1>4 DEF SqlInv, Kept
  <2>3. Becomes(s) /\ EndsQuietly("error")
    BY <1>7 DEF Rejected
  <2> HIDE DEF s
  <2> QED BY <1>5, <2>1, <2>2, <2>3
<1> QED BY <1>6, <1>7

-----------------------------------------------------------------------------
(* The theorems. *)

LEMMA SqlInit == Init => SqlInv
<1> SUFFICES ASSUME Init PROVE SqlInv
  OBVIOUS
<1>1. TypeOK
  <2>1. <<>> \in Seq(Requests) /\ 0 \in Epochs \cup {0} /\ "none" \in Answers
    BY DEF Answers
  <2>2. chain \in [Connections -> Chain \cup {None}] /\ conns \in [Connections -> Connection \cup {None}]
        /\ blobs \in [Revisions -> {"missing", "empty", "whole"}]
    BY DEF Init
  <2> QED BY <2>1, <2>2 DEF Init, TypeOK
<1>2. Prepared /\ Publishing /\ Undisturbed /\ OwnWorkerOnly /\ PointerNamesBlob
  BY DEF Init, Prepared, Publishing, Undisturbed, OwnWorkerOnly, PointerNamesBlob, WorkerStages, PublishStages
<1>3. \A c \in Connections : Kept(c)
  BY DEF Init, Kept
<1> QED BY <1>1, <1>2, <1>3 DEF SqlInv

LEMMA NextKeeps == SqlInv /\ [Next]_vars => SqlInv'
<1> SUFFICES ASSUME SqlInv, [Next]_vars PROVE SqlInv'
  OBVIOUS
<1>1. CASE UNCHANGED vars
  <2>1. Provider'
    BY <1>1, Beside DEF vars, worker, storage, turn
  <2>2. TurnType' /\ WorkerType' /\ OtherType' /\ PointerNamesBlob'
    BY <1>1 DEF vars, worker, storage, turn, SqlInv, TypeOK, TurnType, WorkerType, OtherType, PointerNamesBlob
  <2> QED BY <2>1, <2>2, Assembled
<1>2. CASE Progress
  BY <1>2, StartKeeps, SeedKeeps, CurrentReadKeeps, BlobWrittenKeeps, BlobFailsKeeps, PointerCheckedKeeps,
     SeedInstalledKeeps, PointerSwappedKeeps, PointerRefusedKeeps, OutcomeUnknownKeeps, OpenedKeeps,
     ExecutedKeeps, SettledKeeps DEF Progress
<1>3. CASE Environment
  BY <1>3, SubmitKeeps, AbortKeeps, ExternalResetKeeps, PageLostKeeps, WorkerFailsKeeps, OtherHostKeeps DEF Environment
<1> QED BY <1>1, <1>2, <1>3 DEF Next

LEMMA Invariance == Spec => []SqlInv
BY SqlInit, NextKeeps, PTL DEF Spec

\* No crash, abort or failed write between the two writes leaves the pointer at a blob that is not
\* there in full (SqlStorage.publish, initialize).
THEOREM DatabaseReadable == Spec => []PointerNamesBlob
<1>1. SqlInv => PointerNamesBlob
  BY DEF SqlInv
<1> QED BY <1>1, Invariance, PTL

\* Between requests a connection shows its durable revision, which is in storage (settle in
\* sqlProvider.ts and sql.worker.ts).
THEOREM ShownIsDurable == Spec => []LiveIsDurable
<1>1. SqlInv => LiveIsDurable
  BY DEF SqlInv, Kept, Whole, LiveIsDurable, PublishStages
<1> QED BY <1>1, Invariance, PTL

\* What a reset leaves in the queue reaches no worker (the generation check of execute).
THEOREM NeverAnotherWorker == Spec => []OwnWorkerOnly
<1>1. SqlInv => OwnWorkerOnly
  BY DEF SqlInv
<1> QED BY <1>1, Invariance, PTL

\* Every variable keeps to its type: the queue, the cancelled and the fresh requests are
\* requests, connections and blobs are what sqlProvider.ts and storage hold.
THEOREM PublicationTypeCorrect == Spec => []TypeOK
<1>1. SqlInv => TypeOK
  BY DEF SqlInv, TypeOK, TurnType, WorkerType, OtherType
<1> QED BY <1>1, Invariance, PTL

-----------------------------------------------------------------------------
(* What a step may not do. *)

Truthful ==
  (answer' \in {"ok", "committed"} => moved') /\ (answer' \in {"error", "aborted"} => ~moved')

\* While the two writes are awaited nothing is moved; while the acceptance is, something is.
LEMMA MovedMeansSettling ==
  ASSUME SqlInv, stage \in PublishStages PROVE moved <=> stage = "settling"
BY DEF SqlInv, Publishing, PublishStages

\* A request that is cut off while it awaits the worker.
LEMMA CutOffIsTruthful ==
  ASSUME SqlInv, stage \in PublishStages, stage \in WorkerStages, moved' = moved,
         answer' = Severed[stage] \/ answer' = CutOff[stage]
  PROVE  Truthful
BY MovedMeansSettling DEF Truthful, Severed, CutOff, PublishStages, WorkerStages

LEMMA RollsBackIsTruthful ==
  ASSUME RollsBack, ~moved, moved' = moved, stage' = "none" PROVE Truthful
BY DEF RollsBack, Truthful, Ends, Awaits

LEMMA ProgressIsTruthful ==
  ASSUME SqlInv, Progress, stage \in PublishStages, stage' = "none" PROVE Truthful
<1>1. CASE BlobFails
  BY <1>1, MovedMeansSettling, RollsBackIsTruthful DEF BlobFails, PublishStages
<1>2. CASE PointerSwapped
  BY <1>2 DEF PointerSwapped, Awaits, Ends, Truthful
<1>3. CASE PointerRefused
  BY <1>3, MovedMeansSettling, RollsBackIsTruthful DEF PointerRefused, Initial, Publication, PublishStages
<1>4. CASE \E swapped \in BOOLEAN : OutcomeUnknown(swapped)
  BY <1>4 DEF OutcomeUnknown, UnknownEnds, Ends, Initial, PublishStages, Truthful
<1>5. CASE Accepted \/ Rejected
  BY <1>5, MovedMeansSettling DEF Accepted, Rejected, EndsQuietly, Ends, Truthful
<1>6. ~(Start \/ SeedRead \/ SeedValidated \/ CurrentRead \/ SeedInstalled \/ Opened \/ Executed)
  BY DEF Start, SeedRead, SeedValidated, CurrentRead, SeedInstalled, Initial, Opened, Executed, PublishStages
<1>7. ~(BlobWritten \/ PointerChecked)
  BY DEF BlobWritten, PointerChecked, Awaits
<1> QED BY <1>1, <1>2, <1>3, <1>4, <1>5, <1>6, <1>7 DEF Progress

LEMMA EnvironmentIsTruthful ==
  ASSUME SqlInv, Environment, ~PageLost, stage \in PublishStages, stage' = "none" PROVE Truthful
<1>0. stage # "none"
  BY DEF PublishStages
<1>1. ASSUME NEW r \in Requests, NEW epoch \in Epochs, Submit(r, epoch) PROVE Truthful
  <2>1. stage \in WorkerStages /\ answer' = Severed[stage] /\ moved' = moved
    BY <1>0, <1>1 DEF Submit
  <2> QED BY <2>1, CutOffIsTruthful
<1>2. ASSUME NEW r \in Requests, Abort(r) PROVE Truthful
  <2>1. stage \in WorkerStages /\ answer' = CutOff[stage] /\ moved' = moved
    BY <1>0, <1>2 DEF Abort, Ends
  <2> QED BY <2>1, CutOffIsTruthful
<1>3. CASE ExternalReset
  <2>1. stage \in WorkerStages /\ answer' = CutOff[stage] /\ moved' = moved
    BY <1>0, <1>3 DEF ExternalReset
  <2> QED BY <2>1, CutOffIsTruthful
<1>4. ASSUME NEW dies \in BOOLEAN, WorkerFails(dies) PROVE Truthful
  <2>1. moved' = moved
    BY <1>4 DEF WorkerFails
  <2>2. CASE stage \in WorkerStages \ {"validating"}
    <3>1. answer' = Severed[stage]
      BY <1>4, <2>2 DEF WorkerFails, Ends
    <3> QED BY <2>1, <2>2, <3>1, CutOffIsTruthful
  <2>3. stage # "validating"
    BY DEF PublishStages
  <2>4. CASE stage \notin WorkerStages
    <3>1. stage' = stage
      BY <1>4, <2>3, <2>4 DEF WorkerFails
    <3> QED BY <1>0, <3>1
  <2> QED BY <2>2, <2>3, <2>4
<1>5. ASSUME NEW v \in Revisions, OtherHostPublishes(v) PROVE Truthful
  BY <1>0, <1>5 DEF OtherHostPublishes
<1> QED BY <1>1, <1>2, <1>3, <1>4, <1>5 DEF Environment

\* Whatever cuts a publication short, the script is told success or "committed" only when the
\* pointer has moved, and a plain error only when it has not (publish in sqlProvider.ts).
THEOREM AnswersAreTrue == Spec => RepliesTruthfully
<1>1. SqlInv /\ [Next]_vars =>
        [~PageLost /\ stage \in PublishStages /\ stage' = "none"
           => /\ answer' \in {"ok", "committed"} => moved'
              /\ answer' \in {"error", "aborted"} => ~moved']_vars
  BY ProgressIsTruthful, EnvironmentIsTruthful DEF Next, Truthful
<1> QED BY <1>1, Invariance, PTL DEF Spec, RepliesTruthfully

LEMMA PublishedOnBase ==
  ASSUME SqlInv, Next, "browser" \notin SharedOn, moved', ~moved
  PROVE  pointer \in {task.base, "missing", "malformed"}
<1>1. CASE Publication /\ Replaces
  <2>1. CASE stage = "closing"
    BY <2>1 DEF SqlInv, Undisturbed
  <2>2. CASE stage = "pointer" /\ Precondition
    BY <2>2 DEF SqlInv, Publishing, Linked, Precondition
  <2> QED BY <1>1, <2>1, <2>2 DEF Publication, Replaces
<1>2. CASE Progress
  BY <1>1, <1>2 DEF Progress, Start, SeedRead, SeedValidated, CurrentRead, BlobWritten, BlobFails, PointerChecked,
    SeedInstalled, PointerSwapped, PointerRefused, OutcomeUnknown, Opened, Executed, Accepted, Rejected
<1>3. CASE Environment
  BY <1>3 DEF Environment, Submit, Abort, ExternalReset, PageLost, WorkerFails, OtherHostPublishes
<1> QED BY <1>2, <1>3 DEF Next

\* No update is lost where other windows replace the pointer in one step: a publication replaces
\* the revision its statement ran on (the precondition in SqlStorage.publish).
THEOREM UpdatesAreKept ==
  ASSUME "browser" \notin SharedOn
  PROVE  Spec => PublishesOnBase
<1>1. SqlInv /\ [Next]_vars => [moved' /\ ~moved => pointer \in {task.base, "missing", "malformed"}]_vars
  BY PublishedOnBase
<1> QED BY <1>1, Invariance, PTL DEF Spec, PublishesOnBase
=============================================================================
