----------------------------- MODULE ScanProofs -----------------------------
(***************************************************************************)
(* The scan, for any number of requests, workers and readers.  The shared  *)
(* index splits the requests: those behind it are untouched, and each one  *)
(* before it has a result, an error, or exactly one loop that works on it. *)
(* A loop ends only at the end of the index or after an abort; so when all *)
(* have ended without error or abort, every request has its result.        *)
(***************************************************************************)
EXTENDS ProjectScanPool, FiniteSetTheorems, TLAPS

USE SizesAssumption, AndroidsAssumption

Busy(l) == loop[l] # "ended"

\* Who works on what.
Working == \A l \in Loops : Busy(l) => item[l] \in 1..next - 1 /\ item[l] \notin result /\ error[item[l]] = "none"
Disjoint == \A l, m \in Loops : Busy(l) /\ Busy(m) /\ item[l] = item[m] => l = m
Untouched == \A i \in Requests : i >= next => i \notin result /\ error[i] = "none"
Covered ==
  \A i \in Requests : i < next => i \in result \/ error[i] # "none" \/ \E l \in Loops : Busy(l) /\ item[l] = i
Shared == Working /\ Disjoint /\ Untouched /\ Covered

\* What a loop that has ended means, and where a loop may be.
Ended ==
  /\ phase = "workers" =>
       \A l \in Loops : /\ l \notin Slots => ~Busy(l)
                        /\ l \in Slots /\ ~Busy(l) => next > N \/ aborted
                        /\ loop[l] = "bytes" => android
  /\ phase = "main" =>
       \A l \in Loops : loop[l] # "reply" /\ (~Busy(l) => next > N \/ aborted)
  /\ phase \in {"idle", "done"} => AllEnded

\* Where errors come from.
Causes ==
  /\ \A i \in Requests : /\ error[i] = "infrastructure" => broken \/ aborted
                         /\ error[i] = "abort" => aborted
                         /\ phase = "main" => error[i] \in {"none", "file"}
  /\ \A s \in Slots : /\ reply[s] = "infrastructure" => broken \/ aborted
                      /\ closed[s] /\ phase = "workers" => broken \/ aborted
                      /\ reply[s] = "abort" => aborted
                      /\ reply[s] = "waiting" => phase = "workers" /\ loop[s] = "reply"
  /\ phase = "idle" => ~aborted /\ result = {} /\ completed = 0 /\ next = 1
                       /\ (\A i \in Requests : error[i] = "none")
                       /\ (\A s \in Slots : ~closed[s] /\ reply[s] = "none")

\* Progress counts the results.
Counted == completed = Cardinality(result) /\ completed <= reported

\* An end is final.
Final == outcome # "none" => phase = "done"

ScanInv == TypeOK /\ Shared /\ Ended /\ Causes /\ Counted /\ Final /\ OutcomeTruthful /\ PoolReleased
-----------------------------------------------------------------------------
(* Turns of a loop. *)

\* The types of what a loop changes.
WorkType ==
  /\ loop \in [Loops -> {"file", "bytes", "reply", "ended"}] /\ item \in [Loops -> 0..N]
  /\ next \in 1..N + 1
  /\ result \subseteq Requests /\ error \in [Requests -> {"none", "file", "infrastructure", "abort"}]
  /\ completed \in 0..N /\ reported \in 0..N

Errors == {"file", "infrastructure", "abort"}

\* A loop that goes on takes the next request, or ends at the end of the index or the abort.
Moves(l) ==
  /\ \A m \in Loops : m # l => loop'[m] = loop[m] /\ item'[m] = item[m]
  /\ next' >= next
  /\ \/ loop'[l] = "ended" /\ next' = next /\ (next > N \/ aborted)
     \/ loop'[l] = "file" /\ item'[l] = next /\ next' = next + 1 /\ next <= N

LEMMA GoesOnMoves ==
  ASSUME WorkType, NEW l \in Loops, GoesOn(l)
  PROVE  /\ Moves(l)
         /\ loop' \in [Loops -> {"file", "bytes", "reply", "ended"}]
         /\ item' \in [Loops -> 0..N] /\ next' \in 1..N + 1
<1>1. CASE next <= N /\ ~aborted
  BY <1>1 DEF GoesOn, WorkType, Moves
<1>2. CASE ~(next <= N /\ ~aborted)
  BY <1>2 DEF GoesOn, WorkType, Moves
<1> QED BY <1>1, <1>2

\* The finished request keeps its place in the partition, and the new one enters it.
LEMMA MovesShare ==
  ASSUME WorkType, Shared, NEW l \in Loops, Busy(l), Moves(l), next' \in 1..N + 1,
         \/ result' = result \cup {item[l]} /\ error' = error
         \/ \E e \in Errors : result' = result /\ error' = [error EXCEPT ![item[l]] = e]
  PROVE  Shared'
<1>0. item[l] \in Requests /\ item[l] < next
  BY DEF Shared, Working, WorkType, Requests
<1>1. \A m \in Loops : m # l /\ Busy(m)' => Busy(m) /\ item'[m] = item[m] /\ item[m] # item[l]
  BY DEF Moves, Busy, Shared, Disjoint
<1>2. \A m \in Loops : m # l /\ Busy(m) => Busy(m)' /\ item'[m] = item[m]
  BY DEF Moves, Busy
<1>3. Busy(l)' => item'[l] = next /\ next' = next + 1 /\ next <= N
  BY DEF Moves, Busy
<1>4. \A i \in Requests : i # item[l] => error'[i] = error[i] /\ (i \in result' <=> i \in result)
  BY <1>0 DEF WorkType
<1>5. item[l] \in result' \/ error'[item[l]] # "none"
  BY <1>0 DEF WorkType, Errors
<1>6. next \in Nat /\ next' \in Nat /\ next' >= next
  BY DEF WorkType, Moves
<1>7. Working'
  <2> SUFFICES ASSUME NEW m \in Loops, Busy(m)'
               PROVE  item'[m] \in 1..next' - 1 /\ item'[m] \notin result' /\ error'[item'[m]] = "none"
    BY DEF Working
  <2>1. CASE m = l
    <3>1. next \in Requests /\ next # item[l]
      BY <1>0, <1>3, <1>6, <2>1 DEF Requests
    <3> QED BY <1>3, <1>4, <1>6, <2>1, <3>1 DEF Shared, Untouched, Requests
  <2>2. CASE m # l
    <3>1. item[m] \in Requests
      BY <1>1, <2>2 DEF Shared, Working, WorkType, Requests
    <3> QED BY <1>1, <1>4, <1>6, <2>2, <3>1 DEF Shared, Working
  <2> QED BY <2>1, <2>2
<1>8. Disjoint'
  <2> SUFFICES ASSUME NEW k \in Loops, NEW m \in Loops, Busy(k)', Busy(m)', item'[k] = item'[m] PROVE k = m
    BY DEF Disjoint
  <2>1. \A j \in Loops : Busy(j) => item[j] < next
    BY <1>6 DEF Shared, Working, WorkType
  <2> QED BY <1>1, <1>3, <1>6, <2>1 DEF Shared, Disjoint
<1>9. Untouched'
  BY <1>0, <1>4, <1>6 DEF Shared, Untouched, Requests
<1>10. Covered'
  <2> SUFFICES ASSUME NEW i \in Requests, i < next', i \notin result', error'[i] = "none"
               PROVE  \E m \in Loops : Busy(m)' /\ item'[m] = i
    BY DEF Covered
  <2>1. i # item[l]
    BY <1>5
  <2>2. CASE i < next
    <3>1. PICK m \in Loops : Busy(m) /\ item[m] = i
      BY <1>4, <2>1, <2>2 DEF Shared, Covered
    <3> QED BY <1>2, <2>1, <3>1
  <2>3. CASE ~(i < next)
    <3>1. i = next /\ next' = next + 1
      BY <1>6, <2>3 DEF Moves, Requests
    <3> QED BY <3>1, <1>6 DEF Moves, Busy
  <2> QED BY <2>2, <2>3
<1> QED BY <1>7, <1>8, <1>9, <1>10 DEF Shared

LEMMA SucceedsKeeps ==
  ASSUME WorkType, Shared, Counted, NEW l \in Loops, Busy(l), Succeeds(l)
  PROVE  WorkType' /\ Shared' /\ Counted' /\ Moves(l) /\ (result' = Requests => reported' = N)
<1>1. Moves(l) /\ loop' \in [Loops -> {"file", "bytes", "reply", "ended"}]
      /\ item' \in [Loops -> 0..N] /\ next' \in 1..N + 1
  BY GoesOnMoves DEF Succeeds
<1>2. Shared'
  BY <1>1, MovesShare DEF Succeeds
<1>3. item[l] \in Requests /\ item[l] \notin result
  BY DEF Shared, Working, WorkType, Requests
<1>4. IsFiniteSet(Requests) /\ Cardinality(Requests) = N
  BY FS_Interval DEF Requests
<1>5. IsFiniteSet(result)
  BY <1>4, FS_Subset DEF WorkType
<1>6. Cardinality(result') = Cardinality(result) + 1
  BY <1>3, <1>5, FS_AddElement DEF Succeeds
<1>7. result' \subseteq Requests
  BY <1>3 DEF Succeeds, WorkType
<1>8. Cardinality(result') <= N
  BY <1>4, <1>7, FS_Subset
<1>9. result' = Requests => Cardinality(result') = N
  BY <1>4
<1>10. completed' \in 0..N /\ reported' \in 0..N /\ completed' = Cardinality(result') /\ completed' <= reported'
  BY <1>6, <1>8 DEF Counted, Succeeds, WorkType
<1>11. result' = Requests => reported' = N
  BY <1>9, <1>10
<1> QED BY <1>1, <1>2, <1>7, <1>10, <1>11 DEF WorkType, Counted, Succeeds

LEMMA FailsKeeps ==
  ASSUME WorkType, Shared, Counted, NEW l \in Loops, Busy(l), NEW e \in Errors, Fails(l, e)
  PROVE  WorkType' /\ Shared' /\ Counted' /\ Moves(l)
<1>1. Moves(l) /\ loop' \in [Loops -> {"file", "bytes", "reply", "ended"}]
      /\ item' \in [Loops -> 0..N] /\ next' \in 1..N + 1
  BY GoesOnMoves DEF Fails
<1>2. Shared'
  BY <1>1, MovesShare DEF Fails
<1> QED BY <1>1, <1>2 DEF WorkType, Counted, Fails, Errors

LEMMA AwaitsKeeps ==
  ASSUME WorkType, Shared, Counted, NEW l \in Loops, Busy(l), NEW w \in {"bytes", "reply"}, Awaits(l, w)
  PROVE  WorkType' /\ Shared' /\ Counted'
<1>1. \A m \in Loops : Busy(m)' <=> Busy(m)
  BY DEF Awaits, WorkType, Busy
<1>2. Shared'
  BY <1>1 DEF Awaits, Shared, Working, Disjoint, Untouched, Covered
<1> QED BY <1>2 DEF Awaits, WorkType, Counted

LEMMA WorkStays ==
  ASSUME WorkType, Shared, Counted, UNCHANGED work
  PROVE  WorkType' /\ Shared' /\ Counted'
BY DEF work, WorkType, Shared, Working, Disjoint, Untouched, Covered, Counted, Busy

\* Both attempts begin with the first requests, one for each loop.
LEMMA BeginningsShare ==
  ASSUME WorkType, NEW K \in {Workers, Readers},
         loop' = [l \in Loops |-> IF l <= K THEN "file" ELSE "ended"],
         item' = [l \in Loops |-> IF l <= K THEN l ELSE 0], next' = K + 1,
         result' = {}, error' = [i \in Requests |-> "none"], completed' = 0, reported' = reported
  PROVE  WorkType' /\ Shared' /\ Counted'
<1>1. \A l \in Loops : /\ Busy(l)' <=> l <= K
                       /\ l <= K => item'[l] = l
  BY DEF Busy
<1>2. K \in Nat /\ K <= Readers /\ K <= N /\ Loops = 1..Readers /\ Requests = 1..N
  BY DEF Loops, Requests
<1>3. WorkType'
  BY <1>2 DEF WorkType
<1>4. Working' /\ Disjoint' /\ Untouched'
  BY <1>1, <1>2 DEF Working, Disjoint, Untouched
<1>5. Covered'
  BY <1>1, <1>2 DEF Covered
<1>6. Counted'
  BY FS_EmptySet DEF Counted, WorkType
<1> QED BY <1>3, <1>4, <1>5, <1>6 DEF Shared

LEMMA StartsKeeps ==
  ASSUME WorkType, result = {}, completed = 0, error = [i \in Requests |-> "none"], StartWorkers
  PROVE  WorkType' /\ Shared' /\ Counted'
<1>1. \A l \in Loops : l \in Slots <=> l <= Workers
  BY DEF Loops, Slots
<1> QED BY <1>1, BeginningsShare DEF StartWorkers

LEMMA MainKeeps ==
  ASSUME WorkType, StartsOnMainThread
  PROVE  WorkType' /\ Shared' /\ Counted'
<1>1. \A l \in Loops : l <= Readers
  BY DEF Loops
<1> QED BY <1>1, BeginningsShare DEF StartsOnMainThread

-----------------------------------------------------------------------------
(* Every step keeps the invariant.  What a turn does to its work is in the   *)
(* lemmas above; the rest is about the pool and the phase.                   *)

\* The types of the rest.
RestType ==
  /\ android \in Androids /\ phase \in {"idle", "workers", "main", "done"}
  /\ outcome \in {"none", "results", "failed", "aborted"} /\ aborted \in BOOLEAN
  /\ closed \in [Slots -> BOOLEAN]
  /\ reply \in [Slots -> {"none", "waiting", "scanned", "file", "infrastructure", "abort"}]
  /\ broken \in BOOLEAN

LEMMA TypeParts == TypeOK <=> WorkType /\ RestType
BY DEF TypeOK, WorkType, RestType

LEMMA TypePartsNext == TypeOK' <=> WorkType' /\ RestType'
BY DEF TypeOK, WorkType, RestType

LEMMA SlotsAreLoops == Slots \subseteq Loops /\ Slots # {} /\ 1 \in Slots
BY DEF Slots, Loops

LEMMA StartWorkersKeeps ==
  ASSUME ScanInv, StartWorkers
  PROVE  ScanInv'
<1>1. WorkType' /\ Shared' /\ Counted'
  BY StartsKeeps, TypeParts DEF ScanInv, Causes, StartWorkers, TypeOK
<1>2. RestType' /\ Ended'
  BY SlotsAreLoops DEF ScanInv, StartWorkers, pool, TypeOK, RestType, Ended, Causes, Busy, AllEnded
<1>3. Causes' /\ Final' /\ OutcomeTruthful' /\ PoolReleased'
  BY SlotsAreLoops DEF ScanInv, StartWorkers, pool, TypeOK, Causes, Final, OutcomeTruthful, PoolReleased, HasError, Orphaned
<1> QED BY <1>1, <1>2, <1>3, TypePartsNext DEF ScanInv

LEMMA PoolFailsKeeps ==
  ASSUME ScanInv, PoolFails
  PROVE  ScanInv'
<1>1. WorkType' /\ Shared' /\ Counted'
  BY MainKeeps, TypeParts DEF ScanInv, PoolFails
<1>2. RestType' /\ Ended'
  BY SlotsAreLoops DEF ScanInv, PoolFails, StartsOnMainThread, Closes, TypeOK, RestType, Ended, Causes, Busy, AllEnded
<1>3. Causes' /\ Final' /\ OutcomeTruthful' /\ PoolReleased'
  BY SlotsAreLoops DEF ScanInv, PoolFails, StartsOnMainThread, Closes, TypeOK, Causes, Final, OutcomeTruthful, PoolReleased, HasError, Orphaned
<1> QED BY <1>1, <1>2, <1>3, TypePartsNext DEF ScanInv

LEMMA AbortKeeps ==
  ASSUME ScanInv, Abort
  PROVE  ScanInv'
<1>1. WorkType' /\ Shared' /\ Counted'
  BY WorkStays, TypeParts DEF ScanInv, Abort
<1>2. RestType' /\ Ended'
  BY SlotsAreLoops DEF ScanInv, Abort, Closes, work, pool, TypeOK, RestType, Ended, Busy, AllEnded
<1>3. Causes' /\ Final' /\ OutcomeTruthful' /\ PoolReleased'
  BY SlotsAreLoops DEF ScanInv, Abort, Closes, work, pool, TypeOK, Causes, Final, OutcomeTruthful, PoolReleased, HasError, Orphaned
<1> QED BY <1>1, <1>2, <1>3, TypePartsNext DEF ScanInv

LEMMA AnswersKeeps ==
  ASSUME ScanInv, NEW s \in Slots, WorkerAnswers(s)
  PROVE  ScanInv'
<1>1. WorkType' /\ Shared' /\ Counted'
  BY WorkStays, TypeParts DEF ScanInv, WorkerAnswers
<1>2. RestType' /\ Ended'
  BY SlotsAreLoops DEF ScanInv, WorkerAnswers, Closes, work, pool, TypeOK, RestType, Ended, Busy, AllEnded
<1>3. Causes' /\ Final' /\ OutcomeTruthful' /\ PoolReleased'
  BY SlotsAreLoops DEF ScanInv, WorkerAnswers, Closes, work, pool, TypeOK, Causes, Final, OutcomeTruthful, PoolReleased, HasError, Orphaned
<1> QED BY <1>1, <1>2, <1>3, TypePartsNext DEF ScanInv

LEMMA WorkerFailsKeeps ==
  ASSUME ScanInv, NEW s \in Slots, WorkerFails(s)
  PROVE  ScanInv'
<1>1. WorkType' /\ Shared' /\ Counted'
  BY WorkStays, TypeParts DEF ScanInv, WorkerFails
<1>2. RestType' /\ Ended'
  BY SlotsAreLoops DEF ScanInv, WorkerFails, Closes, work, pool, TypeOK, RestType, Ended, Busy, AllEnded
<1>3. Causes' /\ Final' /\ OutcomeTruthful' /\ PoolReleased'
  BY SlotsAreLoops DEF ScanInv, WorkerFails, Closes, work, pool, TypeOK, Causes, Final, OutcomeTruthful, PoolReleased, HasError, Orphaned
<1> QED BY <1>1, <1>2, <1>3, TypePartsNext DEF ScanInv

\* A turn in the workers' phase that keeps the pool's promises.
LEMMA FileArrivesKeeps ==
  ASSUME ScanInv, NEW s \in Slots, FileArrives(s)
  PROVE  ScanInv'
<1>0. WorkType /\ Shared /\ Counted /\ s \in Loops /\ Busy(s) /\ {"file", "infrastructure"} \subseteq Errors
  BY TypeParts, SlotsAreLoops DEF ScanInv, FileArrives, Busy, Errors
<1>1. CASE Fails(s, "file") /\ UNCHANGED <<pool, broken>>
  <2>1. WorkType' /\ Shared' /\ Counted' /\ Moves(s)
    BY <1>0, <1>1, FailsKeeps
  <2>2. RestType' /\ Ended'
    BY <1>1, <2>1, SlotsAreLoops DEF ScanInv, FileArrives, Fails, Moves, pool, WorkType, TypeOK, RestType, Ended, Busy, AllEnded
  <2>3. Causes' /\ Final' /\ OutcomeTruthful' /\ PoolReleased'
    BY <1>0, <1>1, <2>1, SlotsAreLoops DEF ScanInv, FileArrives, Fails, Moves, pool, TypeOK, Causes, Final, OutcomeTruthful, PoolReleased, HasError, Orphaned, Shared, Working
  <2> QED BY <2>1, <2>2, <2>3, TypePartsNext DEF ScanInv
<1>2. CASE closed[s] /\ Fails(s, "infrastructure") /\ Closes(Slots, "infrastructure") /\ UNCHANGED broken
  <2>1. WorkType' /\ Shared' /\ Counted' /\ Moves(s)
    BY <1>0, <1>2, FailsKeeps
  <2>2. RestType' /\ Ended'
    BY <1>2, <2>1, SlotsAreLoops DEF ScanInv, FileArrives, Fails, Closes, Moves, WorkType, TypeOK, RestType, Ended, Busy, AllEnded
  <2>3. Causes' /\ Final' /\ OutcomeTruthful' /\ PoolReleased'
    BY <1>0, <1>2, <2>1, SlotsAreLoops DEF ScanInv, FileArrives, Fails, Closes, Moves, TypeOK, Causes, Final, OutcomeTruthful, PoolReleased, HasError, Orphaned, Shared, Working
  <2> QED BY <2>1, <2>2, <2>3, TypePartsNext DEF ScanInv
<1>3. CASE ~closed[s] /\ android /\ Awaits(s, "bytes") /\ UNCHANGED <<pool, broken>>
  <2>1. WorkType' /\ Shared' /\ Counted'
    BY <1>0, <1>3, AwaitsKeeps
  <2>2. RestType' /\ Ended'
    BY <1>3, SlotsAreLoops DEF ScanInv, FileArrives, Awaits, pool, TypeOK, RestType, Ended, Busy, AllEnded
  <2>3. Causes' /\ Final' /\ OutcomeTruthful' /\ PoolReleased'
    BY <1>3, SlotsAreLoops DEF ScanInv, FileArrives, Awaits, pool, TypeOK, Causes, Final, OutcomeTruthful, PoolReleased, HasError, Orphaned
  <2> QED BY <2>1, <2>2, <2>3, TypePartsNext DEF ScanInv
<1>4. CASE ~closed[s] /\ ~android /\ Submits(s)
  <2>1. WorkType' /\ Shared' /\ Counted'
    BY <1>0, <1>4, AwaitsKeeps DEF Submits
  <2>2. RestType' /\ Ended'
    BY <1>4, SlotsAreLoops DEF ScanInv, FileArrives, Submits, Awaits, TypeOK, RestType, Ended, Busy, AllEnded
  <2>3. Causes' /\ Final' /\ OutcomeTruthful' /\ PoolReleased'
    BY <1>4, SlotsAreLoops DEF ScanInv, FileArrives, Submits, Awaits, TypeOK, Causes, Final, OutcomeTruthful, PoolReleased, HasError, Orphaned
  <2> QED BY <2>1, <2>2, <2>3, TypePartsNext DEF ScanInv
<1> QED BY <1>1, <1>2, <1>3, <1>4 DEF FileArrives

LEMMA BytesArriveKeeps ==
  ASSUME ScanInv, NEW s \in Slots, BytesArrive(s)
  PROVE  ScanInv'
<1>0. WorkType /\ Shared /\ Counted /\ s \in Loops /\ Busy(s) /\ "file" \in Errors /\ android
  BY TypeParts, SlotsAreLoops DEF ScanInv, BytesArrive, Busy, Errors, Ended
<1>1. CASE Fails(s, "file") /\ UNCHANGED <<pool, broken>>
  <2>1. WorkType' /\ Shared' /\ Counted' /\ Moves(s)
    BY <1>0, <1>1, FailsKeeps
  <2>2. RestType' /\ Ended'
    BY <1>1, <2>1, SlotsAreLoops DEF ScanInv, BytesArrive, Fails, Moves, pool, WorkType, TypeOK, RestType, Ended, Busy, AllEnded
  <2>3. Causes' /\ Final' /\ OutcomeTruthful' /\ PoolReleased'
    BY <1>0, <1>1, <2>1, SlotsAreLoops DEF ScanInv, BytesArrive, Fails, Moves, pool, TypeOK, Causes, Final, OutcomeTruthful, PoolReleased, HasError, Orphaned, Shared, Working
  <2> QED BY <2>1, <2>2, <2>3, TypePartsNext DEF ScanInv
<1>2. CASE Submits(s)
  <2>1. WorkType' /\ Shared' /\ Counted'
    BY <1>0, <1>2, AwaitsKeeps DEF Submits
  <2>2. RestType' /\ Ended'
    BY <1>2, SlotsAreLoops DEF ScanInv, BytesArrive, Submits, Awaits, TypeOK, RestType, Ended, Busy, AllEnded
  <2>3. Causes' /\ Final' /\ OutcomeTruthful' /\ PoolReleased'
    BY <1>0, <1>2, SlotsAreLoops DEF ScanInv, BytesArrive, Submits, Awaits, TypeOK, Causes, Final, OutcomeTruthful, PoolReleased, HasError, Orphaned
  <2> QED BY <2>1, <2>2, <2>3, TypePartsNext DEF ScanInv
<1> QED BY <1>1, <1>2 DEF BytesArrive

LEMMA ReplyArrivesKeeps ==
  ASSUME ScanInv, NEW s \in Slots, ReplyArrives(s)
  PROVE  ScanInv'
<1>0. WorkType /\ Shared /\ Counted /\ s \in Loops /\ Busy(s) /\ Errors = {"file", "infrastructure", "abort"}
  BY TypeParts, SlotsAreLoops DEF ScanInv, ReplyArrives, Busy, Errors
<1>1. CASE reply[s] = "scanned" /\ Succeeds(s) /\ UNCHANGED pool
  <2>1. WorkType' /\ Shared' /\ Counted' /\ Moves(s)
    BY <1>0, <1>1, SucceedsKeeps
  <2>2. RestType' /\ Ended'
    BY <1>1, <2>1, SlotsAreLoops DEF ScanInv, ReplyArrives, Succeeds, Moves, pool, WorkType, TypeOK, RestType, Ended, Busy, AllEnded
  <2>3. Causes' /\ Final' /\ OutcomeTruthful' /\ PoolReleased'
    BY <1>0, <1>1, <2>1, SlotsAreLoops DEF ScanInv, ReplyArrives, Succeeds, Moves, pool, TypeOK, Causes, Final, OutcomeTruthful, PoolReleased, HasError, Orphaned
  <2> QED BY <2>1, <2>2, <2>3, TypePartsNext DEF ScanInv
<1>2. CASE reply[s] \in {"file", "abort"} /\ Fails(s, reply[s]) /\ UNCHANGED pool
  <2>1. WorkType' /\ Shared' /\ Counted' /\ Moves(s)
    BY <1>0, <1>2, FailsKeeps
  <2>2. RestType' /\ Ended'
    BY <1>2, <2>1, SlotsAreLoops DEF ScanInv, ReplyArrives, Fails, Moves, pool, WorkType, TypeOK, RestType, Ended, Busy, AllEnded
  <2>3. Causes' /\ Final' /\ OutcomeTruthful' /\ PoolReleased'
    BY <1>0, <1>2, <2>1, SlotsAreLoops DEF ScanInv, ReplyArrives, Fails, Moves, pool, TypeOK, Causes, Final, OutcomeTruthful, PoolReleased, HasError, Orphaned, Shared, Working
  <2> QED BY <2>1, <2>2, <2>3, TypePartsNext DEF ScanInv
<1>3. CASE reply[s] = "infrastructure" /\ Fails(s, "infrastructure") /\ Closes(Slots, "infrastructure")
  <2>1. WorkType' /\ Shared' /\ Counted' /\ Moves(s)
    BY <1>0, <1>3, FailsKeeps
  <2>2. RestType' /\ Ended'
    BY <1>3, <2>1, SlotsAreLoops DEF ScanInv, ReplyArrives, Fails, Closes, Moves, WorkType, TypeOK, RestType, Ended, Busy, AllEnded
  <2>3. Causes' /\ Final' /\ OutcomeTruthful' /\ PoolReleased'
    BY <1>0, <1>3, <2>1, SlotsAreLoops DEF ScanInv, ReplyArrives, Fails, Closes, Moves, TypeOK, Causes, Final, OutcomeTruthful, PoolReleased, HasError, Orphaned, Shared, Working
  <2> QED BY <2>1, <2>2, <2>3, TypePartsNext DEF ScanInv
<1> QED BY <1>1, <1>2, <1>3 DEF ReplyArrives

\* All loops have ended without error or abort: the index is used up, and what it covered has results.
LEMMA AllScanned ==
  ASSUME ScanInv, AllEnded, phase \in {"workers", "main"}, ~aborted, \A i \in Requests : error[i] = "none"
  PROVE  result = Requests /\ completed = N
<1>1. next > N
  BY SlotsAreLoops DEF ScanInv, Ended, AllEnded, Busy
<1>2. \A i \in Requests : i < next
  BY <1>1 DEF Requests, ScanInv, TypeOK
<1>3. \A i \in Requests : i \in result
  BY <1>2 DEF ScanInv, Shared, Covered, AllEnded, Busy
<1>4. result = Requests
  BY <1>3 DEF ScanInv, TypeOK
<1>5. Cardinality(Requests) = N
  BY FS_Interval DEF Requests
<1> QED BY <1>4, <1>5 DEF ScanInv, Counted

LEMMA WorkersEndKeeps ==
  ASSUME ScanInv, WorkersEnd
  PROVE  ScanInv'
<1>0. WorkType /\ Shared /\ Counted
  BY TypeParts DEF ScanInv
<1>1. CASE ~aborted /\ HasError("infrastructure") /\ StartsOnMainThread
  <2>1. WorkType' /\ Shared' /\ Counted'
    BY <1>0, <1>1, MainKeeps
  <2>2. RestType' /\ Ended'
    BY <1>1 DEF ScanInv, WorkersEnd, StartsOnMainThread, Closes, TypeOK, RestType, Ended, Busy, AllEnded
  <2>3. Causes' /\ Final' /\ OutcomeTruthful' /\ PoolReleased'
    BY <1>1, SlotsAreLoops DEF ScanInv, WorkersEnd, AllEnded, StartsOnMainThread, Closes, TypeOK, Causes, Final, OutcomeTruthful, PoolReleased, HasError, Orphaned
  <2> QED BY <2>1, <2>2, <2>3, TypePartsNext DEF ScanInv
<1>2. ASSUME NEW o \in {"aborted", "failed", "results"}, Settles(o),
             o = "aborted" => aborted, o # "aborted" => ~aborted, o = "failed" => HasError("file"),
             o = "results" => \A i \in Requests : error[i] = "none"
      PROVE  ScanInv'
  <2>1. WorkType' /\ Shared' /\ Counted'
    BY <1>0, <1>2, WorkStays DEF Settles
  <2>2. RestType' /\ Ended'
    BY <1>2 DEF ScanInv, WorkersEnd, Settles, Closes, work, TypeOK, RestType, Ended, Busy, AllEnded
  <2>3. o = "results" => result = Requests /\ completed = N
    BY <1>2, AllScanned DEF WorkersEnd
  <2>4. OutcomeTruthful'
    BY <1>2, <2>3 DEF ScanInv, WorkersEnd, Settles, work, TypeOK, Counted, OutcomeTruthful, HasError
  <2>5. Causes' /\ Final' /\ PoolReleased'
    BY <1>2, SlotsAreLoops DEF ScanInv, WorkersEnd, Settles, Closes, work, TypeOK, Causes, Final, PoolReleased, Orphaned, AllEnded
  <2> QED BY <2>1, <2>2, <2>4, <2>5, TypePartsNext DEF ScanInv
<1> QED BY <1>1, <1>2 DEF WorkersEnd, WorkersSettle

LEMMA MainReadsKeeps ==
  ASSUME ScanInv, NEW l \in Loops, MainReads(l)
  PROVE  ScanInv'
<1>0. WorkType /\ Shared /\ Counted /\ Busy(l) /\ "file" \in Errors
  BY TypeParts DEF ScanInv, MainReads, Busy, Errors
<1>1. CASE Fails(l, "file")
  <2>1. WorkType' /\ Shared' /\ Counted' /\ Moves(l)
    BY <1>0, <1>1, FailsKeeps
  <2>2. RestType' /\ Ended'
    BY <1>1, <2>1 DEF ScanInv, MainReads, Fails, Moves, pool, WorkType, TypeOK, RestType, Ended, Busy, AllEnded
  <2>3. Causes' /\ Final' /\ OutcomeTruthful' /\ PoolReleased'
    BY <1>0, <1>1, <2>1, SlotsAreLoops DEF ScanInv, MainReads, Fails, Moves, pool, TypeOK, Causes, Ended, Final, OutcomeTruthful, PoolReleased, HasError, Orphaned, Shared, Working
  <2> QED BY <2>1, <2>2, <2>3, TypePartsNext DEF ScanInv
<1>2. CASE Succeeds(l)
  <2>1. WorkType' /\ Shared' /\ Counted' /\ Moves(l)
    BY <1>0, <1>2, SucceedsKeeps
  <2>2. RestType' /\ Ended'
    BY <1>2, <2>1 DEF ScanInv, MainReads, Succeeds, Moves, pool, WorkType, TypeOK, RestType, Ended, Busy, AllEnded
  <2>3. Causes' /\ Final' /\ OutcomeTruthful' /\ PoolReleased'
    BY <1>0, <1>2, <2>1, SlotsAreLoops DEF ScanInv, MainReads, Succeeds, Moves, pool, TypeOK, Causes, Ended, Final, OutcomeTruthful, PoolReleased, HasError, Orphaned
  <2> QED BY <2>1, <2>2, <2>3, TypePartsNext DEF ScanInv
<1>3. CASE loop[l] = "file" /\ Awaits(l, "bytes")
  <2>1. WorkType' /\ Shared' /\ Counted'
    BY <1>0, <1>3, AwaitsKeeps
  <2>2. RestType' /\ Ended'
    BY <1>3 DEF ScanInv, MainReads, Awaits, pool, TypeOK, RestType, Ended, Busy, AllEnded
  <2>3. Causes' /\ Final' /\ OutcomeTruthful' /\ PoolReleased'
    BY <1>3, SlotsAreLoops DEF ScanInv, MainReads, Awaits, pool, TypeOK, Causes, Ended, Final, OutcomeTruthful, PoolReleased, HasError, Orphaned
  <2> QED BY <2>1, <2>2, <2>3, TypePartsNext DEF ScanInv
<1> QED BY <1>1, <1>2, <1>3 DEF MainReads

LEMMA MainEndsKeeps ==
  ASSUME ScanInv, MainEnds
  PROVE  ScanInv'
<1>1. PICK o \in {"aborted", "failed", "results"} :
         /\ Settles(o) /\ (o = "aborted" => aborted) /\ (o # "aborted" => ~aborted)
         /\ (o = "failed" => HasError("file")) /\ (o = "results" => ~HasError("file"))
  BY DEF MainEnds
<1>2. WorkType' /\ Shared' /\ Counted'
  BY <1>1, WorkStays, TypeParts DEF Settles, ScanInv
<1>3. RestType' /\ Ended'
  BY <1>1 DEF ScanInv, MainEnds, Settles, pool, work, TypeOK, RestType, Ended, Busy, AllEnded
<1>4. o = "results" => result = Requests /\ completed = N
  BY <1>1, AllScanned DEF MainEnds, ScanInv, Causes, HasError
<1>5. OutcomeTruthful'
  BY <1>1, <1>4 DEF ScanInv, MainEnds, Settles, work, TypeOK, Counted, OutcomeTruthful, HasError
<1>6. Causes' /\ Final' /\ PoolReleased'
  BY <1>1, SlotsAreLoops DEF ScanInv, MainEnds, Settles, pool, work, TypeOK, Causes, Final, PoolReleased, Orphaned, AllEnded
<1> QED BY <1>2, <1>3, <1>5, <1>6, TypePartsNext DEF ScanInv

LEMMA InitEstablishes == Init => ScanInv
<1> SUFFICES ASSUME Init PROVE ScanInv
  OBVIOUS
<1>0. TypeOK
  <2>1. 0 \in 0..N /\ 1 \in 1..N + 1
    OBVIOUS
  <2> QED BY <2>1 DEF Init, TypeOK
<1>1. Ended /\ Causes /\ Final /\ OutcomeTruthful /\ PoolReleased
  BY SlotsAreLoops DEF Init, Ended, Causes, Final, OutcomeTruthful, PoolReleased, Busy, AllEnded, HasError, Orphaned
<1>2. Shared
  BY DEF Init, Shared, Working, Disjoint, Untouched, Covered, Requests, Busy
<1>3. Counted
  BY FS_EmptySet DEF Init, Counted
<1> QED BY <1>0, <1>1, <1>2, <1>3 DEF ScanInv

LEMMA NextKeeps == ScanInv /\ [Next]_vars => ScanInv'
<1> SUFFICES ASSUME ScanInv, [Next]_vars PROVE ScanInv'
  OBVIOUS
<1>1. CASE UNCHANGED vars
  BY <1>1 DEF vars, pool, work, ScanInv, TypeOK, Shared, Working, Disjoint, Untouched, Covered, Ended, Causes,
    Counted, Final, OutcomeTruthful, PoolReleased, Busy, AllEnded, HasError, Orphaned
<1>2. ASSUME NEW s \in Slots, Turn(s) \/ Worker(s) PROVE ScanInv'
  BY <1>2, FileArrivesKeeps, BytesArriveKeeps, ReplyArrivesKeeps, AnswersKeeps, WorkerFailsKeeps DEF Turn, Worker
<1> QED BY <1>1, <1>2, StartWorkersKeeps, PoolFailsKeeps, AbortKeeps, WorkersEndKeeps, MainEndsKeeps, MainReadsKeeps
        DEF Next, Done

-----------------------------------------------------------------------------
(* The theorems. *)

LEMMA Invariance == Spec => []ScanInv
BY InitEstablishes, NextKeeps, PTL DEF Spec

\* Types hold, and the shared index never hands out a request that does not exist.
THEOREM ScanTypeCorrect == Spec => []TypeOK
<1>1. ScanInv => TypeOK
  BY DEF ScanInv
<1> QED BY <1>1, Invariance, PTL

\* What the scan returns is complete, and tells what happened (scanWithWorkers, scanOnMainThread).
THEOREM ScanIsTruthful == Spec => []OutcomeTruthful
<1>1. ScanInv => OutcomeTruthful
  BY DEF ScanInv
<1> QED BY <1>1, Invariance, PTL

\* No worker outlives its attempt, and only Android can orphan a loop (slot.close, slot.scan).
THEOREM PoolAlwaysReleased == Spec => []PoolReleased
<1>1. ScanInv => PoolReleased
  BY DEF ScanInv
<1> QED BY <1>1, Invariance, PTL
=============================================================================
