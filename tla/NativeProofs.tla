---------------------------- MODULE NativeProofs ----------------------------
(***************************************************************************)
(* What holds of the native host for any number of threads, projects,      *)
(* commands and requests.  A mutex belongs to exactly the commands whose   *)
(* place in the code holds it (LockInv); hence whoever changes a slot is   *)
(* alone with it (SlotInv), and nobody shuts the SQL host down, and clears *)
(* the cancellation, under a statement (SqlInv).                           *)
(***************************************************************************)
EXTENDS NativeHost, TLAPS

\* The mutexes a command holds at a place.
Holds(place, k) ==
  \/ k = "session" /\ place \in {"pumpStorage", "pumpProject", "pumpSql", "drive", "savesStorage"}
  \/ k = "storage" /\ place \in {"pumpProject", "pumpSql", "drive", "requestProject", "serve",
                                 "installProject"}
  \/ k = "project" /\ place \in {"pumpSql", "drive", "serve"}
  \/ k = "sql" /\ place = "drive"

LockInv == \A c \in Commands, k \in Locks : lock[k] = c <=> Holds(pc[c], k)

\* At most one operation is under way.
OperationInv == \A c, d \in Commands : pc[c] \in Operations /\ pc[d] \in Operations => c = d

Emptied == {"takeProject", "shutdown", "load", "install", "installProject", "renew"}

SlotInv ==
  /\ storage # None => project = storage /\ loaded \in {None, storage}
  /\ \A c \in Commands :
       /\ pc[c] \in {"pumpStorage", "pumpProject", "pumpSql", "drive"} => loaded # None
       /\ pc[c] = "drive" => storage # None
       /\ pc[c] \in Emptied => storage = None
       /\ pc[c] \in {"install", "installProject"} => loaded = target

SqlInv ==
  /\ stage # "off" => lock["sql"] # None
  /\ outcome = 0 => disk = "none"
  /\ outcome = 2 => disk = "whole"
  /\ late \in {0, 1}
  /\ stage # "off" /\ late = 1 => Cut /\ stage \notin {"creating", "storage", "entering"}
  /\ stage = "off" /\ answer = "not_committed" => disk = "none"
  /\ stage = "off" /\ answer = "committed" => disk = "whole"

HostInv == TypeOK /\ LockInv /\ OperationInv /\ SlotInv /\ SqlInv

-----------------------------------------------------------------------------
LEMMA HostInit == Init => HostInv
<1> SUFFICES ASSUME Init PROVE HostInv
  OBVIOUS
<1>1. TypeOK
  <2>1. 0 \in 0..MaxRequests /\ 0 \in 0..MaxStarts /\ 0 \in 0..2 /\ 0 \in Nat
    BY BoundsAssumption, SMT
  <2>2. pc \in [Commands -> Places] /\ lock \in [Locks -> Commands \cup {None}]
    BY DEF Init, Places
  <2> QED  BY <2>1, <2>2, Zenon DEF Init, TypeOK
<1>2. LockInv
  BY NoneAssumption DEF Init, LockInv, Holds
<1>3. OperationInv
  BY DEF Init, OperationInv, Operations
<1>4. SlotInv
  BY DEF Init, SlotInv, Emptied
<1>5. SqlInv
  BY DEF Init, SqlInv
<1> QED  BY <1>1, <1>2, <1>3, <1>4, <1>5 DEF HostInv

-----------------------------------------------------------------------------
(* Types.  Where a mutex is kept, its table and the places are typed apart.   *)
LEMMA TypeStep == HostInv /\ [Next]_vars => TypeOK'
<1> SUFFICES ASSUME HostInv, [Next]_vars PROVE TypeOK'
  OBVIOUS
<1> USE BoundsAssumption DEF HostInv, TypeOK, Places, Operations, slots, cancelVars, guardVars,
         sqlVars
<1>1. ASSUME NEW c \in Commands, Starts(c) PROVE TypeOK'
  BY <1>1 DEF Starts, Start, At, Moves
<1>2. ASSUME NEW c \in Commands, Retires(c) PROVE TypeOK'
  <2>1. CASE Cancels(c, "cancelRuntime", "cutRuntime")
    BY <2>1 DEF Cancels, At, Moves
  <2>2. CASE Cuts(c, "cutRuntime", "take")
    BY <2>2 DEF Cuts, At, Moves
  <2>3. CASE TakesSession(c)
    BY <2>3 DEF TakesSession, At, Moves, Within
  <2>4. CASE Cancels(c, "cancel", "cut")
    BY <2>4 DEF Cancels, At, Moves
  <2>5. CASE Cuts(c, "cut", "takeStorage")
    BY <2>5 DEF Cuts, At, Moves
  <2>6. CASE TakesStorage(c)
    BY <2>6 DEF TakesStorage, At, Moves, Within
  <2>7. CASE TakesProject(c)
    BY <2>7 DEF TakesProject, At, Moves, Within
  <2>8. CASE ShutsDown(c)
    <3>1. cancelled' \in BOOLEAN /\ provider' \in BOOLEAN /\ expired' \in BOOLEAN
      BY <2>8 DEF ShutsDown, At, Moves, Returns
    <3>2. handle' \in {"none", "live", "cut"}
      BY <2>8 DEF ShutsDown, At, Moves, Returns
    <3> QED  BY <3>1, <3>2, <2>8 DEF ShutsDown, At, Moves, Returns
  <2>9. CASE Renews(c)
    BY <2>9 DEF Renews, At, Moves, Returns
  <2>10. CASE Loads(c)
    BY <2>10 DEF Loads, At, Moves, Returns
  <2>11. CASE InstallsStorage(c)
    <3>1. pc' \in [Commands -> Places]
      BY <2>11 DEF InstallsStorage, At, Moves
    <3>2. lock' \in [Locks -> Commands \cup {None}]
      BY <2>11 DEF InstallsStorage, Locking, Locks
    <3> QED  BY <3>1, <3>2, <2>11 DEF InstallsStorage
  <2>12. CASE InstallsProject(c)
    BY <2>12 DEF InstallsProject, At, Moves, Returns
  <2> QED  BY <1>2, <2>1, <2>2, <2>3, <2>4, <2>5, <2>6, <2>7, <2>8, <2>9, <2>10, <2>11, <2>12 DEF
           Retires
<1>3. ASSUME NEW c \in Commands, Waits(c) PROVE TypeOK'
  <2>1. CASE PumpSession(c)
    BY <2>1 DEF PumpSession, At, Moves, Locking, Returns
  <2>2. CASE PumpStorage(c)
    <3>1. pc' \in [Commands -> Places]
      BY <2>2 DEF PumpStorage, At, Moves
    <3>2. lock' \in [Locks -> Commands \cup {None}]
      BY <2>2 DEF PumpStorage, Locking, Locks
    <3> QED  BY <3>1, <3>2, <2>2 DEF PumpStorage
  <2>3. CASE PumpProject(c)
    <3>1. pc' \in [Commands -> Places]
      BY <2>3 DEF PumpProject, At, Moves
    <3>2. lock' \in [Locks -> Commands \cup {None}]
      BY <2>3 DEF PumpProject, Locking, Locks
    <3> QED  BY <3>1, <3>2, <2>3 DEF PumpProject
  <2>4. CASE PumpSql(c)
    BY <2>4 DEF PumpSql, At, Moves, Locking, Returns
  <2>5. CASE RequestStorage(c)
    <3>1. pc' \in [Commands -> Places]
      BY <2>5 DEF RequestStorage, At, Moves
    <3>2. lock' \in [Locks -> Commands \cup {None}]
      BY <2>5 DEF RequestStorage, Locking, Locks
    <3> QED  BY <3>1, <3>2, <2>5 DEF RequestStorage
  <2>6. CASE RequestProject(c)
    <3>1. pc' \in [Commands -> Places]
      BY <2>6 DEF RequestProject, At, Moves
    <3>2. lock' \in [Locks -> Commands \cup {None}]
      BY <2>6 DEF RequestProject, Locking, Locks
    <3> QED  BY <3>1, <3>2, <2>6 DEF RequestProject
  <2>7. CASE Serve(c)
    BY <2>7 DEF Serve, At, Moves, Returns
  <2>8. CASE SavesSession(c)
    BY <2>8 DEF SavesSession, At, Moves, Locking, Returns
  <2>9. CASE SavesStorage(c)
    BY <2>9 DEF SavesStorage, At, Moves, Returns
  <2>10. CASE Reads(c)
    BY <2>10 DEF Reads, At, Moves, Returns
  <2>11. CASE Submits(c)
    BY <2>11 DEF Submits, At, Moves, Returns
  <2>12. CASE Finalizes(c)
    BY <2>12 DEF Finalizes, At, Moves, Returns
  <2> QED  BY <1>3, <2>1, <2>2, <2>3, <2>4, <2>5, <2>6, <2>7, <2>8, <2>9, <2>10, <2>11, <2>12 DEF
           Waits
<1>4. ASSUME NEW c \in Commands, Publishes(c) PROVE TypeOK'
  <2>1. CASE SqlAttaches(c)
    <3>1. cancelled' \in BOOLEAN /\ provider' \in BOOLEAN /\ expired' \in BOOLEAN
      BY <2>1 DEF SqlAttaches, At
    <3>2. handle' \in {"none", "live", "cut"}
      BY <2>1 DEF SqlAttaches, At
    <3> QED  BY <3>1, <3>2, <2>1 DEF SqlAttaches, At
  <2>2. CASE StorageAnswers(c)
    <3>1. cancelled' \in BOOLEAN /\ provider' \in BOOLEAN /\ expired' \in BOOLEAN
      BY <2>2 DEF StorageAnswers, Answered, At, CutsItself, Cut
    <3>2. handle' \in {"none", "live", "cut"}
      BY <2>2 DEF StorageAnswers, Answered, At, CutsItself, Cut
    <3> QED  BY <3>1, <3>2, <2>2 DEF StorageAnswers, Answered, At, CutsItself, Cut
  <2>3. CASE StorageChecks(c)
    BY <2>3 DEF StorageChecks, At, Cut
  <2>4. CASE StorageEnters(c)
    BY <2>4 DEF StorageEnters, Attempts, At, Cut
  <2>5. CASE StoragePublishes(c)
    <3>1. cancelled' \in BOOLEAN /\ provider' \in BOOLEAN /\ expired' \in BOOLEAN
      BY <2>5 DEF StoragePublishes, Answered, At, CutsItself, Cut
    <3>2. handle' \in {"none", "live", "cut"}
      BY <2>5 DEF StoragePublishes, Answered, At, CutsItself, Cut
    <3> QED  BY <3>1, <3>2, <2>5 DEF StoragePublishes, Answered, At, CutsItself, Cut
  <2>6. CASE SqlAnswers(c)
    BY <2>6 DEF SqlAnswers, Failure, At, Cut
  <2> QED  BY <1>4, <2>1, <2>2, <2>3, <2>4, <2>5, <2>6 DEF Publishes
<1>5. ASSUME NEW c \in Commands, PumpEnds(c) PROVE TypeOK'
  BY <1>5 DEF PumpEnds, At, Moves, Returns
<1>6. ASSUME NEW c \in Commands, SqlBegins(c) PROVE TypeOK'
  <2>1. cancelled' \in BOOLEAN /\ provider' \in BOOLEAN /\ expired' \in BOOLEAN
    BY <1>6 DEF SqlBegins, At
  <2>2. handle' \in {"none", "live", "cut"}
    BY <1>6 DEF SqlBegins, At
  <2> QED  BY <2>1, <2>2, <1>6 DEF SqlBegins, At
<1>7. ASSUME NEW c \in Commands, SqlEnds(c) PROVE TypeOK'
  BY <1>7 DEF SqlEnds, At
<1>8. ASSUME NEW c \in Commands, SqlAsks(c) PROVE TypeOK'
  <2>1. cancelled' \in BOOLEAN /\ provider' \in BOOLEAN /\ expired' \in BOOLEAN
    BY <1>8 DEF SqlAsks, At, CutsItself, Cut
  <2>2. handle' \in {"none", "live", "cut"}
    BY <1>8 DEF SqlAsks, At, CutsItself, Cut
  <2> QED  BY <2>1, <2>2, <1>8 DEF SqlAsks, At, CutsItself, Cut
<1>9. CASE DeadlinePasses
  BY <1>9 DEF DeadlinePasses
<1>10. CASE UNCHANGED vars
  BY <1>10 DEF vars
<1> QED  BY <1>1, <1>2, <1>3, <1>4, <1>5, <1>6, <1>7, <1>8, <1>9, <1>10 DEF Next

-----------------------------------------------------------------------------
(* A place is entered and left together with the mutexes it holds.           *)
LEMMA LockStep == HostInv /\ [Next]_vars => LockInv'
<1> SUFFICES ASSUME HostInv, [Next]_vars PROVE LockInv'
  OBVIOUS
<1> USE NoneAssumption DEF HostInv, LockInv, TypeOK, Holds, Locks, Operations, slots, cancelVars,
         guardVars, sqlVars
<1>1. ASSUME NEW c \in Commands, Starts(c) PROVE LockInv'
  <2>1. PICK there \in {"pump", "request", "saves", "reload", "cancelRuntime", "cancel"},
             p \in Projects \cup {None} : Start(c, there, p)
    BY <1>1 DEF Starts
  <2> QED  BY <2>1 DEF Start, At, Moves, Operating
<1>2. ASSUME NEW c \in Commands, Retires(c) PROVE LockInv'
  <2>1. CASE Cancels(c, "cancelRuntime", "cutRuntime")
    BY <2>1 DEF Cancels, At, Moves
  <2>2. CASE Cuts(c, "cutRuntime", "take")
    BY <2>2 DEF Cuts, At, Moves
  <2>3. CASE TakesSession(c)
    BY <2>3 DEF TakesSession, At, Moves, Within
  <2>4. CASE Cancels(c, "cancel", "cut")
    BY <2>4 DEF Cancels, At, Moves
  <2>5. CASE Cuts(c, "cut", "takeStorage")
    BY <2>5 DEF Cuts, At, Moves
  <2>6. CASE TakesStorage(c)
    BY <2>6 DEF TakesStorage, At, Moves, Within
  <2>7. CASE TakesProject(c)
    BY <2>7 DEF TakesProject, At, Moves, Within
  <2>8. CASE ShutsDown(c)
    BY <2>8 DEF ShutsDown, At, Moves, Returns
  <2>9. CASE Renews(c)
    BY <2>9 DEF Renews, At, Moves, Returns
  <2>10. CASE Loads(c)
    BY <2>10 DEF Loads, At, Moves, Returns
  <2>11. CASE InstallsStorage(c)
    BY <2>11 DEF InstallsStorage, At, Moves, Locking
  <2>12. CASE InstallsProject(c)
    BY <2>12 DEF InstallsProject, At, Moves, Returns
  <2> QED  BY <1>2, <2>1, <2>2, <2>3, <2>4, <2>5, <2>6, <2>7, <2>8, <2>9, <2>10, <2>11, <2>12 DEF
           Retires
<1>3. ASSUME NEW c \in Commands, Waits(c) PROVE LockInv'
  <2>1. CASE PumpSession(c)
    BY <2>1 DEF PumpSession, At, Moves, Locking, Returns
  <2>2. CASE PumpStorage(c)
    BY <2>2 DEF PumpStorage, At, Moves, Locking
  <2>3. CASE PumpProject(c)
    BY <2>3 DEF PumpProject, At, Moves, Locking
  <2>4. CASE PumpSql(c)
    BY <2>4 DEF PumpSql, At, Moves, Locking, Returns
  <2>5. CASE RequestStorage(c)
    BY <2>5 DEF RequestStorage, At, Moves, Locking
  <2>6. CASE RequestProject(c)
    BY <2>6 DEF RequestProject, At, Moves, Locking
  <2>7. CASE Serve(c)
    BY <2>7 DEF Serve, At, Moves, Returns
  <2>8. CASE SavesSession(c)
    BY <2>8 DEF SavesSession, At, Moves, Locking, Returns
  <2>9. CASE SavesStorage(c)
    BY <2>9 DEF SavesStorage, At, Moves, Returns
  <2>10. CASE Reads(c)
    BY <2>10 DEF Reads, At, Moves, Returns
  <2>11. CASE Submits(c)
    BY <2>11 DEF Submits, At, Moves, Returns
  <2>12. CASE Finalizes(c)
    BY <2>12 DEF Finalizes, At, Moves, Returns
  <2> QED  BY <1>3, <2>1, <2>2, <2>3, <2>4, <2>5, <2>6, <2>7, <2>8, <2>9, <2>10, <2>11, <2>12 DEF
           Waits
<1>4. ASSUME NEW c \in Commands, Publishes(c) PROVE LockInv'
  <2>1. CASE SqlAttaches(c)
    BY <2>1 DEF SqlAttaches, At
  <2>2. CASE StorageAnswers(c)
    BY <2>2 DEF StorageAnswers, Answered, At, CutsItself, Cut
  <2>3. CASE StorageChecks(c)
    BY <2>3 DEF StorageChecks, At, Cut
  <2>4. CASE StorageEnters(c)
    BY <2>4 DEF StorageEnters, Attempts, At, Cut
  <2>5. CASE StoragePublishes(c)
    BY <2>5 DEF StoragePublishes, Answered, At, CutsItself, Cut
  <2>6. CASE SqlAnswers(c)
    BY <2>6 DEF SqlAnswers, Failure, At, Cut
  <2> QED  BY <1>4, <2>1, <2>2, <2>3, <2>4, <2>5, <2>6 DEF Publishes
<1>5. ASSUME NEW c \in Commands, PumpEnds(c) PROVE LockInv'
  BY <1>5 DEF PumpEnds, At, Moves, Returns
<1>6. ASSUME NEW c \in Commands, SqlBegins(c) PROVE LockInv'
  BY <1>6 DEF SqlBegins, At
<1>7. ASSUME NEW c \in Commands, SqlEnds(c) PROVE LockInv'
  BY <1>7 DEF SqlEnds, At
<1>8. ASSUME NEW c \in Commands, SqlAsks(c) PROVE LockInv'
  BY <1>8 DEF SqlAsks, At, CutsItself, Cut
<1>9. CASE DeadlinePasses
  BY <1>9 DEF DeadlinePasses
<1>10. CASE UNCHANGED vars
  BY <1>10 DEF vars
<1> QED  BY <1>1, <1>2, <1>3, <1>4, <1>5, <1>6, <1>7, <1>8, <1>9, <1>10 DEF Next

-----------------------------------------------------------------------------
(* An operation starts only when there is no other.                          *)
LEMMA OperationStep == HostInv /\ [Next]_vars => OperationInv'
<1> SUFFICES ASSUME HostInv, [Next]_vars PROVE OperationInv'
  OBVIOUS
<1> USE DEF HostInv, OperationInv, TypeOK, Operating, Operations, slots, cancelVars, guardVars,
         sqlVars
<1>1. ASSUME NEW c \in Commands, Starts(c) PROVE OperationInv'
  BY <1>1 DEF Starts, Start, At, Moves
<1>2. ASSUME NEW c \in Commands, Retires(c) PROVE OperationInv'
  <2>1. CASE Cancels(c, "cancelRuntime", "cutRuntime")
    BY <2>1 DEF Cancels, At, Moves
  <2>2. CASE Cuts(c, "cutRuntime", "take")
    BY <2>2 DEF Cuts, At, Moves
  <2>3. CASE TakesSession(c)
    BY <2>3 DEF TakesSession, At, Moves, Within
  <2>4. CASE Cancels(c, "cancel", "cut")
    BY <2>4 DEF Cancels, At, Moves
  <2>5. CASE Cuts(c, "cut", "takeStorage")
    BY <2>5 DEF Cuts, At, Moves
  <2>6. CASE TakesStorage(c)
    BY <2>6 DEF TakesStorage, At, Moves, Within
  <2>7. CASE TakesProject(c)
    BY <2>7 DEF TakesProject, At, Moves, Within
  <2>8. CASE ShutsDown(c)
    BY <2>8 DEF ShutsDown, At, Moves, Returns
  <2>9. CASE Renews(c)
    BY <2>9 DEF Renews, At, Moves, Returns
  <2>10. CASE Loads(c)
    BY <2>10 DEF Loads, At, Moves, Returns
  <2>11. CASE InstallsStorage(c)
    BY <2>11 DEF InstallsStorage, At, Moves, Locking
  <2>12. CASE InstallsProject(c)
    BY <2>12 DEF InstallsProject, At, Moves, Returns
  <2> QED  BY <1>2, <2>1, <2>2, <2>3, <2>4, <2>5, <2>6, <2>7, <2>8, <2>9, <2>10, <2>11, <2>12 DEF
           Retires
<1>3. ASSUME NEW c \in Commands, Waits(c) PROVE OperationInv'
  <2>1. CASE PumpSession(c)
    BY <2>1 DEF PumpSession, At, Moves, Locking, Returns
  <2>2. CASE PumpStorage(c)
    BY <2>2 DEF PumpStorage, At, Moves, Locking
  <2>3. CASE PumpProject(c)
    BY <2>3 DEF PumpProject, At, Moves, Locking
  <2>4. CASE PumpSql(c)
    BY <2>4 DEF PumpSql, At, Moves, Locking, Returns
  <2>5. CASE RequestStorage(c)
    BY <2>5 DEF RequestStorage, At, Moves, Locking
  <2>6. CASE RequestProject(c)
    BY <2>6 DEF RequestProject, At, Moves, Locking
  <2>7. CASE Serve(c)
    BY <2>7 DEF Serve, At, Moves, Returns
  <2>8. CASE SavesSession(c)
    BY <2>8 DEF SavesSession, At, Moves, Locking, Returns
  <2>9. CASE SavesStorage(c)
    BY <2>9 DEF SavesStorage, At, Moves, Returns
  <2>10. CASE Reads(c)
    BY <2>10 DEF Reads, At, Moves, Returns
  <2>11. CASE Submits(c)
    BY <2>11 DEF Submits, At, Moves, Returns
  <2>12. CASE Finalizes(c)
    BY <2>12 DEF Finalizes, At, Moves, Returns
  <2> QED  BY <1>3, <2>1, <2>2, <2>3, <2>4, <2>5, <2>6, <2>7, <2>8, <2>9, <2>10, <2>11, <2>12 DEF
           Waits
<1>4. ASSUME NEW c \in Commands, Publishes(c) PROVE OperationInv'
  <2>1. CASE SqlAttaches(c)
    BY <2>1 DEF SqlAttaches, At
  <2>2. CASE StorageAnswers(c)
    BY <2>2 DEF StorageAnswers, Answered, At, CutsItself, Cut
  <2>3. CASE StorageChecks(c)
    BY <2>3 DEF StorageChecks, At, Cut
  <2>4. CASE StorageEnters(c)
    BY <2>4 DEF StorageEnters, Attempts, At, Cut
  <2>5. CASE StoragePublishes(c)
    BY <2>5 DEF StoragePublishes, Answered, At, CutsItself, Cut
  <2>6. CASE SqlAnswers(c)
    BY <2>6 DEF SqlAnswers, Failure, At, Cut
  <2> QED  BY <1>4, <2>1, <2>2, <2>3, <2>4, <2>5, <2>6 DEF Publishes
<1>5. ASSUME NEW c \in Commands, PumpEnds(c) PROVE OperationInv'
  BY <1>5 DEF PumpEnds, At, Moves, Returns
<1>6. ASSUME NEW c \in Commands, SqlBegins(c) PROVE OperationInv'
  BY <1>6 DEF SqlBegins, At
<1>7. ASSUME NEW c \in Commands, SqlEnds(c) PROVE OperationInv'
  BY <1>7 DEF SqlEnds, At
<1>8. ASSUME NEW c \in Commands, SqlAsks(c) PROVE OperationInv'
  BY <1>8 DEF SqlAsks, At, CutsItself, Cut
<1>9. CASE DeadlinePasses
  BY <1>9 DEF DeadlinePasses
<1>10. CASE UNCHANGED vars
  BY <1>10 DEF vars
<1> QED  BY <1>1, <1>2, <1>3, <1>4, <1>5, <1>6, <1>7, <1>8, <1>9, <1>10 DEF Next

-----------------------------------------------------------------------------
(* A slot changes only in the hands of an operation that is alone with its   *)
(* mutex, and in the order that leaves the storage empty between two         *)
(* projects.                                                                 *)
LEMMA SlotStep == HostInv /\ [Next]_vars => SlotInv'
<1> SUFFICES ASSUME HostInv, [Next]_vars PROVE SlotInv'
  OBVIOUS
<1> USE NoneAssumption DEF HostInv, SlotInv, LockInv, TypeOK, Holds, Locks, OperationInv,
         Operations, Emptied, slots, cancelVars, guardVars, sqlVars
<1>1. ASSUME NEW c \in Commands, Starts(c) PROVE SlotInv'
  <2>1. PICK there \in {"pump", "request", "saves", "reload", "cancelRuntime", "cancel"},
             p \in Projects \cup {None} : Start(c, there, p)
    BY <1>1 DEF Starts
  <2> QED  BY <2>1 DEF Start, At, Moves, Operating
<1>2. ASSUME NEW c \in Commands, Retires(c) PROVE SlotInv'
  <2>1. CASE Cancels(c, "cancelRuntime", "cutRuntime")
    BY <2>1 DEF Cancels, At, Moves
  <2>2. CASE Cuts(c, "cutRuntime", "take")
    BY <2>2 DEF Cuts, At, Moves
  <2>3. CASE TakesSession(c)
    BY <2>3 DEF TakesSession, At, Moves, Within
  <2>4. CASE Cancels(c, "cancel", "cut")
    BY <2>4 DEF Cancels, At, Moves
  <2>5. CASE Cuts(c, "cut", "takeStorage")
    BY <2>5 DEF Cuts, At, Moves
  <2>6. CASE TakesStorage(c)
    BY <2>6 DEF TakesStorage, At, Moves, Within
  <2>7. CASE TakesProject(c)
    BY <2>7 DEF TakesProject, At, Moves, Within
  <2>8. CASE ShutsDown(c)
    BY <2>8 DEF ShutsDown, At, Moves, Returns
  <2>9. CASE Renews(c)
    BY <2>9 DEF Renews, At, Moves, Returns
  <2>10. CASE Loads(c)
    BY <2>10 DEF Loads, At, Moves, Returns
  <2>11. CASE InstallsStorage(c)
    BY <2>11 DEF InstallsStorage, At, Moves, Locking
  <2>12. CASE InstallsProject(c)
    BY <2>12 DEF InstallsProject, At, Moves, Returns
  <2> QED  BY <1>2, <2>1, <2>2, <2>3, <2>4, <2>5, <2>6, <2>7, <2>8, <2>9, <2>10, <2>11, <2>12 DEF
           Retires
<1>3. ASSUME NEW c \in Commands, Waits(c) PROVE SlotInv'
  <2>1. CASE PumpSession(c)
    BY <2>1 DEF PumpSession, At, Moves, Locking, Returns
  <2>2. CASE PumpStorage(c)
    BY <2>2 DEF PumpStorage, At, Moves, Locking
  <2>3. CASE PumpProject(c)
    BY <2>3 DEF PumpProject, At, Moves, Locking
  <2>4. CASE PumpSql(c)
    BY <2>4 DEF PumpSql, At, Moves, Locking, Returns
  <2>5. CASE RequestStorage(c)
    BY <2>5 DEF RequestStorage, At, Moves, Locking
  <2>6. CASE RequestProject(c)
    BY <2>6 DEF RequestProject, At, Moves, Locking
  <2>7. CASE Serve(c)
    BY <2>7 DEF Serve, At, Moves, Returns
  <2>8. CASE SavesSession(c)
    BY <2>8 DEF SavesSession, At, Moves, Locking, Returns
  <2>9. CASE SavesStorage(c)
    BY <2>9 DEF SavesStorage, At, Moves, Returns
  <2>10. CASE Reads(c)
    BY <2>10 DEF Reads, At, Moves, Returns
  <2>11. CASE Submits(c)
    BY <2>11 DEF Submits, At, Moves, Returns
  <2>12. CASE Finalizes(c)
    BY <2>12 DEF Finalizes, At, Moves, Returns
  <2> QED  BY <1>3, <2>1, <2>2, <2>3, <2>4, <2>5, <2>6, <2>7, <2>8, <2>9, <2>10, <2>11, <2>12 DEF
           Waits
<1>4. ASSUME NEW c \in Commands, Publishes(c) PROVE SlotInv'
  <2>1. CASE SqlAttaches(c)
    BY <2>1 DEF SqlAttaches, At
  <2>2. CASE StorageAnswers(c)
    BY <2>2 DEF StorageAnswers, Answered, At, CutsItself, Cut
  <2>3. CASE StorageChecks(c)
    BY <2>3 DEF StorageChecks, At, Cut
  <2>4. CASE StorageEnters(c)
    BY <2>4 DEF StorageEnters, Attempts, At, Cut
  <2>5. CASE StoragePublishes(c)
    BY <2>5 DEF StoragePublishes, Answered, At, CutsItself, Cut
  <2>6. CASE SqlAnswers(c)
    BY <2>6 DEF SqlAnswers, Failure, At, Cut
  <2> QED  BY <1>4, <2>1, <2>2, <2>3, <2>4, <2>5, <2>6 DEF Publishes
<1>5. ASSUME NEW c \in Commands, PumpEnds(c) PROVE SlotInv'
  BY <1>5 DEF PumpEnds, At, Moves, Returns
<1>6. ASSUME NEW c \in Commands, SqlBegins(c) PROVE SlotInv'
  BY <1>6 DEF SqlBegins, At
<1>7. ASSUME NEW c \in Commands, SqlEnds(c) PROVE SlotInv'
  BY <1>7 DEF SqlEnds, At
<1>8. ASSUME NEW c \in Commands, SqlAsks(c) PROVE SlotInv'
  BY <1>8 DEF SqlAsks, At, CutsItself, Cut
<1>9. CASE DeadlinePasses
  BY <1>9 DEF DeadlinePasses
<1>10. CASE UNCHANGED vars
  BY <1>10 DEF vars
<1> QED  BY <1>1, <1>2, <1>3, <1>4, <1>5, <1>6, <1>7, <1>8, <1>9, <1>10 DEF Next

-----------------------------------------------------------------------------
(* The statement's guard and what reached the disk.  ShutsDown and PumpEnds  *)
(* need the mutex of the SQL host, or its statement to be over.              *)
LEMMA SqlStep == HostInv /\ [Next]_vars => SqlInv'
<1> SUFFICES ASSUME HostInv, [Next]_vars PROVE SqlInv'
  OBVIOUS
<1> USE NoneAssumption DEF HostInv, SqlInv, LockInv, TypeOK, Holds, Locks, Operations, Cut, slots,
         cancelVars, guardVars, sqlVars
<1>1. ASSUME NEW c \in Commands, Starts(c) PROVE SqlInv'
  BY <1>1 DEF Starts, Start, At, Moves
<1>2. ASSUME NEW c \in Commands, Retires(c) PROVE SqlInv'
  <2>1. CASE Cancels(c, "cancelRuntime", "cutRuntime")
    BY <2>1 DEF Cancels, At, Moves
  <2>2. CASE Cuts(c, "cutRuntime", "take")
    BY <2>2 DEF Cuts, At, Moves
  <2>3. CASE TakesSession(c)
    BY <2>3 DEF TakesSession, At, Moves, Within
  <2>4. CASE Cancels(c, "cancel", "cut")
    BY <2>4 DEF Cancels, At, Moves
  <2>5. CASE Cuts(c, "cut", "takeStorage")
    BY <2>5 DEF Cuts, At, Moves
  <2>6. CASE TakesStorage(c)
    BY <2>6 DEF TakesStorage, At, Moves, Within
  <2>7. CASE TakesProject(c)
    BY <2>7 DEF TakesProject, At, Moves, Within
  <2>8. CASE ShutsDown(c)
    BY <2>8 DEF ShutsDown, At, Moves, Returns
  <2>9. CASE Renews(c)
    BY <2>9 DEF Renews, At, Moves, Returns
  <2>10. CASE Loads(c)
    BY <2>10 DEF Loads, At, Moves, Returns
  <2>11. CASE InstallsStorage(c)
    BY <2>11 DEF InstallsStorage, At, Moves, Locking
  <2>12. CASE InstallsProject(c)
    BY <2>12 DEF InstallsProject, At, Moves, Returns
  <2> QED  BY <1>2, <2>1, <2>2, <2>3, <2>4, <2>5, <2>6, <2>7, <2>8, <2>9, <2>10, <2>11, <2>12 DEF
           Retires
<1>3. ASSUME NEW c \in Commands, Waits(c) PROVE SqlInv'
  <2>1. CASE PumpSession(c)
    BY <2>1 DEF PumpSession, At, Moves, Locking, Returns
  <2>2. CASE PumpStorage(c)
    BY <2>2 DEF PumpStorage, At, Moves, Locking
  <2>3. CASE PumpProject(c)
    BY <2>3 DEF PumpProject, At, Moves, Locking
  <2>4. CASE PumpSql(c)
    BY <2>4 DEF PumpSql, At, Moves, Locking, Returns
  <2>5. CASE RequestStorage(c)
    BY <2>5 DEF RequestStorage, At, Moves, Locking
  <2>6. CASE RequestProject(c)
    BY <2>6 DEF RequestProject, At, Moves, Locking
  <2>7. CASE Serve(c)
    BY <2>7 DEF Serve, At, Moves, Returns
  <2>8. CASE SavesSession(c)
    BY <2>8 DEF SavesSession, At, Moves, Locking, Returns
  <2>9. CASE SavesStorage(c)
    BY <2>9 DEF SavesStorage, At, Moves, Returns
  <2>10. CASE Reads(c)
    BY <2>10 DEF Reads, At, Moves, Returns
  <2>11. CASE Submits(c)
    BY <2>11 DEF Submits, At, Moves, Returns
  <2>12. CASE Finalizes(c)
    BY <2>12 DEF Finalizes, At, Moves, Returns
  <2> QED  BY <1>3, <2>1, <2>2, <2>3, <2>4, <2>5, <2>6, <2>7, <2>8, <2>9, <2>10, <2>11, <2>12 DEF
           Waits
<1>4. ASSUME NEW c \in Commands, Publishes(c) PROVE SqlInv'
  <2>1. CASE SqlAttaches(c)
    BY <2>1 DEF SqlAttaches, At
  <2>2. CASE StorageAnswers(c)
    BY <2>2 DEF StorageAnswers, Answered, At, CutsItself, Cut
  <2>3. CASE StorageChecks(c)
    BY <2>3 DEF StorageChecks, At, Cut
  <2>4. CASE StorageEnters(c)
    BY <2>4 DEF StorageEnters, Attempts, At, Cut
  <2>5. CASE StoragePublishes(c)
    BY <2>5 DEF StoragePublishes, Answered, At, CutsItself, Cut
  <2>6. CASE SqlAnswers(c)
    BY <2>6 DEF SqlAnswers, Failure, At, Cut
  <2> QED  BY <1>4, <2>1, <2>2, <2>3, <2>4, <2>5, <2>6 DEF Publishes
<1>5. ASSUME NEW c \in Commands, PumpEnds(c) PROVE SqlInv'
  BY <1>5 DEF PumpEnds, At, Moves, Returns
<1>6. ASSUME NEW c \in Commands, SqlBegins(c) PROVE SqlInv'
  BY <1>6 DEF SqlBegins, At
<1>7. ASSUME NEW c \in Commands, SqlEnds(c) PROVE SqlInv'
  BY <1>7 DEF SqlEnds, At
<1>8. ASSUME NEW c \in Commands, SqlAsks(c) PROVE SqlInv'
  BY <1>8 DEF SqlAsks, At, CutsItself, Cut
<1>9. CASE DeadlinePasses
  BY <1>9 DEF DeadlinePasses
<1>10. CASE UNCHANGED vars
  BY <1>10 DEF vars
<1> QED  BY <1>1, <1>2, <1>3, <1>4, <1>5, <1>6, <1>7, <1>8, <1>9, <1>10 DEF Next

-----------------------------------------------------------------------------
LEMMA HostStep == HostInv /\ [Next]_vars => HostInv'
BY TypeStep, LockStep, OperationStep, SlotStep, SqlStep DEF HostInv

LEMMA HostAlways == Spec => []HostInv
BY HostInit, HostStep, PTL DEF Spec

(* Every variable of the native host keeps its type (src-tauri/src/lib.rs and  *)
(* native_sql.rs).                                                             *)
THEOREM HostTypeCorrect == Spec => []TypeOK
<1>1. HostInv => TypeOK
  BY DEF HostInv
<1> QED  BY <1>1, HostAlways, PTL

(* Whoever pumps or serves a request sees one project, for any number of       *)
(* commands beside an operation that retires and opens projects.               *)
THEOREM ServesOneProject == Spec => []OneProject
<1>1. HostInv => OneProject
  <2> SUFFICES ASSUME HostInv, NEW c \in Commands
        PROVE  /\ At(c, "drive") => storage # None /\ project = storage /\ loaded = storage
               /\ At(c, "serve") /\ storage # None => project = storage
    BY DEF OneProject
  <2> QED  BY DEF HostInv, SlotInv, At
<1> QED  BY <1>1, HostAlways, PTL

(* A cancelled statement publishes nothing beyond what it had passed its       *)
(* checkpoint for, and its answer never denies or overstates what was          *)
(* published, whenever cancellation and deadline come.                         *)
THEOREM CancellationNeverLies == Spec => []CancellationIsTruthful
<1>1. HostInv => CancellationIsTruthful
  BY DEF HostInv, SqlInv, CancellationIsTruthful
<1> QED  BY <1>1, HostAlways, PTL
=============================================================================
