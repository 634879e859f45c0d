--------------------------- MODULE SettingsProofs ---------------------------
(***************************************************************************)
(* Proofs about the project's settings, for any hosts, any number of       *)
(* updates and any number of disturbances.                                 *)
(*                                                                         *)
(* The runtime commits what it has prepared last, whoever asks.  The store *)
(* asks only for what the host has written.  The two are the same because  *)
(* the reply to a prepare carries what the runtime prepared under the      *)
(* reply's id (PreparedIsPreparation), ids are new in their session        *)
(* (IdsAreNew), and the handler that writes and finalizes is awaited: no   *)
(* session is replaced meanwhile (HandlerIsAlone, HandlerHasPrepared).     *)
(*                                                                         *)
(* The player is told that an update was saved when the answer to its      *)
(* finalization comes.  That answer means that the runtime committed the   *)
(* preparation of this very update unless the update's id is of another    *)
(* session, which only happens to an update that went astray               *)
(* (PendingIsRegistered, PreparationOfOwn, CommittedIsAnswered).           *)
(***************************************************************************)
EXTENDS ProjectSettings, TLAPS

USE BoundsAssumption, HostsAssumption

-----------------------------------------------------------------------------
(* Types. *)

Configurations == [edit : Nat, schema : {"old", "new", "none"}]
Messages ==
  [type : {"report", "reload", "prepared", "committed", "applied", "rejected"},
   id : Nat, source : Configurations, prepared : Configurations]
CommandStates == {"none", "posted", "accepted", "done"}
Preparations == [id : Nat, update : Nat, contents : Configurations]
Handlers ==
  [at : {"idle", "migrating", "beginning", "writing", "finalizing"}, update : Updates \cup {0},
   contents : Configurations, then : {"none", "startup"}]
Pendings == [stage : {"none", "preparing", "finalizing"}, update : Updates \cup {0}]
Chains ==
  [at : {"none", "settling", "applying", "continuing", "done", "failed"}, on : Updates \cup {0}]

FixedTypes ==
  /\ native \in BOOLEAN /\ writable \in BOOLEAN /\ replacing \in BOOLEAN /\ faulted \in BOOLEAN
  /\ session \in Nat \ {0} /\ disturbances \in Nat
HostTypes == file \in Configurations /\ stored \subseteq Configurations
SnapshotTypes == snapshot \in Configurations
RuntimeTypes ==
  /\ source \in Configurations /\ preparation \in Preparations /\ committed \subseteq Nat
  /\ replies \in Seq(Messages) /\ nextId \in Nat \ {0}
SendTypes ==
  /\ sent \in [Commands -> CommandStates] /\ id \in [Commands -> Nat]
  /\ sentIn \in [Commands -> Nat]
UpdateTypes ==
  /\ pending \in Pendings /\ completion \in Updates \cup {0}
  /\ update \in [Updates -> {"none", "sending", "waiting", "resolved", "rejected"}]
  /\ expected \in [Updates -> Configurations]
  /\ outcome \in [Updates -> {"none", "commit", "abort"}]
  /\ automatic \subseteq Updates /\ astray \subseteq Updates
HandlerTypes == handler \in Handlers
PreferenceTypes ==
  /\ application \in [Sessions -> {"none", "sending", "waiting", "resolved", "rejected"}]
  /\ early \subseteq Messages
StartTypes == startup \in [Sessions -> Chains] /\ loading \in BOOLEAN

TypeOK ==
  /\ FixedTypes /\ HostTypes /\ SnapshotTypes /\ RuntimeTypes /\ SendTypes /\ UpdateTypes
  /\ HandlerTypes /\ PreferenceTypes /\ StartTypes

-----------------------------------------------------------------------------
(* The messages of a sequence. *)

MailOf(s) == {s[i] : i \in 1..Len(s)}
Mail == MailOf(replies)

\* The first message of a queue, and what is left without it.
LEMMA TailMail ==
  ASSUME NEW s \in Seq(Messages), s # <<>>
  PROVE  /\ Head(s) \in Messages /\ Head(s) \in MailOf(s)
         /\ Tail(s) \in Seq(Messages) /\ MailOf(Tail(s)) \subseteq MailOf(s)
<1>1. Len(s) \in Nat /\ Len(s) # 0 /\ Head(s) = s[1]
  OBVIOUS
<1>2. ASSUME NEW i \in 1..Len(Tail(s)) PROVE Tail(s)[i] = s[i + 1] /\ i + 1 \in 1..Len(s)
  OBVIOUS
<1>3. MailOf(Tail(s)) \subseteq MailOf(s)
  BY <1>2 DEF MailOf
<1> QED  BY <1>1, <1>3 DEF MailOf

\* What is in a queue after a message was added.
LEMMA AppendMail ==
  ASSUME NEW s \in Seq(Messages), NEW m \in Messages
  PROVE  Append(s, m) \in Seq(Messages) /\ MailOf(Append(s, m)) = MailOf(s) \cup {m}
<1>1. Append(s, m) \in Seq(Messages) /\ Len(Append(s, m)) = Len(s) + 1 /\ Len(s) \in Nat
  OBVIOUS
<1>2. \A i \in 1..Len(s) : Append(s, m)[i] = s[i]
  OBVIOUS
<1>3. Append(s, m)[Len(s) + 1] = m
  OBVIOUS
<1>4. 1..Len(s) + 1 = (1..Len(s)) \cup {Len(s) + 1}
  BY <1>1
<1> QED  BY <1>1, <1>2, <1>3, <1>4 DEF MailOf

\* The queues a new session and a failed handler begin with.
LEMMA ShortMail ==
  /\ <<>> \in Seq(Messages) /\ MailOf(<<>>) = {}
  /\ \A m \in Messages : <<m>> \in Seq(Messages) /\ MailOf(<<m>>) = {m}
<1>1. <<>> \in Seq(Messages) /\ MailOf(<<>>) = {}
  BY DEF MailOf
<1>2. ASSUME NEW m \in Messages PROVE <<m>> \in Seq(Messages) /\ MailOf(<<m>>) = {m}
  <2>1. Len(<<m>>) = 1 /\ 1..1 = {1} /\ <<m>>[1] = m
    OBVIOUS
  <2> QED  BY <2>1 DEF MailOf
<1> QED  BY <1>1, <1>2

\* The messages and contents the store and the runtime write are of their types.
LEMMA ContentsType ==
  /\ Null \in Configurations
  /\ \A c \in Configurations : Migrated(c) \in Configurations
  /\ \A n \in Nat, s \in {"old", "new"} : Contents(n, s) \in Configurations
BY DEF Null, Contents, Migrated, Configurations

\* A message has the parts it was made of.
LEMMA MessageType ==
  ASSUME NEW type \in {"report", "reload", "prepared", "committed", "applied", "rejected"},
         NEW i \in Nat, NEW c \in Configurations, NEW p \in Configurations
  PROVE  /\ Message(type, i, c, p) \in Messages /\ Message(type, i, c, p).type = type
         /\ Message(type, i, c, p).id = i /\ Message(type, i, c, p).prepared = p
BY DEF Message, Messages

-----------------------------------------------------------------------------
(* What the operators the actions are made of do to the types. *)

\* The commands are distinct.
LEMMA CommandTypes ==
  /\ \A k \in Updates : <<"prepare", k>> \in Commands /\ <<"finalize", k>> \in Commands
  /\ \A s \in Sessions : <<"apply", s>> \in Commands
BY DEF Commands

\* Submitting a command.
LEMMA PostsType ==
  ASSUME SendTypes, FixedTypes, NEW c, Posts(c)
  PROVE  SendTypes'
BY DEF SendTypes, FixedTypes, Posts, CommandStates

\* The end of a submission.
LEMMA ReturnsType ==
  ASSUME SendTypes, NEW c, Returns(c)
  PROVE  SendTypes'
BY DEF SendTypes, Returns, CommandStates

\* Taking the first message.
LEMMA ConsumesType ==
  ASSUME RuntimeTypes, replies # <<>>, Consumes
  PROVE  RuntimeTypes' /\ Reply \in Messages
BY TailMail DEF RuntimeTypes, Consumes, Reply

\* A failed batch.
LEMMA ThrowsType ==
  ASSUME TypeOK, NEW rest \in Seq(Messages), Throws(rest)
  PROVE  RuntimeTypes' /\ HandlerTypes' /\ StartTypes' /\ faulted' \in BOOLEAN
<1> USE DEF TypeOK
<1>1. RuntimeTypes'
  BY ShortMail DEF Throws, RuntimeTypes
<1>2. HandlerTypes'
  BY ContentsType DEF Throws, HandlerTypes, Handlers, Idle
<1> QED  BY <1>1, <1>2 DEF Throws, StartTypes

\* The handler that goes on.
LEMMA GoesOnType ==
  ASSUME HandlerTypes, StartTypes, NEW then, NEW k \in Updates \cup {0}, GoesOn(then, k)
  PROVE  HandlerTypes' /\ StartTypes'
<1>1. HandlerTypes'
  BY ContentsType DEF GoesOn, HandlerTypes, Handlers, Idle
<1>2. StartTypes'
  BY DEF GoesOn, StartTypes, Chains
<1> QED  BY <1>1, <1>2

\* Beginning an update.
LEMMA BeginUpdateType ==
  ASSUME TypeOK, NEW k \in Updates, BeginUpdate(k), automatic' \subseteq Updates
  PROVE  UpdateTypes' /\ SendTypes'
<1> USE DEF TypeOK
<1>1. SendTypes'
  BY PostsType, CommandTypes DEF BeginUpdate
<1> QED  BY <1>1 DEF BeginUpdate, UpdateTypes, SnapshotTypes

\* Beginning a finalization.
LEMMA BeginFinalizationType ==
  ASSUME TypeOK, NEW k \in Updates \cup {0}, NEW o \in {"commit", "abort"}, BeginFinalization(k, o)
  PROVE  /\ SendTypes' /\ HandlerTypes'
         /\ outcome' \in [Updates -> {"none", "commit", "abort"}]
<1> USE DEF TypeOK
<1>1. SendTypes'
  BY PostsType, CommandTypes DEF BeginFinalization
<1>2. HandlerTypes'
  BY ContentsType DEF BeginFinalization, HandlerTypes, Handlers, Idle
<1> QED  BY <1>1, <1>2 DEF BeginFinalization, UpdateTypes

\* An update that ends.
LEMMA SettlesType ==
  ASSUME UpdateTypes, NEW k, NEW r \in {"waiting", "resolved", "rejected"}, Settles(k, r)
  PROVE  UpdateTypes'
BY DEF UpdateTypes, Settles, NoPending, Pendings

\* A message of the runtime.
LEMMA RepliesType ==
  ASSUME RuntimeTypes,
         NEW type \in {"report", "reload", "prepared", "committed", "applied", "rejected"},
         NEW i \in Nat, NEW c \in Configurations, NEW p \in Configurations, Replies(type, i, c, p)
  PROVE  replies' \in Seq(Messages)
BY MessageType, AppendMail DEF RuntimeTypes, Replies

-----------------------------------------------------------------------------
(* Every step keeps the types. *)

\* The initial state has the types.
LEMMA InitTypes == Init => TypeOK
<1> SUFFICES ASSUME Init PROVE TypeOK
  OBVIOUS
<1>1. FixedTypes
  <2>1. native \in BOOLEAN /\ writable \in BOOLEAN /\ faulted \in BOOLEAN /\ replacing \in BOOLEAN
    BY DEF Init
  <2>2. session \in Nat \ {0} /\ disturbances \in Nat
    BY DEF Init
  <2> QED  BY <2>1, <2>2 DEF FixedTypes
<1>2. HostTypes /\ SnapshotTypes
  BY ContentsType DEF Init, HostTypes, SnapshotTypes
<1>3. RuntimeTypes
  <2>1. replies \in Seq(Messages)
    BY <1>2, ContentsType, MessageType, ShortMail DEF Init, HostTypes
  <2> QED  BY <2>1, <1>2, ContentsType DEF Init, RuntimeTypes, NoPreparation, Preparations, HostTypes
<1>4. SendTypes
  BY DEF Init, SendTypes, CommandStates
<1>5. UpdateTypes
  BY ContentsType DEF Init, UpdateTypes, NoPending, Pendings
<1>6. HandlerTypes
  BY ContentsType DEF Init, HandlerTypes, Handlers, Idle
<1>7. PreferenceTypes
  BY DEF Init, PreferenceTypes
<1>8. StartTypes
  BY DEF Init, StartTypes, Chains
<1> QED  BY <1>1, <1>2, <1>3, <1>4, <1>5, <1>6, <1>7, <1>8 DEF TypeOK

\* The runtime takes a command.
LEMMA AcceptedTypes ==
  ASSUME TypeOK, NEW c \in Commands, Accepted(c)
  PROVE  TypeOK'
<1> USE DEF TypeOK
<1>1. SendTypes'
  BY DEF Accepted, SendTypes, CommandStates, RuntimeTypes
<1>2. nextId' \in Nat \ {0}
  BY DEF Accepted, RuntimeTypes
<1>3. nextId \in Nat
  BY DEF RuntimeTypes
<1>4. RuntimeTypes'
  <2>1. CASE Refuses
    <3>1. replies' \in Seq(Messages)
      BY <2>1, <1>3, ContentsType, RepliesType DEF Refuses
    <3> QED  BY <3>1, <2>1, <1>2 DEF Refuses, RuntimeTypes
  <2>2. CASE c[1] = "prepare" /\ Prepares(c[2])
    <3>0. c[2] \in Nat
      BY DEF Commands, Updates, Sessions
    <3>1. PICK w : w = IF c[2] \in automatic THEN Migrated(source) ELSE Contents(c[2], "new")
      OBVIOUS
    <3>2. w \in Configurations
      BY <3>0, <3>1, ContentsType DEF RuntimeTypes
    <3>3. replies' \in Seq(Messages)
      BY <2>2, <3>1, <3>2, <1>3, RepliesType DEF Prepares, RuntimeTypes
    <3>4. preparation' \in Preparations
      BY <2>2, <3>0, <3>1, <3>2, <1>3 DEF Prepares, Preparations
    <3> QED  BY <3>3, <3>4, <2>2, <1>2 DEF Prepares, RuntimeTypes
  <2>3. CASE c[1] = "finalize" /\ Finalizes(c[2])
    <3>1. source' \in Configurations /\ committed' \subseteq Nat
      BY <2>3 DEF Finalizes, RuntimeTypes, Preparations
    <3>2. replies' \in Seq(Messages)
      <4>1. PICK w : w = source'
        OBVIOUS
      <4> QED  BY <2>3, <3>1, <4>1, <1>3, ContentsType, RepliesType DEF Finalizes
    <3>3. preparation' \in Preparations
      BY <2>3, ContentsType DEF Finalizes, NoPreparation, Preparations
    <3> QED  BY <3>1, <3>2, <3>3, <1>2 DEF RuntimeTypes
  <2>4. CASE AppliesPreferences
    <3>1. replies' \in Seq(Messages)
      BY <2>4, <1>3, ContentsType, RepliesType DEF AppliesPreferences, RuntimeTypes
    <3> QED  BY <3>1, <2>4, <1>2 DEF AppliesPreferences, RuntimeTypes
  <2> QED  BY <2>1, <2>2, <2>3, <2>4 DEF Accepted
<1> QED  BY <1>1, <1>4 DEF Accepted, fixed, hostVars, updateVars, preferenceVars, startVars,
  FixedTypes, HostTypes, SnapshotTypes, UpdateTypes, HandlerTypes, PreferenceTypes, StartTypes

\* The player saves, or a submission has its id or fails.
LEMMA UpdateStepTypes ==
  ASSUME TypeOK, NEW k \in Updates, Save(k) \/ Registers(k) \/ PrepareFails(k)
  PROVE  TypeOK'
<1> USE DEF TypeOK, fixed, hostVars, runtimeVars, sendVars, preferenceVars, startVars
<1>1. CASE Save(k)
  <2>1. UpdateTypes' /\ SendTypes'
    BY <1>1, BeginUpdateType DEF Save, UpdateTypes
  <2> QED  BY <2>1, <1>1 DEF Save, FixedTypes, HostTypes, SnapshotTypes, RuntimeTypes, HandlerTypes,
           PreferenceTypes, StartTypes
<1>2. CASE Registers(k)
  <2>1. SendTypes'
    BY <1>2, ReturnsType, CommandTypes DEF Registers
  <2>2. UpdateTypes'
    BY <1>2 DEF Registers, UpdateTypes, Pendings
  <2>3. HandlerTypes' /\ StartTypes'
    BY <1>2, GoesOnType DEF Registers, HandlerTypes, StartTypes
  <2> QED  BY <2>1, <2>2, <2>3, <1>2 DEF Registers, FixedTypes, HostTypes, SnapshotTypes, RuntimeTypes,
           PreferenceTypes
<1>3. CASE PrepareFails(k)
  <2>1. SendTypes'
    BY <1>3, ReturnsType, CommandTypes DEF PrepareFails
  <2>2. UpdateTypes'
    BY <1>3 DEF PrepareFails, UpdateTypes
  <2>3. RuntimeTypes' /\ HandlerTypes' /\ StartTypes' /\ faulted' \in BOOLEAN
    <3>1. CASE k \in automatic
      BY <3>1, <1>3, ThrowsType DEF PrepareFails, RuntimeTypes
    <3>2. CASE k \notin automatic
      BY <3>2, <1>3 DEF PrepareFails, RuntimeTypes, HandlerTypes, StartTypes, FixedTypes
    <3> QED  BY <3>1, <3>2
  <2> QED  BY <2>1, <2>2, <2>3, <1>3 DEF PrepareFails, FixedTypes, HostTypes, SnapshotTypes,
           PreferenceTypes
<1> QED  BY <1>1, <1>2, <1>3

\* The batch handler takes a configuration, or goes on after an await.
LEMMA HandlerStepTypes ==
  ASSUME TypeOK, TakesConfiguration \/ Migrates \/ Written \/ Finalizing
  PROVE  TypeOK'
<1> USE DEF TypeOK, fixed, hostVars, runtimeVars, sendVars, preferenceVars, startVars, updateVars
<1>1. CASE TakesConfiguration
  <2>1. RuntimeTypes' /\ Reply \in Messages
    BY <1>1, ConsumesType DEF TakesConfiguration, Takes, Ready
  <2>2. SnapshotTypes'
    BY <1>1, <2>1 DEF TakesConfiguration, SnapshotTypes, Messages
  <2>3. HandlerTypes' /\ StartTypes'
    <3>1. CASE Reply.source.schema = "old" /\ writable
      <4>1. PICK then \in {"startup", "none"} :
              handler' = [Idle EXCEPT !.at = "migrating", !.then = then] /\ UNCHANGED startVars
        BY <1>1, <3>1 DEF TakesConfiguration
      <4>2. HandlerTypes'
        BY <4>1, ContentsType DEF Idle, HandlerTypes, Handlers
      <4> QED  BY <4>1, <4>2 DEF StartTypes
    <3>2. CASE ~(Reply.source.schema = "old" /\ writable)
      BY <1>1, <3>2, GoesOnType DEF TakesConfiguration, UpdateTypes
    <3> QED  BY <3>1, <3>2
  <2> QED  BY <2>1, <2>2, <2>3, <1>1 DEF TakesConfiguration, FixedTypes, HostTypes, SendTypes,
           UpdateTypes, PreferenceTypes
<1>2. CASE Migrates
  <2>1. CASE Throws(replies) /\ UNCHANGED <<hostVars, updateVars, sendVars>>
    <3>1. RuntimeTypes' /\ HandlerTypes' /\ StartTypes' /\ faulted' \in BOOLEAN
      BY <2>1, ThrowsType DEF RuntimeTypes
    <3> QED  BY <3>1, <2>1, <1>2 DEF Migrates, FixedTypes, HostTypes, SnapshotTypes, SendTypes,
             UpdateTypes, PreferenceTypes
  <2>2. ASSUME Writes(snapshot, Migrated(snapshot)), UNCHANGED <<faulted, runtimeVars>>,
               UpdateTypes', SendTypes', HandlerTypes', StartTypes'
        PROVE  TypeOK'
    <3>1. HostTypes'
      BY <2>2, ContentsType DEF Writes, HostTypes, SnapshotTypes
    <3> QED  BY <3>1, <2>2, <1>2 DEF Migrates, FixedTypes, SnapshotTypes, RuntimeTypes, PreferenceTypes
  <2>3. ASSUME GoesOn(handler.then, completion), UNCHANGED <<updateVars, sendVars>>
        PROVE  UpdateTypes' /\ SendTypes' /\ HandlerTypes' /\ StartTypes'
    BY <2>3, GoesOnType DEF UpdateTypes, SendTypes
  <2>4. ASSUME NEW k \in Updates, BeginUpdate(k), automatic' = automatic \cup {k},
               handler' = [handler EXCEPT !.at = "beginning", !.update = k], UNCHANGED startVars
        PROVE  UpdateTypes' /\ SendTypes' /\ HandlerTypes' /\ StartTypes'
    <3>1. UpdateTypes' /\ SendTypes'
      BY <2>4, BeginUpdateType DEF UpdateTypes
    <3>2. HandlerTypes'
      BY <2>4 DEF HandlerTypes, Handlers
    <3> QED  BY <3>1, <3>2, <2>4 DEF StartTypes
  <2> QED  BY <2>1, <2>2, <2>3, <2>4, <1>2 DEF Migrates
<1>3. CASE Written
  <2>1. handler.at = "writing" /\ handler.update \in Updates \cup {0}
    BY <1>3 DEF Written, HandlerTypes, Handlers
  <2>2. HostTypes'
    BY <1>3 DEF Written, Writes, WriteFails, HostTypes, HandlerTypes, Handlers
  <2>3. SendTypes' /\ HandlerTypes' /\ UpdateTypes'
    <3>1. PICK o \in {"commit", "abort"} : BeginFinalization(handler.update, o)
      BY <1>3 DEF Written, WriteFails
    <3> QED  BY <2>1, <3>1, BeginFinalizationType, <1>3 DEF Written, UpdateTypes
  <2> QED  BY <2>2, <2>3, <1>3 DEF Written, FixedTypes, SnapshotTypes, RuntimeTypes,
           PreferenceTypes, StartTypes
<1>4. CASE Finalizing
  <2>1. HandlerTypes'
    BY <1>4, ContentsType DEF Finalizing, HandlerTypes, Handlers, Idle
  <2>2. SendTypes'
    BY <1>4 DEF Finalizing, Returns, SendTypes, CommandStates
  <2>3. UpdateTypes'
    <3>1. pending' \in Pendings
      BY <1>4 DEF Finalizing, UpdateTypes, Pendings, NoPending
    <3>2. update' \in [Updates -> {"none", "sending", "waiting", "resolved", "rejected"}]
      BY <1>4 DEF Finalizing, UpdateTypes
    <3> QED  BY <3>1, <3>2, <1>4 DEF Finalizing, UpdateTypes
  <2> QED  BY <2>1, <2>2, <2>3, <1>4 DEF Finalizing, FixedTypes, HostTypes, SnapshotTypes,
           RuntimeTypes, PreferenceTypes, StartTypes
<1> QED  BY <1>1, <1>2, <1>3, <1>4

\* The batch handler takes an answer of the runtime.
LEMMA AnswerTypes ==
  ASSUME TypeOK, HandlePrepared \/ HandleCommitted \/ HandleRejected \/ HandleApplied
  PROVE  TypeOK'
<1> USE DEF TypeOK, fixed, hostVars, runtimeVars, sendVars, preferenceVars, startVars, updateVars
<1>1. CASE HandlePrepared
  <2>1. RuntimeTypes' /\ Reply \in Messages
    BY <1>1, ConsumesType DEF HandlePrepared, Takes, Ready
  <2>2. pending.update \in Updates \cup {0} /\ astray' \subseteq Updates
    BY <1>1 DEF HandlePrepared, UpdateTypes, Pendings, Misses
  <2>3. /\ SendTypes' /\ HandlerTypes'
        /\ outcome' \in [Updates -> {"none", "commit", "abort"}]
    <3>1. ASSUME NEW o \in {"commit", "abort"}, BeginFinalization(pending.update, o)
          PROVE  /\ SendTypes' /\ HandlerTypes'
                 /\ outcome' \in [Updates -> {"none", "commit", "abort"}]
      BY <2>2, <3>1, BeginFinalizationType
    <3>2. ASSUME UNCHANGED <<sendVars, outcome>>,
                 handler' = [Idle EXCEPT !.at = "writing", !.update = pending.update,
                                         !.contents = Reply.prepared]
          PROVE  /\ SendTypes' /\ HandlerTypes'
                 /\ outcome' \in [Updates -> {"none", "commit", "abort"}]
      BY <2>1, <2>2, <3>2, ContentsType DEF SendTypes, HandlerTypes, UpdateTypes, Handlers, Idle, Messages
    <3>3. ASSUME UNCHANGED <<sendVars, outcome, handler>>
          PROVE  /\ SendTypes' /\ HandlerTypes'
                 /\ outcome' \in [Updates -> {"none", "commit", "abort"}]
      BY <3>3 DEF SendTypes, HandlerTypes, UpdateTypes
    <3> QED  BY <1>1, <3>1, <3>2, <3>3 DEF HandlePrepared
  <2> QED  BY <2>1, <2>2, <2>3, <1>1 DEF HandlePrepared, FixedTypes, HostTypes, SnapshotTypes,
           UpdateTypes, PreferenceTypes, StartTypes
<1>2. CASE HandleCommitted
  <2>0. replies # <<>>
    BY <1>2 DEF HandleCommitted, Ready
  <2>1. Reply \in Messages /\ Tail(replies) \in Seq(Messages)
    BY <2>0, TailMail DEF RuntimeTypes, Reply
  <2>2. SnapshotTypes'
    BY <1>2, <2>1 DEF HandleCommitted, SnapshotTypes, Messages
  <2>3. ASSUME Consumes, UNCHANGED <<handler, faulted, startVars>>
        PROVE  RuntimeTypes' /\ HandlerTypes' /\ StartTypes' /\ faulted' \in BOOLEAN
    BY <2>0, <2>3, ConsumesType DEF HandlerTypes, StartTypes, FixedTypes
  <2>4. ASSUME Throws(Tail(replies))
        PROVE  RuntimeTypes' /\ HandlerTypes' /\ StartTypes' /\ faulted' \in BOOLEAN
    BY <2>1, <2>4, ThrowsType
  <2>5. RuntimeTypes' /\ HandlerTypes' /\ StartTypes' /\ faulted' \in BOOLEAN
    BY <2>3, <2>4, <1>2 DEF HandleCommitted
  <2>6. UpdateTypes'
    <3>1. CASE IsFinalized
      BY <3>1, <1>2, SettlesType DEF HandleCommitted
    <3>2. CASE ~IsFinalized
      BY <3>2, <1>2 DEF HandleCommitted, UpdateTypes
    <3> QED  BY <3>1, <3>2
  <2> QED  BY <2>2, <2>5, <2>6, <1>2 DEF HandleCommitted, FixedTypes, HostTypes, SendTypes,
           PreferenceTypes
<1>3. CASE HandleRejected
  <2>1. RuntimeTypes' /\ Reply \in Messages
    BY <1>3, ConsumesType DEF HandleRejected, Takes, Ready
  <2>2. UpdateTypes'
    <3>1. ASSUME Misses, UNCHANGED <<pending, completion, update, automatic, expected, outcome>>
          PROVE  UpdateTypes'
      BY <3>1 DEF Misses, UpdateTypes
    <3> QED  BY <3>1, <1>3, SettlesType DEF HandleRejected
  <2>3. PreferenceTypes'
    BY <2>1, <1>3 DEF HandleRejected, Ends, Deferred, Unmatched, PreferenceTypes
  <2> QED  BY <2>1, <2>2, <2>3, <1>3 DEF HandleRejected, FixedTypes, HostTypes, SnapshotTypes,
           SendTypes, HandlerTypes, StartTypes
<1>4. CASE HandleApplied
  <2>1. RuntimeTypes' /\ Reply \in Messages
    BY <1>4, ConsumesType DEF HandleApplied, Takes, Ready
  <2>2. SnapshotTypes' /\ PreferenceTypes'
    BY <2>1, <1>4 DEF HandleApplied, Ends, Deferred, Unmatched, PreferenceTypes, SnapshotTypes, Messages
  <2> QED  BY <2>1, <2>2, <1>4 DEF HandleApplied, FixedTypes, HostTypes, SendTypes, UpdateTypes,
           HandlerTypes, StartTypes
<1> QED  BY <1>1, <1>2, <1>3, <1>4

\* A step of the chain that starts a loaded project.
LEMMA StartStepTypes ==
  ASSUME TypeOK, NEW s \in Sessions,
         Settled(s) \/ Applied(s) \/ ApplyFails(s) \/ PreferencesApplied(s) \/ Starts(s)
  PROVE  TypeOK'
<1> USE DEF TypeOK, fixed, hostVars, runtimeVars, sendVars, preferenceVars, startVars, updateVars,
         ChainKeeps
<1>1. StartTypes'
  <2>1. ASSUME NEW at \in {"none", "settling", "applying", "continuing", "done", "failed"},
               startup' = [startup EXCEPT ![s].at = at], loading' \in BOOLEAN
        PROVE  StartTypes'
    <3>1. startup' \in [Sessions -> Chains]
      BY <2>1 DEF StartTypes, Chains
    <3> QED  BY <3>1, <2>1 DEF StartTypes
  <2>2. CASE Settled(s)
    BY <2>1, <2>2 DEF Settled, MovesTo, Abandons, StartTypes
  <2>3. CASE Applied(s) \/ ApplyFails(s)
    BY <2>3 DEF Applied, ApplyFails, StartTypes
  <2>4. CASE PreferencesApplied(s) \/ Starts(s)
    BY <2>1, <2>4 DEF PreferencesApplied, Starts, MovesTo, Abandons, StartTypes
  <2> QED  BY <2>2, <2>3, <2>4
<1>2. SendTypes'
  <2>1. CASE Settled(s)
    BY <2>1, PostsType DEF Settled, SendTypes
  <2>2. CASE Applied(s) \/ ApplyFails(s)
    BY <2>2, ReturnsType DEF Applied, ApplyFails
  <2>3. CASE PreferencesApplied(s) \/ Starts(s)
    BY <2>3 DEF PreferencesApplied, Starts, SendTypes
  <2> QED  BY <2>1, <2>2, <2>3
<1>3. PreferenceTypes' /\ SnapshotTypes'
  <2>1. ASSUME Applied(s) PROVE PreferenceTypes' /\ SnapshotTypes'
    BY <2>1 DEF Applied, Ends, PreferenceTypes, SnapshotTypes, Messages
  <2>2. ASSUME Settled(s) PROVE PreferenceTypes' /\ SnapshotTypes'
    BY <2>2 DEF Settled, PreferenceTypes, SnapshotTypes
  <2>3. ASSUME ApplyFails(s) \/ PreferencesApplied(s) \/ Starts(s)
        PROVE  PreferenceTypes' /\ SnapshotTypes'
    BY <2>3 DEF ApplyFails, PreferencesApplied, Starts, Ends, PreferenceTypes, SnapshotTypes
  <2> QED  BY <2>1, <2>2, <2>3
<1>4. ChainKeeps
  BY DEF Settled, Applied, ApplyFails, PreferencesApplied, Starts
<1> QED  BY <1>1, <1>2, <1>3, <1>4 DEF FixedTypes, HostTypes, RuntimeTypes, UpdateTypes, HandlerTypes

\* A disturbance, or the session after it.
LEMMA SessionStepTypes ==
  ASSUME TypeOK, Reloads \/ Faults \/ Retires \/ Replaces
  PROVE  TypeOK'
<1> USE DEF TypeOK, fixed, hostVars, runtimeVars, sendVars, preferenceVars, startVars, updateVars
<1>1. CASE Reloads
  <2>1. disturbances' \in Nat
    BY <1>1 DEF Reloads, Disturbs, FixedTypes
  <2>2. HostTypes' /\ source' \in Configurations
    <3>1. MaxUpdates + disturbances' \in Nat
      BY <2>1
    <3>2. file' \in Configurations
      BY <1>1, <3>1, ContentsType DEF Reloads
    <3> QED  BY <3>2, <1>1 DEF Reloads, HostTypes
  <2>3. replies' \in Seq(Messages)
    <3>1. PICK w : w = file'
      OBVIOUS
    <3> QED  BY <1>1, <2>2, <3>1, ContentsType, RepliesType DEF Reloads, HostTypes
  <2>4. preparation' \in Preparations
    BY <1>1, ContentsType DEF Reloads, NoPreparation, Preparations
  <2>5. RuntimeTypes'
    BY <2>2, <2>3, <2>4, <1>1 DEF Reloads, RuntimeTypes
  <2> QED  BY <2>1, <2>2, <2>5, <1>1 DEF Reloads, FixedTypes, SnapshotTypes, SendTypes, UpdateTypes,
           HandlerTypes, PreferenceTypes, StartTypes
<1>2. CASE Faults
  <2>1. disturbances' \in Nat
    BY <1>2 DEF Faults, Disturbs, FixedTypes
  <2>2. RuntimeTypes' /\ HandlerTypes' /\ StartTypes' /\ faulted' \in BOOLEAN
    BY <1>2, ThrowsType DEF Faults, RuntimeTypes
  <2> QED  BY <2>1, <2>2, <1>2 DEF Faults, FixedTypes, HostTypes, SnapshotTypes, SendTypes,
           UpdateTypes, PreferenceTypes
<1>3. CASE Retires
  <2>1. disturbances' \in Nat
    BY <1>3 DEF Retires, Disturbs, FixedTypes
  <2>2. SnapshotTypes'
    BY <1>3, ContentsType DEF Retires, ResetsUpdate, SnapshotTypes
  <2>3. UpdateTypes'
    BY <1>3 DEF Retires, ResetsUpdate, UpdateTypes, NoPending, Pendings
  <2>4. PreferenceTypes'
    BY <1>3 DEF Retires, PreferenceTypes
  <2> QED  BY <2>1, <2>2, <2>3, <2>4, <1>3 DEF Retires, FixedTypes, HostTypes, RuntimeTypes,
           SendTypes, HandlerTypes, StartTypes
<1>4. CASE Replaces
  <2>1. SendTypes'
    BY <1>4 DEF Replaces, SendTypes, CommandStates
  <2>2. RuntimeTypes'
    <3>1. replies' \in Seq(Messages)
      BY <1>4, ContentsType, MessageType, ShortMail DEF Replaces, HostTypes
    <3>2. preparation' \in Preparations
      BY <1>4, ContentsType DEF Replaces, NoPreparation, Preparations
    <3> QED  BY <3>1, <3>2, <1>4 DEF Replaces, RuntimeTypes, HostTypes
  <2>3. session' \in Nat \ {0}
    BY <1>4 DEF Replaces, FixedTypes
  <2> QED  BY <2>1, <2>2, <2>3, <1>4 DEF Replaces, FixedTypes, HostTypes, SnapshotTypes, UpdateTypes,
           HandlerTypes, PreferenceTypes, StartTypes
<1> QED  BY <1>1, <1>2, <1>3, <1>4

\* A step that changes nothing.
LEMMA StutterTypes ==
  ASSUME TypeOK, UNCHANGED vars
  PROVE  TypeOK'
BY DEF TypeOK, vars, fixed, hostVars, runtimeVars, sendVars, preferenceVars, startVars, updateVars,
  FixedTypes, HostTypes, SnapshotTypes, RuntimeTypes, SendTypes, UpdateTypes, HandlerTypes,
  PreferenceTypes, StartTypes

\* Every step keeps the types.
LEMMA StepTypes == TypeOK /\ [Next]_vars => TypeOK'
BY AcceptedTypes, UpdateStepTypes, HandlerStepTypes, AnswerTypes, StartStepTypes, SessionStepTypes,
   StutterTypes DEF Next, Store

\* The settings are always of their types: the pending update, the awaited handler, the messages.
THEOREM TypesHold == Spec => []TypeOK
<1>1. Init => TypeOK
  BY InitTypes
<1>2. TypeOK /\ [Next]_vars => TypeOK'
  BY StepTypes
<1> QED  BY <1>1, <1>2, PTL DEF Spec

-----------------------------------------------------------------------------
(* The inductive invariant. *)

PrepareOf(k) == <<"prepare", k>>
FinalizeOf(k) == <<"finalize", k>>
InFlight == {"posted", "accepted"}

\* What the runtime runs on was in the file, which was as well.
Stored == file \in stored /\ (writable => source \in stored)

\* The runtime's next id is that of no message, no preparation and no prepare command of the
\* session; a command that was not submitted has none.
IdsAreNew ==
  /\ preparation.id < nextId
  /\ \A m \in Mail : m.id < nextId
  /\ \A k \in Updates :
       LET c == PrepareOf(k) IN
       /\ sent[c] = "none" => id[c] = 0
       /\ sentIn[c] <= session
       /\ sentIn[c] = session => id[c] < nextId

\* A reply to a prepare carries what the runtime holds prepared under its id.
PreparedIsPreparation ==
  \A m \in Mail : m.type = "prepared" =>
    m.id # 0 /\ (preparation.id = m.id => preparation.contents = m.prepared)

\* Within the session that prepared it, the runtime's preparation is that of the command whose
\* id it has.
PreparationOfOwn ==
  \A k \in Updates :
    LET c == PrepareOf(k) IN
    sentIn[c] = session /\ id[c] # 0 /\ preparation.id = id[c] => preparation.update = k

\* The pending update has its id, and is of this session unless it went astray.
PendingIsRegistered ==
  LET k == pending.update IN
  pending.stage # "none" =>
    /\ k \in Updates /\ sent[PrepareOf(k)] = "done"
    /\ pending.stage = "finalizing" => sent[FinalizeOf(k)] = "done" /\ ~replacing
    /\ k \notin astray => ~replacing /\ sentIn[PrepareOf(k)] = session

\* The batch handler awaits one thing at a time, and no session is replaced under it: only its own
\* finalization and its own confirmation of a migration are under way.
HandlerIsAlone ==
  /\ handler.at # "idle" => ~replacing
  /\ \A k \in Updates :
       sent[FinalizeOf(k)] \in InFlight => handler.at = "finalizing" /\ handler.update = k
  /\ \A k \in automatic :
       /\ sent[PrepareOf(k)] # "none"
       /\ sent[PrepareOf(k)] \in InFlight => handler.at = "beginning" /\ handler.update = k

\* A handler that writes or finalizes has the contents that the runtime has prepared, unless the
\* runtime has prepared something else since; before it lets the runtime commit them, it has
\* stored them.
HandlerHasPrepared ==
  LET k == handler.update
      c == PrepareOf(k)
  IN handler.at \in {"writing", "finalizing"} =>
       /\ k \in Updates /\ sent[c] = "done" /\ id[c] # 0 /\ id[c] < nextId
       /\ k \notin astray => sentIn[c] = session
       /\ handler.at = "writing" /\ preparation.id = id[c] => preparation.contents = handler.contents
       /\ handler.at = "finalizing" /\ preparation.id = id[c] /\ writable /\ outcome[k] = "commit"
            => preparation.contents \in stored

\* The runtime has the finalization of an update, which the store still awaits an answer to.
Finalized(k) ==
  \/ pending.stage = "finalizing" /\ pending.update = k
  \/ handler.at = "finalizing" /\ handler.update = k /\ sent[FinalizeOf(k)] = "accepted"

\* A confirmation that answers the commit of an update means that this update was committed.
CommittedIsAnswered ==
  \A k \in Updates : Finalized(k) =>
    /\ id[FinalizeOf(k)] < nextId
    /\ outcome[k] = "commit" /\ k \notin astray =>
         \A m \in Mail : m.type = "committed" /\ m.id = id[FinalizeOf(k)] => k \in committed

SettingsInv ==
  /\ TypeOK /\ Stored /\ IdsAreNew /\ PreparedIsPreparation /\ PreparationOfOwn
  /\ PendingIsRegistered /\ HandlerIsAlone /\ HandlerHasPrepared /\ CommittedIsAnswered

\* The initial state.
LEMMA InitInv == Init => SettingsInv
<1> SUFFICES ASSUME Init PROVE SettingsInv
  OBVIOUS
<1>0. TypeOK
  BY InitTypes
<1>1. Mail = {Message("report", 0, file, Null)}
  <2>1. Message("report", 0, file, Null) \in Messages
    BY <1>0, ContentsType, MessageType DEF TypeOK, HostTypes
  <2>2. replies = <<Message("report", 0, file, Null)>>
    BY DEF Init
  <2> QED  BY <2>1, <2>2, ShortMail DEF Mail
<1>2. \A m \in Mail : m.type = "report" /\ m.id = 0
  BY <1>1 DEF Message
<1>3. \A c \in Commands : sent[c] = "none" /\ id[c] = 0 /\ sentIn[c] = 0
  BY DEF Init
<1>4. Stored
  BY DEF Init, Stored
<1>5. IdsAreNew
  <2>1. nextId = 1 /\ session = 1 /\ preparation.id = 0
    BY DEF Init, NoPreparation
  <2>2. \A k \in Updates : sent[PrepareOf(k)] = "none" /\ id[PrepareOf(k)] = 0 /\ sentIn[PrepareOf(k)] = 0
    BY <1>3, CommandTypes DEF PrepareOf
  <2> QED  BY <1>2, <2>1, <2>2 DEF IdsAreNew
<1>6. PreparedIsPreparation /\ PreparationOfOwn
  BY <1>2, <1>3, CommandTypes DEF Init, PreparedIsPreparation, PreparationOfOwn, PrepareOf
<1>7. PendingIsRegistered /\ HandlerHasPrepared /\ CommittedIsAnswered
  BY DEF Init, PendingIsRegistered, HandlerHasPrepared, CommittedIsAnswered, NoPending, Idle,
     Finalized
<1>8. HandlerIsAlone
  BY <1>3, CommandTypes DEF Init, HandlerIsAlone, PrepareOf, FinalizeOf, Idle, InFlight
<1> QED  BY <1>0, <1>4, <1>5, <1>6, <1>7, <1>8 DEF SettingsInv

-----------------------------------------------------------------------------
(* Steps that disturb little. *)

\* The commands of the updates are as they were.
SameSends ==
  \A k \in Updates :
    /\ sent'[PrepareOf(k)] = sent[PrepareOf(k)] /\ id'[PrepareOf(k)] = id[PrepareOf(k)]
    /\ sentIn'[PrepareOf(k)] = sentIn[PrepareOf(k)]
    /\ sent'[FinalizeOf(k)] = sent[FinalizeOf(k)] /\ id'[FinalizeOf(k)] = id[FinalizeOf(k)]

\* The handler is where it was, or moves between awaits in which no update is under way.
Resting ==
  \/ UNCHANGED handler
  \/ /\ handler.at \in {"idle", "migrating"} /\ handler'.at \in {"idle", "migrating"}
     /\ ~replacing

\* Messages are lost or taken, the file is written, and updates end or are given up: nothing is
\* sent or prepared.
Harmless ==
  /\ UNCHANGED <<writable, replacing, session, source, preparation, committed, nextId, automatic,
                 outcome>>
  /\ stored \subseteq stored' /\ file' \in stored'
  /\ Mail' \subseteq Mail /\ SameSends /\ Resting
  /\ pending' \in {pending, NoPending} /\ astray \subseteq astray'

\* Such a step keeps the invariant.
LEMMA HarmlessStep ==
  ASSUME SettingsInv, TypeOK', Harmless
  PROVE  SettingsInv'
<1> USE DEF SettingsInv, Harmless
<1>1. Stored'
  BY DEF Stored
<1>2. IdsAreNew'
  BY DEF IdsAreNew, SameSends
<1>3. PreparedIsPreparation' /\ PreparationOfOwn'
  BY DEF PreparedIsPreparation, PreparationOfOwn, SameSends
<1>4. PendingIsRegistered'
  BY DEF PendingIsRegistered, SameSends, NoPending
<1>5. HandlerIsAlone'
  <2>1. UNCHANGED handler \/ ~replacing
    BY DEF Resting
  <2>2. \A k \in Updates : sent[FinalizeOf(k)] \in InFlight =>
          handler'.at = "finalizing" /\ handler'.update = k
    BY DEF HandlerIsAlone, Resting
  <2>3. automatic \subseteq Updates
    BY DEF TypeOK, UpdateTypes
  <2>4. \A k \in automatic : sent[PrepareOf(k)] \in InFlight =>
          handler'.at = "beginning" /\ handler'.update = k
    BY DEF HandlerIsAlone, Resting
  <2> QED  BY <2>1, <2>2, <2>3, <2>4 DEF HandlerIsAlone, SameSends
<1>6. HandlerHasPrepared'
  <2>1. handler'.at \in {"writing", "finalizing"} => UNCHANGED handler
    BY DEF Resting
  <2> QED  BY <2>1 DEF HandlerHasPrepared, SameSends
<1>7. CommittedIsAnswered'
  <2>1. handler'.at \in {"writing", "finalizing"} => UNCHANGED handler
    BY DEF Resting
  <2>2. \A k \in Updates : Finalized(k)' => Finalized(k)
    BY <2>1 DEF Finalized, SameSends, NoPending
  <2> QED  BY <2>2 DEF CommittedIsAnswered, SameSends
<1> QED  BY <1>1, <1>2, <1>3, <1>4, <1>5, <1>6, <1>7

\* Commands of the updates are none of the preferences.
LEMMA OtherSends ==
  ASSUME SendTypes, NEW c, c[1] = "apply", NEW v,
         sent' = [sent EXCEPT ![c] = v], id' = id,
         sentIn' = [sentIn EXCEPT ![c] = session] \/ sentIn' = sentIn
  PROVE  SameSends
<1>1. \A k \in Updates : PrepareOf(k) # c /\ FinalizeOf(k) # c
  BY DEF PrepareOf, FinalizeOf
<1>2. \A k \in Updates : PrepareOf(k) \in Commands /\ FinalizeOf(k) \in Commands
  BY CommandTypes DEF PrepareOf, FinalizeOf
<1> QED  BY <1>1, <1>2 DEF SendTypes, SameSends

\* The messages after taking one, and after a failed handler has lost the rest.
LEMMA ConsumesMail ==
  ASSUME RuntimeTypes, replies # <<>>, Consumes \/ Throws(Tail(replies)) \/ Throws(replies)
  PROVE  /\ Mail' \subseteq Mail /\ Reply \in Mail
         /\ UNCHANGED <<source, preparation, committed, nextId>>
<1>1. replies' \in {Tail(replies), replies, <<>>}
  BY DEF Consumes, Throws
<1> QED  BY <1>1, TailMail, ShortMail DEF RuntimeTypes, Consumes, Throws, Mail, Reply

\* The chain that starts a project leaves the updates alone.
LEMMA StartStepHarmless ==
  ASSUME SettingsInv, NEW s \in Sessions,
         Settled(s) \/ Applied(s) \/ ApplyFails(s) \/ PreferencesApplied(s) \/ Starts(s)
  PROVE  Harmless
<1>1. ChainKeeps
  BY DEF Settled, Applied, ApplyFails, PreferencesApplied, Starts
<1>2. SameSends
  <2>1. CASE UNCHANGED sendVars
    BY <2>1 DEF sendVars, SameSends
  <2>2. CASE Posts(<<"apply", s>>) \/ Returns(<<"apply", s>>)
    BY <2>2, OtherSends DEF Posts, Returns, SettingsInv, TypeOK
  <2> QED  BY <2>1, <2>2 DEF Settled, Applied, ApplyFails, PreferencesApplied, Starts
<1>3. Mail' \subseteq Mail
  BY <1>1 DEF ChainKeeps, runtimeVars, Mail
<1> QED  BY <1>1, <1>2, <1>3 DEF Harmless, SettingsInv, Stored, ChainKeeps, fixed, hostVars, runtimeVars, updateVars, Resting

\* Nor does a handler that takes a configuration, an answer, or fails.
LEMMA HandlerStepHarmless ==
  ASSUME SettingsInv,
         TakesConfiguration \/ HandleCommitted \/ HandleRejected \/ HandleApplied \/ Faults
  PROVE  Harmless
<1> USE DEF SettingsInv, TypeOK, fixed, hostVars, sendVars, updateVars
<1>1. Mail' \subseteq Mail /\ UNCHANGED <<source, preparation, committed, nextId>>
  <2>1. CASE Faults
    BY <2>1, ShortMail DEF Faults, Throws, Mail
  <2>2. CASE TakesConfiguration \/ HandleRejected \/ HandleApplied
    <3>1. replies # <<>> /\ Consumes
      BY <2>2 DEF TakesConfiguration, HandleRejected, HandleApplied, Takes, Ready
    <3> QED  BY <3>1, ConsumesMail
  <2>3. CASE HandleCommitted
    <3>1. replies # <<>> /\ (Consumes \/ Throws(Tail(replies)))
      BY <2>3 DEF HandleCommitted, Ready
    <3> QED  BY <3>1, ConsumesMail
  <2> QED  BY <2>1, <2>2, <2>3
<1>2. SameSends
  BY DEF TakesConfiguration, HandleCommitted, HandleRejected, HandleApplied, Faults, SameSends
<1>3. Resting
  <2>1. (handler.at = "idle" /\ ~replacing) \/ UNCHANGED handler
    BY DEF TakesConfiguration, HandleCommitted, HandleRejected, HandleApplied, Faults, Takes, Ready
  <2>2. handler'.at \in {"idle", "migrating"} \/ UNCHANGED handler
    <3>1. CASE TakesConfiguration
      <4>1. \/ \E then : handler' = [Idle EXCEPT !.at = "migrating", !.then = then]
            \/ handler' = Idle
        BY <3>1 DEF TakesConfiguration, GoesOn
      <4>2. ASSUME NEW then, handler' = [Idle EXCEPT !.at = "migrating", !.then = then]
            PROVE  handler'.at = "migrating"
        BY <4>2 DEF Idle
      <4>3. Idle.at = "idle"
        BY DEF Idle
      <4> QED  BY <4>1, <4>2, <4>3
    <3>2. CASE HandleCommitted \/ Faults
      BY <3>2 DEF HandleCommitted, Faults, Throws, Idle
    <3>3. CASE HandleRejected \/ HandleApplied
      BY <3>3 DEF HandleRejected, HandleApplied
    <3> QED  BY <3>1, <3>2, <3>3
  <2> QED  BY <2>1, <2>2 DEF Resting
<1>4. pending' \in {pending, NoPending} /\ astray \subseteq astray' /\ UNCHANGED <<automatic, outcome>>
  BY DEF TakesConfiguration, HandleCommitted, HandleRejected, HandleApplied, Faults, Settles, Misses
<1>5. UNCHANGED <<writable, replacing, session, file, stored>>
  BY DEF TakesConfiguration, HandleCommitted, HandleRejected, HandleApplied, Faults
<1> QED  BY <1>1, <1>2, <1>3, <1>4, <1>5 DEF Harmless, Stored

\* A step that changes nothing.
LEMMA StutterHarmless ==
  ASSUME SettingsInv, UNCHANGED vars
  PROVE  Harmless
<1> USE DEF vars, fixed, hostVars, runtimeVars, sendVars, updateVars
<1>1. SameSends /\ Resting /\ Mail' \subseteq Mail
  BY DEF SameSends, Resting, Mail
<1> QED  BY <1>1 DEF Harmless, SettingsInv, Stored

-----------------------------------------------------------------------------
(* Steps of an update. *)

\* The commands of the updates, each with its own name.
LEMMA UpdateCommands ==
  ASSUME NEW k \in Updates
  PROVE  /\ PrepareOf(k) \in Commands /\ FinalizeOf(k) \in Commands
         /\ \A j \in Updates : /\ PrepareOf(j) = PrepareOf(k) <=> j = k
                               /\ FinalizeOf(j) = FinalizeOf(k) <=> j = k
                               /\ PrepareOf(j) # FinalizeOf(k)
BY CommandTypes DEF PrepareOf, FinalizeOf

\* Submitting a command changes that command.
LEMMA PostsEffect ==
  ASSUME SendTypes, NEW c \in Commands, Posts(c)
  PROVE  /\ sent[c] = "none" /\ id' = id
         /\ \A d \in Commands : /\ sent'[d] = IF d = c THEN "posted" ELSE sent[d]
                                /\ sentIn'[d] = IF d = c THEN session ELSE sentIn[d]
BY DEF SendTypes, Posts

\* So does the end of its submission.
LEMMA ReturnsEffect ==
  ASSUME SendTypes, NEW c \in Commands, Returns(c)
  PROVE  /\ id' = id /\ sentIn' = sentIn
         /\ \A d \in Commands : sent'[d] = IF d = c THEN "done" ELSE sent[d]
BY DEF SendTypes, Returns

\* An update begins: by the player, or by the handler that has migrated the file.
LEMMA BeginStep ==
  ASSUME SettingsInv, TypeOK', NEW k \in Updates, BeginUpdate(k),
         UNCHANGED <<writable, replacing, session, runtimeVars>>,
         stored \subseteq stored', file' \in stored',
         \/ UNCHANGED <<handler, automatic>>
         \/ /\ handler.at = "migrating" /\ handler'.at = "beginning" /\ handler'.update = k
            /\ automatic' = automatic \cup {k}
  PROVE  SettingsInv'
<1> USE DEF SettingsInv, runtimeVars
<1>1. /\ sent[PrepareOf(k)] = "none" /\ id' = id
      /\ \A j \in Updates :
           /\ sent'[PrepareOf(j)] = IF j = k THEN "posted" ELSE sent[PrepareOf(j)]
           /\ sentIn'[PrepareOf(j)] = IF j = k THEN session ELSE sentIn[PrepareOf(j)]
           /\ sent'[FinalizeOf(j)] = sent[FinalizeOf(j)]
  <2>1. Posts(PrepareOf(k))
    BY DEF BeginUpdate, PrepareOf
  <2> QED  BY <2>1, PostsEffect, UpdateCommands DEF TypeOK
<1>2. UNCHANGED <<pending, outcome, astray>> /\ Mail' = Mail
  BY DEF BeginUpdate, Mail
<1>3. automatic \subseteq Updates /\ session \in Nat /\ nextId \in Nat \ {0}
  BY DEF TypeOK, UpdateTypes, FixedTypes, RuntimeTypes
<1>4. id[PrepareOf(k)] = 0
  BY <1>1 DEF IdsAreNew
<1>5. Stored'
  BY DEF Stored
<1>6. IdsAreNew'
  BY <1>1, <1>2, <1>3, <1>4 DEF IdsAreNew
<1>7. PreparedIsPreparation' /\ PreparationOfOwn'
  BY <1>1, <1>2, <1>4 DEF PreparedIsPreparation, PreparationOfOwn
<1>8. PendingIsRegistered'
  BY <1>1, <1>2 DEF PendingIsRegistered
<1>9. HandlerIsAlone'
  BY <1>1, <1>3 DEF HandlerIsAlone, InFlight
<1>10. HandlerHasPrepared'
  <2>1. handler'.at \in {"writing", "finalizing"} => UNCHANGED handler
    OBVIOUS
  <2> QED  BY <1>1, <1>2, <2>1 DEF HandlerHasPrepared
<1>11. CommittedIsAnswered'
  <2>1. handler'.at \in {"writing", "finalizing"} => UNCHANGED handler
    OBVIOUS
  <2>2. \A j \in Updates : Finalized(j)' => Finalized(j)
    BY <1>1, <1>2, <2>1 DEF Finalized
  <2> QED  BY <1>1, <1>2, <2>2 DEF CommittedIsAnswered
<1> QED  BY <1>5, <1>6, <1>7, <1>8, <1>9, <1>10, <1>11

\* The submission of a prepare command ends: it has its id and is pending, or it has failed.
LEMMA PrepareEnds ==
  ASSUME SettingsInv, TypeOK', NEW k \in Updates,
         sent[PrepareOf(k)] \in InFlight, Returns(PrepareOf(k)),
         UNCHANGED <<writable, replacing, session, file, stored, source, preparation, committed,
                     nextId, automatic, outcome>>,
         Mail' \subseteq Mail, astray \subseteq astray',
         IF k \in automatic THEN handler'.at = "idle" ELSE UNCHANGED handler,
         \/ UNCHANGED pending
         \/ /\ pending' = [stage |-> "preparing", update |-> k]
            /\ k \notin astray' => ~replacing /\ sentIn[PrepareOf(k)] = session
  PROVE  SettingsInv'
<1> USE DEF SettingsInv
<1>1. /\ id' = id /\ sentIn' = sentIn
      /\ \A j \in Updates :
           /\ sent'[PrepareOf(j)] = IF j = k THEN "done" ELSE sent[PrepareOf(j)]
           /\ sent'[FinalizeOf(j)] = sent[FinalizeOf(j)]
  BY ReturnsEffect, UpdateCommands DEF TypeOK
<1>2. automatic \subseteq Updates
  BY DEF TypeOK, UpdateTypes
<1>3. k \in automatic => handler.at = "beginning" /\ handler.update = k
  BY DEF HandlerIsAlone
<1>4. handler'.at # "idle" => UNCHANGED handler
  OBVIOUS
<1>5. Stored'
  BY DEF Stored
<1>6. IdsAreNew'
  BY <1>1 DEF IdsAreNew, InFlight
<1>7. PreparedIsPreparation' /\ PreparationOfOwn'
  BY <1>1 DEF PreparedIsPreparation, PreparationOfOwn
<1>8. PendingIsRegistered'
  BY <1>1 DEF PendingIsRegistered
<1>9. HandlerIsAlone'
  <2>1. handler'.at # "idle" => ~replacing'
    BY <1>4 DEF HandlerIsAlone
  <2>2. ASSUME NEW j \in Updates, sent'[FinalizeOf(j)] \in InFlight
        PROVE  handler'.at = "finalizing" /\ handler'.update = j
    BY <1>1, <1>3, <2>2 DEF HandlerIsAlone
  <2>3. ASSUME NEW j \in automatic
        PROVE  /\ sent'[PrepareOf(j)] # "none"
               /\ sent'[PrepareOf(j)] \in InFlight => handler'.at = "beginning" /\ handler'.update = j
    BY <1>1, <1>2, <1>3, <2>3 DEF HandlerIsAlone, InFlight
  <2> QED  BY <2>1, <2>2, <2>3 DEF HandlerIsAlone
<1>10. HandlerHasPrepared'
  BY <1>1, <1>4 DEF HandlerHasPrepared
<1>11. CommittedIsAnswered'
  <2>1. \A j \in Updates : Finalized(j)' => Finalized(j)
    BY <1>1, <1>4 DEF Finalized
  <2> QED  BY <1>1, <2>1 DEF CommittedIsAnswered
<1> QED  BY <1>5, <1>6, <1>7, <1>8, <1>9, <1>10, <1>11

\* The handler lets the runtime commit what it has stored, or abort.
LEMMA FinalizeStep ==
  ASSUME SettingsInv, TypeOK', NEW k \in Updates, NEW o \in {"commit", "abort"},
         BeginFinalization(k, o), handler.at \in {"idle", "writing"}, ~replacing,
         sent[PrepareOf(k)] = "done", id[PrepareOf(k)] # 0, id[PrepareOf(k)] < nextId,
         k \notin astray => sentIn[PrepareOf(k)] = session,
         writable /\ o = "commit" /\ preparation.id = id[PrepareOf(k)]
           => preparation.contents \in stored',
         UNCHANGED <<writable, replacing, session, source, preparation, committed, nextId, automatic,
                     pending, astray>>,
         stored \subseteq stored', file' \in stored', Mail' \subseteq Mail
  PROVE  SettingsInv'
<1> USE DEF SettingsInv
<1>1. /\ sent[FinalizeOf(k)] = "none" /\ id' = id
      /\ \A j \in Updates :
           /\ sent'[FinalizeOf(j)] = IF j = k THEN "posted" ELSE sent[FinalizeOf(j)]
           /\ sent'[PrepareOf(j)] = sent[PrepareOf(j)]
           /\ sentIn'[PrepareOf(j)] = sentIn[PrepareOf(j)]
  BY PostsEffect, UpdateCommands DEF BeginFinalization, TypeOK, FinalizeOf
<1>2. handler'.at = "finalizing" /\ handler'.update = k
  BY DEF BeginFinalization, Idle
<1>3. \A j \in Updates : outcome'[j] = IF j = k THEN o ELSE outcome[j]
  BY DEF BeginFinalization, TypeOK, UpdateTypes
<1>4. automatic \subseteq Updates
  BY DEF TypeOK, UpdateTypes
<1>5. Stored'
  BY DEF Stored
<1>6. IdsAreNew'
  BY <1>1 DEF IdsAreNew
<1>7. PreparedIsPreparation' /\ PreparationOfOwn'
  BY <1>1 DEF PreparedIsPreparation, PreparationOfOwn
<1>8. PendingIsRegistered'
  BY <1>1 DEF PendingIsRegistered
<1>9. HandlerIsAlone'
  BY <1>1, <1>2, <1>4 DEF HandlerIsAlone, InFlight
<1>10. HandlerHasPrepared'
  BY <1>1, <1>2, <1>3 DEF HandlerHasPrepared
<1>11. CommittedIsAnswered'
  <2>1. ASSUME NEW j \in Updates, Finalized(j)' PROVE Finalized(j) /\ j # k
    BY <1>1, <1>2, <2>1 DEF Finalized, PendingIsRegistered
  <2> QED  BY <1>1, <1>3, <2>1 DEF CommittedIsAnswered
<1> QED  BY <1>5, <1>6, <1>7, <1>8, <1>9, <1>10, <1>11

\* The finalization has its id, or has failed.
LEMMA FinalizingStep ==
  ASSUME SettingsInv, TypeOK', Finalizing
  PROVE  SettingsInv'
<1> USE DEF SettingsInv
<1> DEFINE k == handler.update
<1>0. /\ handler.at = "finalizing" /\ k \in Updates /\ sent[PrepareOf(k)] = "done"
      /\ k \notin astray => sentIn[PrepareOf(k)] = session
      /\ ~replacing
  BY DEF Finalizing, HandlerHasPrepared, HandlerIsAlone
<1>1. /\ id' = id
      /\ \A j \in Updates :
           /\ sent'[FinalizeOf(j)] = IF j = k THEN "done" ELSE sent[FinalizeOf(j)]
           /\ sent'[PrepareOf(j)] = sent[PrepareOf(j)]
           /\ sentIn'[PrepareOf(j)] = sentIn[PrepareOf(j)]
  BY <1>0, ReturnsEffect, UpdateCommands DEF Finalizing, TypeOK, FinalizeOf
<1>2. handler'.at = "idle"
  BY DEF Finalizing, Idle
<1>3. /\ UNCHANGED <<writable, replacing, session, file, stored, source, preparation, committed,
                     replies, nextId, automatic, outcome, astray>>
      /\ Mail' = Mail
  BY DEF Finalizing, fixed, hostVars, runtimeVars, Mail
<1>4. \/ pending' \in {pending, NoPending}
      \/ /\ sent[FinalizeOf(k)] = "accepted" /\ pending.stage = "preparing" /\ pending.update = k
         /\ pending' = [stage |-> "finalizing", update |-> k]
  BY DEF Finalizing, FinalizeOf, TypeOK, UpdateTypes, Pendings
<1>5. Stored'
  BY <1>3 DEF Stored
<1>6. IdsAreNew'
  BY <1>1, <1>3 DEF IdsAreNew
<1>7. PreparedIsPreparation' /\ PreparationOfOwn'
  BY <1>1, <1>3 DEF PreparedIsPreparation, PreparationOfOwn
<1>8. PendingIsRegistered'
  BY <1>0, <1>1, <1>3, <1>4 DEF PendingIsRegistered, NoPending
<1>9. HandlerIsAlone'
  <2>1. automatic \subseteq Updates
    BY DEF TypeOK, UpdateTypes
  <2> QED  BY <1>0, <1>1, <1>2, <1>3, <2>1 DEF HandlerIsAlone, InFlight
<1>10. HandlerHasPrepared'
  BY <1>2 DEF HandlerHasPrepared
<1>11. CommittedIsAnswered'
  <2>1. \A j \in Updates : Finalized(j)' => Finalized(j)
    BY <1>0, <1>2, <1>4 DEF Finalized, NoPending
  <2> QED  BY <1>1, <1>3, <2>1 DEF CommittedIsAnswered
<1> QED  BY <1>5, <1>6, <1>7, <1>8, <1>9, <1>10, <1>11

\* The steps of updates are of these kinds.
LEMMA UpdateStep ==
  ASSUME SettingsInv, TypeOK', NEW k \in Updates, Save(k) \/ Registers(k) \/ PrepareFails(k)
  PROVE  SettingsInv'
<1> USE DEF fixed, hostVars, runtimeVars
<1>0. SendTypes /\ RuntimeTypes /\ FixedTypes /\ automatic \subseteq Updates /\ file \in stored
  BY DEF SettingsInv, TypeOK, UpdateTypes, Stored
<1>1. CASE Save(k)
  BY <1>0, <1>1, BeginStep DEF Save
<1>2. CASE Registers(k)
  <2>1. sent[PrepareOf(k)] \in InFlight /\ Returns(PrepareOf(k))
    BY <1>2 DEF Registers, PrepareOf, InFlight
  <2>2. IF k \in automatic THEN handler'.at = "idle" ELSE UNCHANGED handler
    BY <1>2 DEF Registers, GoesOn, Idle
  <2>3. astray \subseteq astray'
    BY <1>2 DEF Registers
  <2>4. k \notin astray' => ~replacing /\ sentIn[PrepareOf(k)] = session
    <3>1. k \notin astray' => ~Stray(k)
      BY <1>2 DEF Registers
    <3>2. sentIn[PrepareOf(k)] <= session /\ sentIn[PrepareOf(k)] \in Nat /\ session \in Nat
      BY <1>0, UpdateCommands DEF SettingsInv, IdsAreNew, SendTypes, FixedTypes
    <3>3. ~Stray(k) => ~replacing /\ sentIn[PrepareOf(k)] = session
      BY <3>2 DEF Stray, PrepareOf
    <3> QED  BY <3>1, <3>3
  <2>5. UNCHANGED <<writable, replacing, session, file, stored, source, preparation, committed,
                    nextId, automatic, outcome>> /\ Mail' \subseteq Mail
    BY <1>2 DEF Registers, Mail
  <2>6. pending' = [stage |-> "preparing", update |-> k]
    BY <1>2 DEF Registers
  <2> QED  BY <2>1, <2>2, <2>3, <2>4, <2>5, <2>6, PrepareEnds
<1>3. CASE PrepareFails(k)
  <2>1. sent[PrepareOf(k)] \in InFlight /\ Returns(PrepareOf(k))
    BY <1>3 DEF PrepareFails, PrepareOf, InFlight
  <2>2. IF k \in automatic THEN handler'.at = "idle" ELSE UNCHANGED handler
    BY <1>3 DEF PrepareFails, Throws, Idle
  <2>3. Mail' \subseteq Mail /\ UNCHANGED <<source, preparation, committed, nextId>>
    <3>1. replies' \in {replies, <<>>} /\ UNCHANGED <<source, preparation, committed, nextId>>
      BY <1>3 DEF PrepareFails, Throws
    <3> QED  BY <3>1, ShortMail DEF Mail
  <2>4. UNCHANGED <<writable, replacing, session, file, stored, automatic, outcome, astray, pending>>
    BY <1>3 DEF PrepareFails
  <2> QED  BY <2>1, <2>2, <2>3, <2>4, PrepareEnds
<1> QED  BY <1>1, <1>2, <1>3

\* The handler that migrates the file.
LEMMA MigratesStep ==
  ASSUME SettingsInv, TypeOK', Migrates
  PROVE  SettingsInv'
<1> USE DEF fixed, hostVars, runtimeVars, sendVars, updateVars
<1>0. SendTypes /\ RuntimeTypes /\ ~replacing /\ handler.at = "migrating"
  BY DEF SettingsInv, TypeOK, HandlerIsAlone, Migrates
<1>1. CASE Throws(replies) /\ UNCHANGED <<hostVars, updateVars, sendVars>>
  <2>1. Mail' \subseteq Mail /\ UNCHANGED <<source, preparation, committed, nextId>>
    BY <1>1, ShortMail DEF Throws, Mail
  <2>2. SameSends /\ Resting
    BY <1>0, <1>1 DEF SameSends, Resting, Throws, Idle
  <2>3. Harmless
    BY <1>1, <2>1, <2>2 DEF Migrates, Harmless, SettingsInv, Stored
  <2> QED  BY <2>3, HarmlessStep
<1>2. CASE Writes(snapshot, Migrated(snapshot)) /\ GoesOn(handler.then, completion)
           /\ UNCHANGED <<updateVars, sendVars, runtimeVars>>
  <2>1. SameSends /\ Resting /\ Mail' = Mail
    BY <1>0, <1>2 DEF SameSends, Resting, GoesOn, Idle, Mail
  <2>2. Harmless
    BY <1>2, <2>1 DEF Migrates, Harmless, Writes
  <2> QED  BY <2>2, HarmlessStep
<1>3. ASSUME NEW k \in Updates, Writes(snapshot, Migrated(snapshot)), BeginUpdate(k),
             automatic' = automatic \cup {k}, UNCHANGED runtimeVars,
             handler' = [handler EXCEPT !.at = "beginning", !.update = k]
      PROVE  SettingsInv'
  <2>1. handler'.at = "beginning" /\ handler'.update = k
    BY <1>3 DEF SettingsInv, TypeOK, HandlerTypes, Handlers
  <2>2. stored \subseteq stored' /\ file' \in stored'
    BY <1>3 DEF Writes
  <2>3. UNCHANGED <<writable, replacing, session>>
    BY DEF Migrates
  <2> QED  BY <1>0, <1>3, <2>1, <2>2, <2>3, BeginStep
<1> QED  BY <1>1, <1>2, <1>3 DEF Migrates

\* The answer to a prepare command is that of the update it is matched with.
LEMMA PreparedStep ==
  ASSUME SettingsInv, TypeOK', HandlePrepared
  PROVE  SettingsInv'
<1> USE DEF fixed, hostVars, sendVars, updateVars
<1> DEFINE k == pending.update
<1>0. SendTypes /\ RuntimeTypes /\ ~replacing /\ handler.at = "idle" /\ replies # <<>> /\ file \in stored
      /\ Reply.type = "prepared"
  BY DEF SettingsInv, TypeOK, HandlePrepared, Takes, Ready, Stored
<1>1. /\ Mail' \subseteq Mail /\ Reply \in Mail
      /\ UNCHANGED <<source, preparation, committed, nextId>>
  BY <1>0, ConsumesMail DEF HandlePrepared, Takes
<1>2. UNCHANGED <<writable, replacing, session, file, stored, automatic, pending>>
  BY DEF HandlePrepared
<1>3. CASE ~IsPrepared
  <2>1. SameSends /\ Resting /\ astray \subseteq astray' /\ UNCHANGED outcome
    BY <1>3 DEF HandlePrepared, SameSends, Resting, Misses
  <2>2. Harmless
    BY <1>0, <1>1, <1>2, <2>1 DEF Harmless
  <2> QED  BY <2>2, HarmlessStep
<1>4. CASE IsPrepared
  <2>1. /\ k \in Updates /\ sent[PrepareOf(k)] = "done" /\ id[PrepareOf(k)] = Reply.id
        /\ k \notin astray => sentIn[PrepareOf(k)] = session
    BY <1>4 DEF SettingsInv, PendingIsRegistered, IsPrepared, PrepareOf
  <2>2. /\ id[PrepareOf(k)] # 0 /\ id[PrepareOf(k)] < nextId
        /\ preparation.id = id[PrepareOf(k)] => preparation.contents = Reply.prepared
    BY <1>0, <1>1, <2>1 DEF SettingsInv, IdsAreNew, PreparedIsPreparation
  <2>3. UNCHANGED astray
    BY <1>4 DEF HandlePrepared
  <2>4. ASSUME NEW o \in {"commit", "abort"}, o = "commit" => ~writable, BeginFinalization(k, o)
        PROVE  SettingsInv'
    BY <1>0, <1>1, <1>2, <2>1, <2>2, <2>3, <2>4, FinalizeStep
  <2>5. ASSUME UNCHANGED <<sendVars, outcome>>,
               handler' = [Idle EXCEPT !.at = "writing", !.update = k, !.contents = Reply.prepared]
        PROVE  SettingsInv'
    <3> USE DEF SettingsInv
    <3>0. handler'.at = "writing" /\ handler'.update = k /\ handler'.contents = Reply.prepared
      BY <2>5 DEF Idle
    <3>1. Stored' /\ IdsAreNew'
      BY <1>1, <1>2, <2>5 DEF Stored, IdsAreNew
    <3>2. PreparedIsPreparation' /\ PreparationOfOwn'
      BY <1>1, <1>2, <2>5 DEF PreparedIsPreparation, PreparationOfOwn
    <3>3. PendingIsRegistered'
      BY <1>2, <2>3, <2>5 DEF PendingIsRegistered
    <3>4. HandlerIsAlone'
      BY <1>0, <1>2, <2>5, <3>0 DEF HandlerIsAlone
    <3>5. HandlerHasPrepared'
      BY <1>1, <1>2, <2>1, <2>2, <2>3, <2>5, <3>0 DEF HandlerHasPrepared
    <3>6. CommittedIsAnswered'
      <4>1. \A j \in Updates : Finalized(j)' => Finalized(j)
        BY <1>2, <3>0 DEF Finalized
      <4> QED  BY <1>1, <2>3, <2>5, <4>1 DEF CommittedIsAnswered
    <3> QED  BY <3>1, <3>2, <3>3, <3>4, <3>5, <3>6
  <2> QED  BY <1>4, <2>4, <2>5 DEF HandlePrepared
<1> QED  BY <1>3, <1>4

\* The write of an update ends.
LEMMA WrittenStep ==
  ASSUME SettingsInv, TypeOK', Written
  PROVE  SettingsInv'
<1> USE DEF fixed, runtimeVars
<1> DEFINE k == handler.update
<1>0. ~replacing /\ handler.at = "writing" /\ file \in stored
  BY DEF SettingsInv, HandlerIsAlone, Written, Stored
<1>1. /\ k \in Updates /\ sent[PrepareOf(k)] = "done" /\ id[PrepareOf(k)] # 0
      /\ id[PrepareOf(k)] < nextId /\ (k \notin astray => sentIn[PrepareOf(k)] = session)
      /\ preparation.id = id[PrepareOf(k)] => preparation.contents = handler.contents
  BY <1>0 DEF SettingsInv, HandlerHasPrepared
<1>2. UNCHANGED <<writable, replacing, session, source, preparation, committed, nextId, automatic,
                  pending, astray>> /\ Mail' \subseteq Mail
  BY DEF Written, Mail
<1>3. CASE Writes(expected[k], handler.contents) /\ BeginFinalization(k, "commit")
  <2>1. stored \subseteq stored' /\ file' \in stored' /\ handler.contents \in stored'
    BY <1>3 DEF Writes
  <2> QED  BY <1>0, <1>1, <1>2, <1>3, <2>1, FinalizeStep
<1>4. CASE WriteFails(k)
  <2>1. stored \subseteq stored' /\ file' \in stored' /\ BeginFinalization(k, "abort")
    BY <1>0, <1>4 DEF WriteFails, hostVars
  <2> QED  BY <1>0, <1>1, <1>2, <2>1, FinalizeStep
<1> QED  BY <1>3, <1>4 DEF Written

-----------------------------------------------------------------------------
(* Steps of the runtime and of the session. *)

\* Another program edits the file and the project is reloaded.
LEMMA ReloadsStep ==
  ASSUME SettingsInv, TypeOK', Reloads
  PROVE  SettingsInv'
<1> USE DEF SettingsInv, sendVars, updateVars
<1>1. PICK m \in Messages : m.type = "reload" /\ m.id = 0 /\ replies' = Append(replies, m)
  <2>1. PICK w : w = file'
    OBVIOUS
  <2>2. w \in Configurations
    BY <2>1 DEF TypeOK, HostTypes
  <2>3. PICK m : m = Message("reload", 0, w, Null)
    OBVIOUS
  <2>4. m \in Messages /\ m.type = "reload" /\ m.id = 0
    <3>1. Null \in Configurations
      BY ContentsType
    <3>2. /\ Message("reload", 0, w, Null) \in Messages
          /\ Message("reload", 0, w, Null).type = "reload"
          /\ Message("reload", 0, w, Null).id = 0
      BY <2>2, <3>1, MessageType
    <3> QED  BY <2>3, <3>2
  <2>5. replies' = Append(replies, m)
    BY <2>1, <2>3 DEF Reloads, Replies
  <2> QED  BY <2>4, <2>5
<1>2. Mail' = Mail \cup {m}
  BY <1>1, AppendMail DEF TypeOK, RuntimeTypes, Mail
<1>3. /\ UNCHANGED <<writable, replacing, session, committed, nextId, sendVars, updateVars, handler>>
      /\ stored \subseteq stored' /\ file' \in stored' /\ source' = file' /\ preparation'.id = 0
  BY DEF Reloads, NoPreparation
<1>4. nextId \in Nat \ {0}
  BY DEF TypeOK, RuntimeTypes
<1>5. Stored'
  BY <1>3 DEF Stored
<1>6. IdsAreNew'
  BY <1>1, <1>2, <1>3, <1>4 DEF IdsAreNew
<1>7. PreparedIsPreparation' /\ PreparationOfOwn'
  BY <1>1, <1>2, <1>3 DEF PreparedIsPreparation, PreparationOfOwn
<1>8. PendingIsRegistered' /\ HandlerIsAlone'
  BY <1>3 DEF PendingIsRegistered, HandlerIsAlone
<1>9. HandlerHasPrepared'
  BY <1>3 DEF HandlerHasPrepared
<1>10. CommittedIsAnswered'
  BY <1>1, <1>2, <1>3 DEF CommittedIsAnswered, Finalized
<1> QED  BY <1>5, <1>6, <1>7, <1>8, <1>9, <1>10

\* The session is retired while the handler rests.
LEMMA RetiresStep ==
  ASSUME SettingsInv, TypeOK', Retires
  PROVE  SettingsInv'
<1> USE DEF SettingsInv, sendVars, hostVars, runtimeVars
<1>1. /\ UNCHANGED <<writable, session, hostVars, runtimeVars, sendVars, handler, automatic, outcome,
                     astray>>
      /\ handler.at = "idle" /\ pending'.stage = "none" /\ Mail' = Mail
  BY DEF Retires, ResetsUpdate, NoPending, Mail
<1>2. Stored' /\ IdsAreNew'
  BY <1>1 DEF Stored, IdsAreNew
<1>3. PreparedIsPreparation' /\ PreparationOfOwn'
  BY <1>1 DEF PreparedIsPreparation, PreparationOfOwn
<1>4. PendingIsRegistered' /\ HandlerHasPrepared' /\ CommittedIsAnswered'
  BY <1>1 DEF PendingIsRegistered, HandlerHasPrepared, CommittedIsAnswered, Finalized
<1>5. HandlerIsAlone'
  BY <1>1 DEF HandlerIsAlone
<1> QED  BY <1>2, <1>3, <1>4, <1>5

\* A new session begins with the file and with ids of its own.
LEMMA ReplacesStep ==
  ASSUME SettingsInv, TypeOK', Replaces
  PROVE  SettingsInv'
<1> USE DEF SettingsInv, hostVars, updateVars
<1>1. /\ UNCHANGED <<writable, hostVars, committed, id, sentIn, updateVars, handler>>
      /\ replacing /\ handler.at = "idle" /\ session' = session + 1
      /\ nextId' = 1 /\ preparation'.id = 0 /\ source' = file
  BY DEF Replaces, HandlerIsAlone, NoPreparation
<1>2. \A m \in Mail' : m.type = "report" /\ m.id = 0
  <2>1. Message("report", 0, file, Null) \in Messages
    BY ContentsType, MessageType DEF TypeOK, HostTypes
  <2>2. replies' = <<Message("report", 0, file, Null)>>
    BY DEF Replaces
  <2>3. Mail' = {Message("report", 0, file, Null)}
    BY <2>1, <2>2, ShortMail DEF Mail
  <2> QED  BY <2>3 DEF Message
<1>3. \A j \in Updates :
        /\ sent'[PrepareOf(j)] = sent[PrepareOf(j)]
           \/ (sent[PrepareOf(j)] = "accepted" /\ sent'[PrepareOf(j)] = "posted")
        /\ sent'[FinalizeOf(j)] = sent[FinalizeOf(j)]
           \/ (sent[FinalizeOf(j)] = "accepted" /\ sent'[FinalizeOf(j)] = "posted")
  BY UpdateCommands DEF Replaces
<1>4. \A j \in Updates : sentIn[PrepareOf(j)] <= session /\ sentIn[PrepareOf(j)] \in Nat
                         /\ session \in Nat
  BY UpdateCommands DEF TypeOK, SendTypes, FixedTypes, IdsAreNew
<1>5. Stored'
  BY <1>1 DEF Stored
<1>6. IdsAreNew'
  BY <1>1, <1>2, <1>3, <1>4 DEF IdsAreNew
<1>7. PreparedIsPreparation' /\ PreparationOfOwn'
  BY <1>1, <1>2, <1>4 DEF PreparedIsPreparation, PreparationOfOwn
<1>8. pending.stage # "finalizing"
  BY <1>1 DEF PendingIsRegistered
<1>9. PendingIsRegistered'
  BY <1>1, <1>3, <1>8 DEF PendingIsRegistered
<1>10. HandlerIsAlone'
  <2>1. automatic \subseteq Updates
    BY DEF TypeOK, UpdateTypes
  <2> QED  BY <1>1, <1>3, <2>1 DEF HandlerIsAlone, InFlight
<1>11. HandlerHasPrepared' /\ CommittedIsAnswered'
  BY <1>1, <1>8 DEF HandlerHasPrepared, CommittedIsAnswered, Finalized
<1> QED  BY <1>5, <1>6, <1>7, <1>9, <1>10, <1>11

\* What the runtime answers to a command, and prepares or commits with it.
Answers(c, m) ==
  /\ m \in Messages /\ m.id = nextId /\ replies' = Append(replies, m)
  /\ \/ /\ m.type \in {"rejected", "applied"} /\ UNCHANGED <<source, preparation, committed>>
     \/ \E k \in Updates :
          /\ c = PrepareOf(k) /\ m.type = "prepared" /\ UNCHANGED <<source, committed>>
          /\ preparation'.id = nextId /\ preparation'.update = k
          /\ preparation'.contents = m.prepared
     \/ \E k \in Updates :
          /\ c = FinalizeOf(k) /\ m.type = "committed" /\ preparation'.id = 0
          /\ preparation.id = id[PrepareOf(k)]
          /\ IF outcome[k] = "commit"
             THEN source' = preparation.contents /\ committed' = committed \cup {preparation.update}
             ELSE UNCHANGED <<source, committed>>

\* Every command gets such an answer.
LEMMA AcceptedAnswers ==
  ASSUME TypeOK, TypeOK', NEW c \in Commands, Accepted(c)
  PROVE  \E m : Answers(c, m)
<1>0. nextId \in Nat /\ source \in Configurations /\ source' \in Configurations
  BY DEF TypeOK, RuntimeTypes
<1>1. CASE Refuses
  <2>1. PICK m : m = Message("rejected", nextId, Null, Null)
    OBVIOUS
  <2>2. m \in Messages /\ m.type = "rejected" /\ m.id = nextId
    <3>1. Null \in Configurations
      BY ContentsType
    <3>2. /\ Message("rejected", nextId, Null, Null) \in Messages
          /\ Message("rejected", nextId, Null, Null).type = "rejected"
          /\ Message("rejected", nextId, Null, Null).id = nextId
      BY <1>0, <3>1, MessageType
    <3> QED  BY <2>1, <3>2
  <2>3. replies' = Append(replies, m) /\ UNCHANGED <<source, preparation, committed>>
    BY <1>1, <2>1 DEF Refuses, Replies
  <2> QED  BY <2>2, <2>3 DEF Answers
<1>2. CASE AppliesPreferences
  <2>1. PICK m : m = Message("applied", nextId, source, Null)
    OBVIOUS
  <2>2. m \in Messages /\ m.type = "applied" /\ m.id = nextId
    <3>1. Null \in Configurations
      BY ContentsType
    <3>2. /\ Message("applied", nextId, source, Null) \in Messages
          /\ Message("applied", nextId, source, Null).type = "applied"
          /\ Message("applied", nextId, source, Null).id = nextId
      BY <1>0, <3>1, MessageType
    <3> QED  BY <2>1, <3>2
  <2>3. replies' = Append(replies, m) /\ UNCHANGED <<source, preparation, committed>>
    BY <1>2, <2>1 DEF AppliesPreferences, Replies
  <2> QED  BY <2>2, <2>3 DEF Answers
<1>3. CASE c[1] = "prepare" /\ Prepares(c[2])
  <2>1. c[2] \in Updates /\ c = PrepareOf(c[2]) /\ c[2] \in Nat
    BY <1>3 DEF Commands, PrepareOf, Updates
  <2>2. PICK w : w = IF c[2] \in automatic THEN Migrated(source) ELSE Contents(c[2], "new")
    OBVIOUS
  <2>3. w \in Configurations
    BY <1>0, <2>1, <2>2, ContentsType
  <2>4. /\ preparation' = [id |-> nextId, update |-> c[2], contents |-> w]
        /\ replies' = Append(replies, Message("prepared", nextId, source, w))
        /\ UNCHANGED <<source, committed>>
    BY <1>3, <2>2 DEF Prepares, Replies
  <2>5. /\ Message("prepared", nextId, source, w) \in Messages
        /\ Message("prepared", nextId, source, w).type = "prepared"
        /\ Message("prepared", nextId, source, w).id = nextId
        /\ Message("prepared", nextId, source, w).prepared = w
    BY <1>0, <2>3, MessageType
  <2>6. preparation'.id = nextId /\ preparation'.update = c[2] /\ preparation'.contents = w
    BY <2>4
  <2> QED  BY <2>1, <2>4, <2>5, <2>6 DEF Answers
<1>4. CASE c[1] = "finalize" /\ Finalizes(c[2])
  <2>1. c[2] \in Updates /\ c = FinalizeOf(c[2])
    BY <1>4 DEF Commands, FinalizeOf
  <2>2. PICK w \in Configurations : w = source'
    BY <1>0
  <2>3. replies' = Append(replies, Message("committed", nextId, w, Null))
    BY <1>4, <2>2 DEF Finalizes, Replies
  <2>4. /\ Message("committed", nextId, w, Null) \in Messages
        /\ Message("committed", nextId, w, Null).type = "committed"
        /\ Message("committed", nextId, w, Null).id = nextId
    <3>1. Null \in Configurations
      BY ContentsType
    <3> QED  BY <1>0, <2>2, <3>1, MessageType
  <2>5. preparation'.id = 0 /\ preparation.id = id[PrepareOf(c[2])]
    BY <1>4 DEF Finalizes, NoPreparation, PrepareOf
  <2>6. IF outcome[c[2]] = "commit"
        THEN source' = preparation.contents /\ committed' = committed \cup {preparation.update}
        ELSE UNCHANGED <<source, committed>>
    BY <1>4 DEF Finalizes
  <2>7. PICK m : m = Message("committed", nextId, w, Null)
    OBVIOUS
  <2>8. /\ c = FinalizeOf(c[2]) /\ m.type = "committed" /\ preparation'.id = 0
        /\ preparation.id = id[PrepareOf(c[2])]
        /\ IF outcome[c[2]] = "commit"
           THEN source' = preparation.contents /\ committed' = committed \cup {preparation.update}
           ELSE UNCHANGED <<source, committed>>
    BY <2>1, <2>4, <2>5, <2>6, <2>7
  <2>9. m \in Messages /\ m.id = nextId /\ replies' = Append(replies, m)
    BY <2>3, <2>4, <2>7
  <2> QED  BY <2>1, <2>8, <2>9 DEF Answers
<1> QED  BY <1>1, <1>2, <1>3, <1>4 DEF Accepted

\* The runtime takes a command.
LEMMA AcceptedStep ==
  ASSUME SettingsInv, TypeOK', NEW c \in Commands, Accepted(c)
  PROVE  SettingsInv'
<1> USE DEF SettingsInv
<1>1. PICK m : Answers(c, m)
  BY AcceptedAnswers
<1>2. Mail' = Mail \cup {m}
  BY <1>1, AppendMail DEF Answers, TypeOK, RuntimeTypes, Mail
<1>3. /\ UNCHANGED <<writable, replacing, session, file, stored, sentIn, automatic, outcome, astray,
                     pending, handler>>
      /\ nextId \in Nat \ {0} /\ nextId' = nextId + 1 /\ automatic \subseteq Updates
  BY DEF Accepted, fixed, hostVars, updateVars, TypeOK, RuntimeTypes, UpdateTypes
<1>4. /\ sent[c] = "posted"
      /\ \A d \in Commands : /\ sent'[d] = IF d = c THEN "accepted" ELSE sent[d]
                             /\ id'[d] = IF d = c THEN nextId ELSE id[d]
  BY DEF Accepted, TypeOK, SendTypes
<1>5. \A j \in Updates :
        /\ PrepareOf(j) \in Commands /\ FinalizeOf(j) \in Commands
        /\ id[PrepareOf(j)] \in Nat /\ id[FinalizeOf(j)] \in Nat
  BY UpdateCommands DEF TypeOK, SendTypes
<1>6. /\ preparation.id \in Nat /\ preparation'.id \in Nat /\ m.id = nextId
      /\ \A n \in Mail : n.id \in Nat
  <2>1. \A n \in Mail : n \in Messages
    BY DEF Mail, MailOf, TypeOK, RuntimeTypes
  <2> QED  BY <1>1, <2>1 DEF Answers, TypeOK, RuntimeTypes, Preparations, Messages
<1>7. preparation'.id \in {preparation.id, nextId, 0}
  BY <1>1 DEF Answers
<1>8. ASSUME NEW k \in Updates, c = FinalizeOf(k)
      PROVE  /\ handler.at = "finalizing" /\ handler.update = k
             /\ preparation.id = id[PrepareOf(k)] /\ writable /\ outcome[k] = "commit"
                  => preparation.contents \in stored
             /\ k \notin astray /\ preparation.id = id[PrepareOf(k)] => preparation.update = k
  <2>1. handler.at = "finalizing" /\ handler.update = k
    BY <1>4, <1>8 DEF HandlerIsAlone, InFlight
  <2> QED  BY <2>1 DEF HandlerHasPrepared, PreparationOfOwn
<1>9. Stored'
  BY <1>1, <1>3, <1>8 DEF Stored, Answers
<1>10. IdsAreNew'
  <2>1. preparation'.id < nextId' /\ \A n \in Mail' : n.id < nextId'
    BY <1>2, <1>3, <1>6, <1>7 DEF IdsAreNew
  <2>2. ASSUME NEW k \in Updates
        PROVE  LET d == PrepareOf(k) IN
               /\ sent'[d] = "none" => id'[d] = 0
               /\ sentIn'[d] <= session'
               /\ sentIn'[d] = session' => id'[d] < nextId'
    BY <1>3, <1>4, <1>5 DEF IdsAreNew
  <2> QED  BY <2>1, <2>2 DEF IdsAreNew
<1>11. PreparedIsPreparation'
  <2>1. ASSUME NEW n \in Mail, n.type = "prepared"
        PROVE  n.id # 0 /\ (preparation'.id = n.id => preparation'.contents = n.prepared)
    <3>1. n.id # 0 /\ n.id < nextId /\ n.id \in Nat
          /\ (preparation.id = n.id => preparation.contents = n.prepared)
      BY <1>6, <2>1 DEF PreparedIsPreparation, IdsAreNew
    <3>2. UNCHANGED preparation \/ preparation'.id \in {nextId, 0}
      BY <1>1 DEF Answers
    <3> QED  BY <1>3, <3>1, <3>2
  <2>2. m.type = "prepared" => preparation'.id = m.id /\ preparation'.contents = m.prepared
    BY <1>1 DEF Answers
  <2> QED  BY <1>2, <1>3, <1>6, <2>1, <2>2 DEF PreparedIsPreparation
<1>12. PreparationOfOwn'
  <2> SUFFICES ASSUME NEW k \in Updates, sentIn[PrepareOf(k)] = session, id'[PrepareOf(k)] # 0,
                      preparation'.id = id'[PrepareOf(k)]
               PROVE  preparation'.update = k
    BY <1>3 DEF PreparationOfOwn
  <2>1. CASE c = PrepareOf(k)
    <3>1. preparation'.id = nextId
      BY <1>4, <1>5, <2>1
    <3>2. preparation.id # nextId
      BY <1>3, <1>6 DEF IdsAreNew
    <3>3. PICK j \in Updates : c = PrepareOf(j) /\ preparation'.update = j
      BY <1>1, <1>3, <3>1, <3>2 DEF Answers
    <3> QED  BY <2>1, <3>3, UpdateCommands
  <2>2. CASE c # PrepareOf(k)
    <3>1. preparation'.id = id[PrepareOf(k)] /\ id[PrepareOf(k)] # 0 /\ id[PrepareOf(k)] < nextId
      BY <1>4, <1>5, <2>2 DEF IdsAreNew
    <3>2. preparation'.id # nextId /\ preparation'.id # 0
      BY <1>3, <1>5, <3>1
    <3>3. UNCHANGED preparation
      BY <1>1, <3>2 DEF Answers
    <3> QED  BY <3>1, <3>3 DEF PreparationOfOwn
  <2> QED  BY <2>1, <2>2
<1>13. PendingIsRegistered'
  BY <1>3, <1>4, <1>5 DEF PendingIsRegistered
<1>14. HandlerIsAlone'
  BY <1>3, <1>4, <1>5 DEF HandlerIsAlone, InFlight
<1>15. HandlerHasPrepared'
  <2> SUFFICES ASSUME handler.at \in {"writing", "finalizing"}
               PROVE  HandlerHasPrepared'
    BY <1>3 DEF HandlerHasPrepared
  <2> DEFINE k == handler.update
  <2>1. /\ k \in Updates /\ sent[PrepareOf(k)] = "done" /\ id[PrepareOf(k)] # 0
        /\ id[PrepareOf(k)] < nextId /\ (k \notin astray => sentIn[PrepareOf(k)] = session)
    BY DEF HandlerHasPrepared
  <2>2. sent'[PrepareOf(k)] = "done" /\ id'[PrepareOf(k)] = id[PrepareOf(k)]
        /\ id[PrepareOf(k)] < nextId'
    BY <1>3, <1>4, <1>5, <2>1
  <2>3. preparation'.id = id[PrepareOf(k)] => UNCHANGED preparation
    <3>1. UNCHANGED preparation \/ preparation'.id \in {nextId, 0}
      BY <1>1 DEF Answers
    <3> QED  BY <1>3, <1>5, <2>1, <3>1
  <2> QED  BY <1>3, <2>1, <2>2, <2>3 DEF HandlerHasPrepared
<1>16. CommittedIsAnswered'
  <2> SUFFICES ASSUME NEW k \in Updates, Finalized(k)'
               PROVE  /\ id'[FinalizeOf(k)] < nextId'
                      /\ outcome'[k] = "commit" /\ k \notin astray' =>
                           \A n \in Mail' : n.type = "committed" /\ n.id = id'[FinalizeOf(k)]
                                              => k \in committed'
    BY DEF CommittedIsAnswered
  <2>1. CASE c = FinalizeOf(k)
    <3>1. id'[FinalizeOf(k)] = nextId
      BY <1>4, <1>5, <2>1
    <3>2. \A n \in Mail : n.id # nextId
      BY <1>3, <1>6 DEF IdsAreNew
    <3>3. ASSUME outcome[k] = "commit", k \notin astray, m.type = "committed"
          PROVE  k \in committed'
      <4>1. PICK j \in Updates :
              /\ c = FinalizeOf(j) /\ preparation.id = id[PrepareOf(j)]
              /\ outcome[j] = "commit" => committed' = committed \cup {preparation.update}
        BY <1>1, <3>3 DEF Answers
      <4>2. j = k
        BY <2>1, <4>1, UpdateCommands
      <4> QED  BY <1>8, <2>1, <3>3, <4>1, <4>2
    <3> QED  BY <1>2, <1>3, <3>1, <3>2, <3>3
  <2>2. CASE c # FinalizeOf(k)
    <3>1. Finalized(k) /\ id'[FinalizeOf(k)] = id[FinalizeOf(k)]
      BY <1>3, <1>4, <1>5, <2>2 DEF Finalized
    <3>2. id[FinalizeOf(k)] < nextId /\ m.id # id[FinalizeOf(k)] /\ committed \subseteq committed'
      BY <1>1, <1>3, <1>5, <1>6, <3>1 DEF CommittedIsAnswered, Answers
    <3> QED  BY <1>2, <1>3, <1>5, <3>1, <3>2 DEF CommittedIsAnswered
  <2> QED  BY <2>1, <2>2
<1> QED  BY <1>9, <1>10, <1>11, <1>12, <1>13, <1>14, <1>15, <1>16

-----------------------------------------------------------------------------
(* The theorems. *)

\* Every step keeps the invariant.
LEMMA StepInv == SettingsInv /\ [Next]_vars => SettingsInv'
<1> SUFFICES ASSUME SettingsInv, [Next]_vars PROVE SettingsInv'
  OBVIOUS
<1>0. TypeOK'
  BY StepTypes DEF SettingsInv
<1>1. CASE TakesConfiguration \/ HandleCommitted \/ HandleRejected \/ HandleApplied \/ Faults
  BY <1>0, <1>1, HandlerStepHarmless, HarmlessStep
<1>2. ASSUME NEW s \in Sessions,
             Settled(s) \/ Applied(s) \/ ApplyFails(s) \/ PreferencesApplied(s) \/ Starts(s)
      PROVE  SettingsInv'
  BY <1>0, <1>2, StartStepHarmless, HarmlessStep
<1>3. CASE UNCHANGED vars
  BY <1>0, <1>3, StutterHarmless, HarmlessStep
<1>4. CASE Migrates \/ HandlePrepared \/ Written \/ Finalizing \/ Replaces \/ Reloads \/ Retires
  BY <1>0, <1>4, MigratesStep, PreparedStep, WrittenStep, FinalizingStep, ReplacesStep, ReloadsStep,
     RetiresStep
<1>5. ASSUME NEW k \in Updates, Save(k) \/ Registers(k) \/ PrepareFails(k)
      PROVE  SettingsInv'
  BY <1>0, <1>5, UpdateStep
<1>6. ASSUME NEW c \in Commands, Accepted(c) PROVE SettingsInv'
  BY <1>0, <1>6, AcceptedStep
<1> QED  BY <1>1, <1>2, <1>3, <1>4, <1>5, <1>6 DEF Next, Store

\* The inductive invariant of the settings.
THEOREM InvHolds == Spec => []SettingsInv
<1>1. Init => SettingsInv
  BY InitInv
<1>2. SettingsInv /\ [Next]_vars => SettingsInv'
  BY StepInv
<1> QED  BY <1>1, <1>2, PTL DEF Spec

\* A project with a writable file never runs on a configuration that its file has not held.
THEOREM RunsOnStored == Spec => []RuntimeOnStored
<1>1. SettingsInv => RuntimeOnStored
  BY DEF SettingsInv, Stored, RuntimeOnStored
<1> QED  BY <1>1, InvHolds, PTL

\* Only the answer to a commit resolves an update.
LEMMA ResolvedByAnswer ==
  ASSUME SettingsInv, [Next]_vars, NEW k \in Updates, update'[k] = "resolved", update[k] # "resolved"
  PROVE  k \in committed \cup astray
<1> USE DEF SettingsInv, TypeOK, UpdateTypes
<1>1. ASSUME UNCHANGED update PROVE FALSE
  BY <1>1
<1>2. ASSUME NEW j, NEW r \in {"sending", "waiting", "rejected"},
             update' = [update EXCEPT ![j] = r]
      PROVE  FALSE
  BY <1>2
<1>3. CASE HandleCommitted
  <2>1. IsFinalized /\ k = pending.update /\ outcome[k] = "commit"
    <3>1. IsFinalized
      BY <1>1, <1>3 DEF HandleCommitted, updateVars
    <3>2. PICK r \in {"resolved", "rejected", "waiting"} :
            /\ Settles(pending.update, r)
            /\ r = "resolved" => outcome[pending.update] = "commit"
      BY <1>3, <3>1 DEF HandleCommitted
    <3>3. update' = [update EXCEPT ![pending.update] = r]
      BY <3>2 DEF Settles
    <3>4. pending.update = k
      BY <3>3
    <3> QED  BY <3>1, <3>2, <3>3, <3>4
  <2>2. Finalized(k) /\ Reply.type = "committed" /\ Reply.id = id[FinalizeOf(k)] /\ replies # <<>>
    BY <1>3, <2>1 DEF HandleCommitted, Ready, IsFinalized, Finalized, FinalizeOf
  <2>3. Reply \in Mail
    BY <2>2, TailMail DEF RuntimeTypes, Mail, Reply
  <2> QED  BY <2>1, <2>2, <2>3 DEF CommittedIsAnswered
<1>4. CASE HandleRejected
  <2>1. UNCHANGED update \/ update' = [update EXCEPT ![pending.update] = "rejected"]
    BY <1>4 DEF HandleRejected, Settles
  <2> QED  BY <1>1, <1>2, <2>1
<1>5. CASE Finalizing
  BY <1>5 DEF Finalizing
<1>6. CASE Retires
  BY <1>6 DEF Retires, ResetsUpdate
<1>7. CASE Migrates
  BY <1>7 DEF Migrates, BeginUpdate, updateVars
<1>8. CASE \E j \in Updates : Save(j) \/ Registers(j) \/ PrepareFails(j)
  BY <1>8 DEF Save, BeginUpdate, Registers, PrepareFails
<1>9. CASE TakesConfiguration \/ HandlePrepared \/ Written \/ HandleApplied \/ Replaces \/ Faults \/ Reloads
  BY <1>9 DEF TakesConfiguration, HandlePrepared, Written, HandleApplied, Replaces, Faults, Reloads,
     updateVars
<1>10. CASE \E s \in Sessions :
              Settled(s) \/ Applied(s) \/ ApplyFails(s) \/ PreferencesApplied(s) \/ Starts(s)
  BY <1>10 DEF Settled, Applied, ApplyFails, PreferencesApplied, Starts, ChainKeeps, updateVars
<1>11. CASE (\E c \in Commands : Accepted(c)) \/ UNCHANGED vars
  BY <1>11 DEF Accepted, updateVars, vars
<1> QED  BY <1>3, <1>4, <1>5, <1>6, <1>7, <1>8, <1>9, <1>10, <1>11 DEF Next, Store

\* The player is told that an update is saved only when the runtime has committed it.
THEOREM SavedOnlyCommitted == Spec => SavedIsCommitted
<1>1. SettingsInv /\ [Next]_vars =>
        [\A k \in Updates :
           update'[k] = "resolved" /\ update[k] # "resolved" => k \in committed \cup astray]_vars
  BY ResolvedByAnswer
<1> QED  BY <1>1, InvHolds, PTL DEF Spec, SavedIsCommitted
=============================================================================
