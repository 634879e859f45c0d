---------------------------- MODULE ExportProofs ----------------------------
(***************************************************************************)
(* Proofs about the exports, for any number of them and of chunks and any  *)
(* mix of what the player and the timer start: a file that is published    *)
(* holds one whole transfer (SavedIsWhole).                                *)
(*                                                                         *)
(* A published file is whole because the chunk that publishes it follows   *)
(* the ones its file holds, and those are of the same export.  That is so  *)
(* as long as the file is still the one the export opened; when it is not, *)
(* the chunk is not written and the export fails.  The invariant says it   *)
(* between two chunks (FileInv), while one is written (WriteInv), and of   *)
(* the compiled cache, whose writes no handler awaits (CacheInv): they are *)
(* one at a time because the next chunk is asked for only when one has     *)
(* been written, and a new cache starts only when no write is left or the  *)
(* cancellation has waited for it.  An update of the configuration breaks  *)
(* the latter, which is why CacheInv and SavedIsWhole leave it out.        *)
(*                                                                         *)
(* The invariant holds until two calls of exportProjectFile overlap        *)
(* (crossed, which stays set): they write one file, and no one's file is   *)
(* its own any more.  SavedIsWhole claims nothing from there on.           *)
(*                                                                         *)
(* An answer can be late.  It does no harm, since it carries its request,  *)
(* and the export that takes the slot is one nothing refers to any more:   *)
(* the model tells exports apart by numbers, and a finite set leaves some  *)
(* number free (UnusedNumber, ClaimFresh).                                 *)
(***************************************************************************)
EXTENDS StateExports, FiniteSetTheorems, TLAPS

-----------------------------------------------------------------------------
(* Types. *)

Kinds == {"none", "download", "cache", "project", "replay", "snapshot", "archive"}
Exports == Kinds \X Nat
Phases == {"none", "staging", "asked", "retry", "transfer", "left"}
Places ==
  {"idle", "picker", "write", "saving", "failing", "project failed", "project rejected",
   "project write", "cache failed", "cache rejected", "renewing", "aborting", "renewal failing",
   "discarding", "publish"}
ExTypes ==
  {x \in [slot : Exports, phase : Phases, got : Nat, asked : SUBSET Exports,
          wants : SUBSET (Exports \X Nat)] : IsFiniteSet(x.asked) /\ IsFiniteSet(x.wants)}
HandlerTypes == [at : Places, for : Exports, chunk : Nat, writer : Nat]
Messages ==
  [type : {"ready", "ineligible", "rejected", "preparing", "built", "unbuilt", "chunk"},
   for : Exports, chunk : Nat]
WriteTypes == [for : Exports, chunk : Nat, at : {"write", "failed"}, writer : Nat]
FileTypes == [writer : Nat, data : Seq(Exports)]

\* The calls of exportProjectFile before they take the slot.
Going == {"dialog", "cancelling", "aborting", "failing", "undoing"}
Calls == [n : Nat, at : Going, victim : Exports]

\* One call at a time, while the flag is clear; and one end of an export that set it.
ProjectType(p) ==
  /\ p \in [calls : SUBSET Calls, exporting : BOOLEAN, ends : {0, 1}]
  /\ \A c, d \in p.calls : c = d
  /\ p.calls # {} => ~p.exporting /\ p.ends = 0
  /\ p.ends = 1 => p.exporting

TypeInv ==
  /\ ex \in ExTypes
  /\ inbound \in Seq(Messages)
  /\ prepared \in {"nothing", "project", "cache", "built"} /\ pumping \in BOOLEAN
  /\ handler \in HandlerTypes
  /\ diagnosis \in {"none", "active", "failing"}
  /\ failing \in [for : Exports, known : BOOLEAN]
  /\ ProjectType(project)
  /\ resume \in BOOLEAN /\ timer \in BOOLEAN
  /\ caching \subseteq WriteTypes /\ IsFiniteSet(caching)
  /\ sink \in [Files -> FileTypes]
  /\ saved \in [data : Seq(Exports), told : Exports]
  /\ starts \in Nat

-----------------------------------------------------------------------------
(* Fresh numbers. *)

(* More numbers than elements: some number is not used. *)
LEMMA UnusedNumber ==
  ASSUME NEW S, IsFiniteSet(S), NEW n \in Nat, n > Cardinality(S)
  PROVE  \E i \in 1..n : i \notin S
<1>1. SUFFICES ASSUME \A i \in 1..n : i \in S PROVE FALSE
  OBVIOUS
<1>2. 1..n \in SUBSET S
  BY <1>1
<1>3. Cardinality(1..n) <= Cardinality(S)
  BY <1>2, FS_Subset
<1>4. Cardinality(1..n) = n
  BY FS_Interval
<1>5. Cardinality(S) \in Nat
  BY FS_CardinalityType
<1> QED  BY <1>3, <1>4, <1>5

(* The same for numbers paired with a kind. *)
LEMMA UnusedPair ==
  ASSUME NEW S, IsFiniteSet(S), NEW k
  PROVE  \E n \in 1..Cardinality(S) + 1 : <<k, n>> \notin S
<1> DEFINE C == Cardinality(S)
           T == {e \in S : \E n \in 1..C + 1 : e = <<k, n>>}
           f == [e \in T |-> e[2]]
           N == {n \in 1..C + 1 : <<k, n>> \in S}
<1>1. C \in Nat
  BY FS_CardinalityType
<1>2. T \in SUBSET S
  OBVIOUS
<1>3. IsFiniteSet(T) /\ Cardinality(T) <= C
  BY <1>2, FS_Subset
<1>4. f \in Surjection(T, N)
  <2>1. f \in [T -> N]
    OBVIOUS
  <2>2. \A n \in N : \E e \in T : f[e] = n
    <3> TAKE n \in N
    <3>1. <<k, n>> \in T
      OBVIOUS
    <3> QED  BY <3>1
  <2> QED  BY <2>1, <2>2 DEF Surjection
<1>5. IsFiniteSet(N) /\ Cardinality(N) <= Cardinality(T)
  <2> HIDE DEF T, N, f
  <2> QED  BY <1>3, <1>4, FS_Surjection
<1>6. Cardinality(T) \in Nat /\ Cardinality(N) \in Nat
  BY <1>3, <1>5, FS_CardinalityType
<1>7. C + 1 > Cardinality(N) /\ C + 1 \in Nat
  <2> HIDE DEF T, N, f, C
  <2> QED  BY <1>1, <1>3, <1>5, <1>6
<1>8. \E n \in 1..C + 1 : n \notin N
  <2> HIDE DEF T, N, f, C
  <2> QED  BY <1>5, <1>7, UnusedNumber
<1> QED  BY <1>8

(* A finite set read through a function is finite. *)
LEMMA FiniteImage ==
  ASSUME NEW S, IsFiniteSet(S), NEW f, f = [x \in S |-> f[x]]
  PROVE  /\ IsFiniteSet({f[x] : x \in S})
         /\ Cardinality({f[x] : x \in S}) <= Cardinality(S)
<1> DEFINE R == {f[x] : x \in S}
<1>1. f \in Surjection(S, R)
  <2>1. f \in [S -> R]
    OBVIOUS
  <2> QED  BY <2>1 DEF Surjection
<1> HIDE DEF R
<1>3. IsFiniteSet(R) /\ Cardinality(R) <= Cardinality(S)
  BY <1>1, FS_Surjection
<1> QED  BY <1>3 DEF R

(* What is referred to is finite. *)
LEMMA ReferencedFinite ==
  ASSUME TypeInv, NEW x \in ExTypes
  PROVE  IsFiniteSet(Referenced(x))
<1>1. IsFiniteSet({x.slot, handler.for, failing.for})
  <2>1. IsFiniteSet({x.slot} \cup {handler.for} \cup {failing.for})
    BY FS_EmptySet, FS_Singleton, FS_Union
  <2>2. {x.slot} \cup {handler.for} \cup {failing.for}
          = {x.slot, handler.for, failing.for}
    OBVIOUS
  <2> QED  BY <2>1, <2>2
<1>2. IsFiniteSet(x.asked) /\ IsFiniteSet(x.wants)
  BY DEF ExTypes
<1>7. IsFiniteSet({c.victim : c \in project.calls})
  <2>1. {c.victim : c \in project.calls} = {} \/ \E v : {c.victim : c \in project.calls} = {v}
    <3>1. \A c, d \in project.calls : c = d
      BY DEF TypeInv, ProjectType
    <3>2. CASE project.calls = {}
      BY <3>2
    <3>3. ASSUME NEW c \in project.calls
          PROVE  {d.victim : d \in project.calls} = {c.victim}
      BY <3>1, <3>3
    <3> QED  BY <3>2, <3>3
  <2> QED  BY <2>1, FS_EmptySet, FS_Singleton
<1>3. IsFiniteSet({w[1] : w \in x.wants})
  <2> DEFINE f == [w \in x.wants |-> w[1]]
  <2>1. IsFiniteSet({f[w] : w \in x.wants})
    <3>1. f = [w \in x.wants |-> f[w]]
      OBVIOUS
    <3> HIDE DEF f
    <3> QED  BY <1>2, <3>1, FiniteImage
  <2>2. {f[w] : w \in x.wants} = {w[1] : w \in x.wants}
    OBVIOUS
  <2> QED  BY <2>1, <2>2
<1>4. IsFiniteSet({inbound[i].for : i \in DOMAIN inbound})
  <2> DEFINE f == [i \in DOMAIN inbound |-> inbound[i].for]
  <2>1. IsFiniteSet({f[i] : i \in DOMAIN inbound})
    <3>1. f = [i \in DOMAIN inbound |-> f[i]]
      OBVIOUS
    <3>2. IsFiniteSet(DOMAIN inbound)
      <4>1. DOMAIN inbound = 1..Len(inbound) /\ Len(inbound) \in Nat
        BY DEF TypeInv
      <4> QED  BY <4>1, FS_Interval
    <3> HIDE DEF f
    <3> QED  BY <3>1, <3>2, FiniteImage
  <2>2. {f[i] : i \in DOMAIN inbound} = {inbound[i].for : i \in DOMAIN inbound}
    OBVIOUS
  <2> QED  BY <2>1, <2>2
<1>5. IsFiniteSet({w.for : w \in caching})
  <2> DEFINE f == [w \in caching |-> w.for]
  <2>1. IsFiniteSet({f[w] : w \in caching})
    <3>1. f = [w \in caching |-> f[w]]
      OBVIOUS
    <3>2. IsFiniteSet(caching)
      BY DEF TypeInv
    <3> HIDE DEF f
    <3> QED  BY <3>1, <3>2, FiniteImage
  <2>2. {f[w] : w \in caching} = {w.for : w \in caching}
    OBVIOUS
  <2> QED  BY <2>1, <2>2
<1>6. IsFiniteSet(UNION {{sink[f].data[i] : i \in DOMAIN sink[f].data} : f \in Files})
  <2> DEFINE In(f) == {sink[f].data[i] : i \in DOMAIN sink[f].data}
  <2>1. ASSUME NEW f \in Files PROVE IsFiniteSet(In(f))
    <3> PICK d : d = sink[f].data
      OBVIOUS
    <3>1. d \in Seq(Exports)
      BY DEF TypeInv, FileTypes
    <3>2. IsFiniteSet(DOMAIN d)
      <4> PICK n : n = Len(d)
        OBVIOUS
      <4>1. DOMAIN d = 1..n /\ n \in Nat
        BY <3>1
      <4>2. IsFiniteSet(1..n)
        BY <4>1, FS_Interval
      <4> QED  BY <4>1, <4>2
    <3>3. d = [i \in DOMAIN d |-> d[i]]
      <4>1. d \in [1..Len(d) -> Exports]
        BY <3>1
      <4> QED  BY <4>1
    <3>4. IsFiniteSet({d[i] : i \in DOMAIN d})
      BY <3>2, <3>3, FiniteImage
    <3> QED  BY <3>4
  <2>2. UNION {In(f) : f \in Files} = In("download") \cup In("cache") \cup In("project")
    <3> HIDE DEF In
    <3> QED  BY DEF Files
  <2>3. IsFiniteSet(In("download") \cup In("cache") \cup In("project"))
    <3>1. IsFiniteSet(In("download")) /\ IsFiniteSet(In("cache")) /\ IsFiniteSet(In("project"))
      BY <2>1 DEF Files
    <3> HIDE DEF In
    <3> QED  BY <3>1, FS_Union
  <2> QED  BY <2>2, <2>3
<1> QED
  <2> PICK a : a = {x.slot, handler.for, failing.for}
    OBVIOUS
  <2> PICK b : b = {w[1] : w \in x.wants}
    OBVIOUS
  <2> PICK c : c = {inbound[i].for : i \in DOMAIN inbound}
    OBVIOUS
  <2> PICK d : d = {w.for : w \in caching}
    OBVIOUS
  <2> PICK e : e = UNION {{sink[f].data[i] : i \in DOMAIN sink[f].data} : f \in Files}
    OBVIOUS
  <2> PICK v : v = {k.victim : k \in project.calls}
    OBVIOUS
  <2>1. IsFiniteSet(a \cup v \cup x.asked \cup b \cup c \cup d \cup e)
    <3>1. /\ IsFiniteSet(a) /\ IsFiniteSet(b) /\ IsFiniteSet(c) /\ IsFiniteSet(d) /\ IsFiniteSet(e)
          /\ IsFiniteSet(v)
      BY <1>1, <1>3, <1>4, <1>5, <1>6, <1>7
    <3>6. IsFiniteSet(a \cup v)
      BY <3>1, FS_Union
    <3>2. IsFiniteSet(a \cup v \cup x.asked)
      BY <1>2, <3>6, FS_Union
    <3>3. IsFiniteSet(a \cup v \cup x.asked \cup b)
      BY <3>1, <3>2, FS_Union
    <3>4. IsFiniteSet(a \cup v \cup x.asked \cup b \cup c)
      BY <3>1, <3>3, FS_Union
    <3>5. IsFiniteSet(a \cup v \cup x.asked \cup b \cup c \cup d)
      BY <3>1, <3>4, FS_Union
    <3> QED  BY <3>1, <3>5, FS_Union
  <2> QED  BY <2>1 DEF Referenced

\* A new export: nothing that is still to be written or to arrive is of it.
Unused(x, s) ==
  /\ s # handler.for
  /\ \A w \in caching : w.for # s
  /\ \A u \in x.wants : u[1] # s
  /\ \A i \in DOMAIN inbound : inbound[i].for # s

(* The slot is claimed by an export nothing refers to. *)
LEMMA ClaimFresh ==
  ASSUME TypeInv, NEW x \in ExTypes, NEW k \in Kinds
  PROVE  \E s \in Exports : /\ Kind(s) = k /\ Unused(x, s)
                            /\ Claim(x, k) = [Free(x) EXCEPT !.slot = s]
<1> PICK R : R = Referenced(x)
  OBVIOUS
<1>1. IsFiniteSet(R)
  BY ReferencedFinite
<1>2. \E n \in 1..Cardinality(R) + 1 : <<k, n>> \notin R
  BY <1>1, UnusedPair
<1>3. PICK n : n = CHOOSE i \in 1..Cardinality(R) + 1 : <<k, i>> \notin R
  OBVIOUS
<1>4. n \in 1..Cardinality(R) + 1 /\ <<k, n>> \notin R
  BY <1>2, <1>3
<1>5. n \in Nat
  BY <1>1, <1>4, FS_CardinalityType
<1>6. <<k, n>> \in Exports /\ Kind(<<k, n>>) = k
  BY <1>5 DEF Exports, Kind
<1>7. Claim(x, k) = [Free(x) EXCEPT !.slot = <<k, n>>]
  BY <1>3 DEF Claim
<1>8. Unused(x, <<k, n>>)
  BY <1>4 DEF Referenced, Unused
<1> QED  BY <1>6, <1>7, <1>8

(* A writer is opened under a number no write uses. *)
LEMMA WriterFresh ==
  ASSUME TypeInv
  PROVE  /\ NewWriter \in Nat \ {0}
         /\ NewWriter # handler.writer
         /\ \A c \in caching : c.writer # NewWriter
<1> DEFINE f == [c \in caching |-> c.writer]
           W == {f[c] : c \in caching}
           C == Cardinality(caching)
<1>0. IsFiniteSet(caching) /\ C \in Nat
  BY FS_CardinalityType DEF TypeInv
<1>1. IsFiniteSet(W) /\ Cardinality(W) <= C
  <2>1. f = [c \in caching |-> f[c]]
    OBVIOUS
  <2> HIDE DEF f
  <2> QED  BY <1>0, <2>1, FiniteImage
<1>2. W = {c.writer : c \in caching}
  OBVIOUS
<1> HIDE DEF f, W, C
<1>3. Cardinality(W) \in Nat
  BY <1>1, FS_CardinalityType
<1>4. IsFiniteSet(W \cup {handler.writer}) /\ Cardinality(W \cup {handler.writer}) <= C + 1
  BY <1>0, <1>1, <1>3, FS_AddElement
<1>5. \E w \in 1..C + 2 : w \notin W \cup {handler.writer}
  <2>1. Cardinality(W \cup {handler.writer}) \in Nat
    BY <1>4, FS_CardinalityType
  <2>2. C + 2 \in Nat /\ C + 2 > Cardinality(W \cup {handler.writer})
    BY <1>0, <1>4, <2>1
  <2> QED  BY <1>4, <2>2, UnusedNumber
<1>6. \E w \in 1..C + 2 : w # handler.writer /\ \A c \in caching : c.writer # w
  BY <1>2, <1>5
<1>7. NewWriter \in 1..C + 2 /\ NewWriter # handler.writer /\ \A c \in caching : c.writer # NewWriter
  BY <1>6 DEF NewWriter, C
<1> QED  BY <1>0, <1>7

-----------------------------------------------------------------------------
(* What happens to the slot. *)

Keeps(x, y) == y.slot = x.slot /\ y.phase = x.phase /\ y.got = x.got
Frees(y) == y.slot = None /\ y.phase = "none" /\ y.got = 0
Takes(y, k) ==
  /\ Kind(y.slot) = k /\ Unused(y, y.slot)
  /\ y.phase \in {"staging", "asked"} /\ y.got = 0

(* The slot is emptied. *)
LEMMA FreeMoves ==
  ASSUME NEW x \in ExTypes
  PROVE  Free(x) \in ExTypes /\ Frees(Free(x)) /\ Free(x).wants = x.wants
<1>1. None \in Exports
  BY DEF None, Exports, Kinds
<1>2. Free(x) \in [slot : Exports, phase : Phases, got : Nat, asked : SUBSET Exports,
                   wants : SUBSET (Exports \X Nat)]
  BY <1>1 DEF Free, ExTypes, Phases
<1>3. Frees(Free(x)) /\ Free(x).wants = x.wants /\ Free(x).asked = x.asked
  BY DEF Free, ExTypes, Frees
<1> QED  BY <1>2, <1>3 DEF ExTypes

(* Requests are withdrawn, and nothing else changes. *)
LEMMA WithdrawMoves ==
  ASSUME NEW x \in ExTypes, NEW K, NEW E
  PROVE  /\ Withdraw(x, K, E) \in ExTypes /\ Keeps(x, Withdraw(x, K, E))
         /\ Withdraw(x, K, E).wants \subseteq x.wants
<1> PICK a : a = x.asked \ (Of(K, x.asked) \cup E)
  OBVIOUS
<1> PICK w : w = {v \in x.wants : Kind(v[1]) \notin K /\ v[1] \notin E}
  OBVIOUS
<1>1. Withdraw(x, K, E) = [x EXCEPT !.asked = a, !.wants = w]
  BY DEF Withdraw
<1>2. a \in SUBSET x.asked /\ w \in SUBSET x.wants
  OBVIOUS
<1>3. IsFiniteSet(a) /\ IsFiniteSet(w)
  BY <1>2, FS_Subset DEF ExTypes
<1> QED  BY <1>1, <1>2, <1>3 DEF ExTypes, Keeps

(* The runtime is asked for the export in the slot. *)
LEMMA AskMoves ==
  ASSUME NEW x \in ExTypes
  PROVE  /\ Ask(x) \in ExTypes /\ Ask(x).wants = x.wants
         /\ Ask(x).slot = x.slot /\ Ask(x).phase = "asked" /\ Ask(x).got = x.got
<1> PICK a : a = x.asked \cup {x.slot}
  OBVIOUS
<1>1. Ask(x) = [x EXCEPT !.asked = a, !.phase = "asked"]
  BY DEF Ask
<1>2. IsFiniteSet(a)
  BY FS_AddElement DEF ExTypes
<1>3. a \in SUBSET Exports
  BY DEF ExTypes
<1> QED  BY <1>1, <1>2, <1>3 DEF ExTypes, Phases

(* A chunk is asked for. *)
LEMMA RequestMoves ==
  ASSUME NEW x \in ExTypes
  PROVE  /\ Request(x) \in ExTypes /\ Keeps(x, Request(x))
         /\ Request(x).wants \subseteq x.wants \cup {<<x.slot, x.got>>}
<1>1. CASE x.phase = "transfer"
  <2> PICK w : w = x.wants \cup {<<x.slot, x.got>>}
    OBVIOUS
  <2>1. Request(x) = [x EXCEPT !.wants = w]
    BY <1>1 DEF Request
  <2>2. IsFiniteSet(w)
    BY FS_AddElement DEF ExTypes
  <2>3. w \in SUBSET (Exports \X Nat)
    BY DEF ExTypes
  <2>4. /\ Request(x).slot = x.slot /\ Request(x).phase = x.phase /\ Request(x).got = x.got
        /\ Request(x).asked = x.asked /\ Request(x).wants = w
        /\ Request(x) \in [slot : Exports, phase : Phases, got : Nat, asked : SUBSET Exports,
                           wants : SUBSET (Exports \X Nat)]
    BY <2>1, <2>3 DEF ExTypes
  <2> HIDE DEF Request
  <2>5. Request(x) \in ExTypes
    BY <2>2, <2>4 DEF ExTypes
  <2> QED  BY <2>4, <2>5 DEF Keeps
<1>2. CASE x.phase # "transfer"
  BY <1>2 DEF Request, Keeps
<1> QED  BY <1>1, <1>2

(* A new export takes the slot and stages what it sends. *)
LEMMA StageMoves ==
  ASSUME TypeInv, NEW x \in ExTypes, NEW k \in Kinds
  PROVE  /\ Stage(x, k) \in ExTypes /\ Takes(Stage(x, k), k) /\ Stage(x, k).wants = x.wants
         /\ Stage(x, k).phase = "staging"
<1> PICK s \in Exports : /\ Kind(s) = k /\ Unused(x, s)
                         /\ Claim(x, k) = [Free(x) EXCEPT !.slot = s]
  BY ClaimFresh
<1> PICK y : y = Stage(x, k)
  OBVIOUS
<1>1. y = [Free(x) EXCEPT !.slot = s, !.phase = "staging"]
  BY DEF Stage
<1>2. /\ y.slot = s /\ y.phase = "staging" /\ y.got = 0 /\ y.wants = x.wants /\ y.asked = x.asked
      /\ y \in [slot : Exports, phase : Phases, got : Nat, asked : SUBSET Exports,
                wants : SUBSET (Exports \X Nat)]
  BY <1>1, FreeMoves DEF ExTypes, Free, Phases
<1>3. y \in ExTypes
  BY <1>2 DEF ExTypes
<1>4. Unused(y, y.slot)
  BY <1>2 DEF Unused
<1> QED  BY <1>2, <1>3, <1>4 DEF Takes

(* A new export takes the slot and is asked for. *)
LEMMA BeginMoves ==
  ASSUME TypeInv, NEW x \in ExTypes, NEW k \in Kinds
  PROVE  /\ Begin(x, k) \in ExTypes /\ Takes(Begin(x, k), k) /\ Begin(x, k).wants = x.wants
         /\ Begin(x, k).phase = "asked"
<1> PICK s \in Exports : /\ Kind(s) = k /\ Unused(x, s)
                         /\ Claim(x, k) = [Free(x) EXCEPT !.slot = s]
  BY ClaimFresh
<1> PICK c : c = Claim(x, k)
  OBVIOUS
<1>1. /\ c.slot = s /\ c.got = 0 /\ c.wants = x.wants /\ c.asked = x.asked
      /\ c \in [slot : Exports, phase : Phases, got : Nat, asked : SUBSET Exports,
                wants : SUBSET (Exports \X Nat)]
  BY FreeMoves DEF ExTypes, Free, Phases
<1>2. c \in ExTypes
  BY <1>1 DEF ExTypes
<1> PICK y : y = Begin(x, k)
  OBVIOUS
<1>3. y = Ask(c)
  BY DEF Begin
<1>4. y \in ExTypes /\ y.slot = s /\ y.phase = "asked" /\ y.got = 0 /\ y.wants = x.wants
  BY <1>1, <1>2, <1>3, AskMoves
<1>5. Unused(y, y.slot)
  BY <1>4 DEF Unused
<1> QED  BY <1>4, <1>5 DEF Takes

(* A diagnosis takes the slot, or nothing happens. *)
LEMMA ReplayMoves ==
  ASSUME TypeInv, NEW x \in ExTypes, NEW y, y = StartReplay(x) \/ y = ResumeReplay(x)
  PROVE  /\ y \in ExTypes /\ y.wants = x.wants
         /\ y = x \/ Takes(y, "replay")
<1>1. y = x \/ y = Begin(x, "replay")
  BY DEF StartReplay, ResumeReplay
<1>2. "replay" \in Kinds
  BY DEF Kinds
<1> QED  BY <1>1, <1>2, BeginMoves

-----------------------------------------------------------------------------
(* The invariant. *)

Copies(n, e) == [i \in 1..n |-> e]
Busy == {"picker", "write", "publish"}   \* the handler is in the middle of a transfer to a file
Renewing == {"renewing", "aborting", "renewal failing"}

\* The export of a project is in progress, or is about to start with its file open, or waits for
\* the writes of a cache.
Running == project.exporting /\ project.ends = 0
Opened == \E c \in project.calls : c.at # "dialog"
Waiting(v) == \E c \in project.calls : c.at = "cancelling" /\ c.victim = v

USE DEF Renewing

\* A transfer goes on only for an export the runtime has announced.
SlotInv ==
  /\ ex.phase # "none" => Kind(ex.slot) # "none"
  /\ ex.phase \notin {"transfer", "left"} => ex.got = 0
  /\ ex.phase = "left" => Kind(ex.slot) \in FullProject
  /\ ex.phase = "transfer" /\ handler.at \in Busy => handler.for = ex.slot
  /\ ex.phase = "transfer" /\ handler.at = "picker" => ex.got = 0 /\ Kind(ex.slot) = "download"
  /\ Kind(ex.slot) = "project" => Running

\* A chunk the handler writes follows the ones its file holds, if the file is still its own.
WriteInv ==
  handler.at = "write" =>
    LET e == handler.for
        file == sink[Kind(e)] IN
    /\ Kind(e) \in {"download", "project"}
    /\ handler.writer # 0 /\ file.writer = handler.writer => file.data = Copies(handler.chunk, e)
    /\ HoldsSlot(e) => file.writer = handler.writer /\ ex.got = handler.chunk + 1
    /\ /\ Kind(e) = "project" /\ ~HoldsSlot(e) /\ handler.writer # 0
       /\ Kind(ex.slot) = "project" \/ Opened
       => file.writer # handler.writer

\* The file of a download that is published is whole.
PublishInv ==
  handler.at = "publish" =>
    /\ Kind(handler.for) = "download"
    /\ sink["download"].data = Copies(Chunks, handler.for)
    /\ HoldsSlot(handler.for) => ex.got = Chunks

\* Between two chunks the file of the export in the slot holds what has been received of it.
FileInv ==
  /\ /\ Kind(ex.slot) = "download" /\ ex.phase = "transfer" /\ handler.at \notin Busy
     /\ sink["download"].writer # 0
     => sink["download"].data = Copies(ex.got, ex.slot)
  /\ /\ Kind(ex.slot) = "project" /\ ~(handler.at = "write" /\ HoldsSlot(handler.for))
     /\ sink["project"].writer # 0
     => sink["project"].data = Copies(ex.got, ex.slot)
  /\ Opened => sink["project"].data = <<>>

\* What is asked for, and what is on the way.
Underway ==
  ex.wants \cup {<<inbound[i].for, inbound[i].chunk>> : i \in {j \in DOMAIN inbound :
                                                                inbound[j].type = "chunk"}}

NoSettings == "settings" \notin kinds
Writing == {w \in caching : w.at = "write"}

\* The compiled cache has one write at a time, and its next one follows what its file holds.
CacheInv ==
  NoSettings =>
    /\ handler.at \notin Renewing
    /\ \A c \in project.calls : c.at = "cancelling" => Kind(c.victim) = "cache"
    /\ \A v, w \in Writing : v = w
    /\ timer => ~resume /\ Kind(ex.slot) # "cache" /\ Writing = {}
    /\ resume => Kind(ex.slot) # "cache" /\ \A w \in Writing : Waiting(w.for)
    /\ Kind(ex.slot) = "cache" =>
         /\ \A n \in Nat : <<ex.slot, n>> \in Underway => ex.phase = "transfer" /\ n <= ex.got
         /\ \A w \in Writing : w.for = ex.slot /\ ex.got = w.chunk + 1
                               /\ <<ex.slot, ex.got>> \notin Underway
         /\ Writing = {} /\ ex.got # 0 /\ sink["cache"].writer # 0
              => sink["cache"].data = Copies(ex.got, ex.slot)
    /\ \A w \in Writing :
         /\ Kind(w.for) = "cache"
         /\ w.chunk # 0 /\ w.writer # 0 /\ sink["cache"].writer # 0 =>
              sink["cache"].writer = w.writer /\ sink["cache"].data = Copies(w.chunk, w.for)

\* What is published is whole.
SavedInv ==
  NoSettings =>
    /\ saved.data # <<>> => saved.data = Copies(Chunks, saved.data[1])
    /\ saved.told # None => saved.data = Copies(Chunks, saved.told)

FilesInv == SlotInv /\ WriteInv /\ PublishInv /\ FileInv
ExportInv == TypeInv /\ FilesInv /\ CacheInv /\ SavedInv

-----------------------------------------------------------------------------
(* Sequences of equal elements. *)
LEMMA CopiesGrow ==
  ASSUME NEW n \in Nat, NEW e
  PROVE  /\ Copies(0, e) = <<>> /\ Append(Copies(n, e), e) = Copies(n + 1, e)
         /\ Copies(1, e) = <<e>>
<1>1. Copies(0, e) = <<>>
  BY DEF Copies
<1>2. Copies(1, e) = <<e>>
  BY DEF Copies
<1>3. Append(Copies(n, e), e) = Copies(n + 1, e)
  <2>1. Copies(n, e) \in Seq({e}) /\ Len(Copies(n, e)) = n
    BY DEF Copies
  <2>2. Append(Copies(n, e), e) \in Seq({e}) /\ Len(Append(Copies(n, e), e)) = n + 1
    BY <2>1
  <2>3. \A i \in 1..n + 1 : Append(Copies(n, e), e)[i] = e
    BY <2>1 DEF Copies
  <2>4. Copies(n + 1, e) \in Seq({e}) /\ Len(Copies(n + 1, e)) = n + 1
    BY DEF Copies
  <2>5. \A i \in 1..n + 1 : Copies(n + 1, e)[i] = e
    BY DEF Copies
  <2> QED  BY <2>2, <2>3, <2>4, <2>5
<1> QED  BY <1>1, <1>2, <1>3

-----------------------------------------------------------------------------
(* The files of downloads and projects. *)

Others == {"download", "cache", "replay", "snapshot", "archive"}
AsksAgain ==
  /\ ex'.slot = ex.slot /\ ex'.got = ex.got
  /\ ex.phase \in {"staging", "retry", "asked"} /\ ex'.phase \in {"asked", "retry"}
Lost ==
  /\ ex'.slot = ex.slot /\ ex'.got = ex.got /\ ex'.phase = "left"
  /\ Kind(ex.slot) \in FullProject
Starts ==
  /\ ex'.slot = ex.slot /\ ex'.got = ex.got /\ Kind(ex.slot) # "download"
  /\ ex.phase = "asked" /\ ex'.phase = "transfer" /\ handler.at = "idle"
Receives ==
  /\ ex'.slot = ex.slot /\ Kind(ex.slot) \notin {"download", "project"}
  /\ ex.phase = "transfer" /\ ex'.phase = "transfer" /\ handler.at = "idle"
SlotStep ==
  \/ Keeps(ex, ex') \/ Frees(ex') \/ \E k \in Others : Takes(ex', k)
  \/ AsksAgain \/ Lost \/ Starts \/ Receives

\* A step that leaves the transfers to these files alone.
Aside ==
  /\ SlotStep
  /\ handler' = handler \/ (handler.at \notin Busy /\ handler'.at \notin Busy)
  /\ sink'["download"] = sink["download"]
  /\ \/ sink'["project"] = sink["project"]
     \/ sink'["project"] = NoFile /\ Kind(ex'.slot) # "project"
  /\ \/ project' = project
     \/ Kind(ex'.slot) # "project" /\ (Opened' => Opened)

(* The slot keeps its invariant. *)
LEMMA AsideSlot ==
  ASSUME TypeInv, FilesInv, Aside
  PROVE  SlotInv'
<1>0. Kind(ex'.slot) = "project" /\ Running => Running'
  BY DEF Aside, Running
<1>1. CASE Keeps(ex, ex')
  BY <1>0, <1>1 DEF Keeps, Aside, FilesInv, SlotInv, Busy
<1>2. CASE Frees(ex')
  BY <1>2 DEF Frees, Aside, FilesInv, SlotInv, Busy, None, Kind
<1>3. ASSUME NEW k \in Others, Takes(ex', k) PROVE SlotInv'
  BY <1>3 DEF Takes, Others, SlotInv
<1>4. CASE AsksAgain
  BY <1>0, <1>4 DEF AsksAgain, Aside, FilesInv, SlotInv, Busy
<1>7. CASE Lost
  BY <1>0, <1>7 DEF Lost, Aside, FilesInv, SlotInv, Busy, FullProject
<1>5. CASE Starts
  BY <1>0, <1>5 DEF Starts, Aside, FilesInv, SlotInv, Busy
<1>6. CASE Receives
  BY <1>0, <1>6 DEF Receives, Aside, FilesInv, SlotInv, Busy
<1> QED  BY <1>1, <1>2, <1>3, <1>4, <1>5, <1>6, <1>7 DEF Aside, SlotStep

(* What an unfinished transfer needs of such a step. *)
LEMMA AsideFacts ==
  ASSUME TypeInv, FilesInv, Aside
  PROVE  /\ ex'.slot = handler.for /\ Kind(ex'.slot) \in {"download", "project"}
              => ex'.slot = ex.slot /\ ex'.got = ex.got
         /\ Kind(ex'.slot) = "project" => ex'.slot = ex.slot /\ ex'.got = ex.got
         /\ Kind(ex'.slot) = "download" /\ ex'.phase = "transfer"
              => ex'.slot = ex.slot /\ ex.phase = "transfer" /\ ex'.got = ex.got
<1>1. CASE Keeps(ex, ex')
  BY <1>1 DEF Keeps
<1>2. CASE Frees(ex')
  BY <1>2 DEF Frees, None, Kind
<1>3. ASSUME NEW k \in Others, Takes(ex', k)
      PROVE  ex'.slot # handler.for /\ Kind(ex'.slot) = k /\ k # "project" /\ ex'.phase # "transfer"
             /\ ex'.got = 0
  BY <1>3 DEF Takes, Others, Unused
<1>4. CASE AsksAgain
  BY <1>4 DEF AsksAgain
<1>7. CASE Lost
  BY <1>7 DEF Lost, FullProject
<1>5. CASE Starts
  BY <1>5 DEF Starts
<1>6. CASE Receives
  BY <1>6 DEF Receives
<1> QED  BY <1>1, <1>2, <1>3, <1>4, <1>5, <1>6, <1>7 DEF Aside, SlotStep

(* A call that has opened its file has not taken the slot. *)
LEMMA OpenedApart ==
  ASSUME TypeInv, SlotInv, Opened
  PROVE  Kind(ex.slot) # "project" /\ ~project.exporting
BY DEF TypeInv, ProjectType, SlotInv, Opened, Running

(* The write that is awaited keeps its file. *)
LEMMA AsideWrite ==
  ASSUME TypeInv, FilesInv, Aside
  PROVE  WriteInv'
<1> SUFFICES ASSUME handler'.at = "write" PROVE WriteInv'
  BY DEF WriteInv
<1>0. handler' = handler
  BY DEF Aside, Busy
<1> DEFINE e == handler.for
<1>1. /\ Kind(e) \in {"download", "project"}
      /\ handler.writer # 0 /\ sink[Kind(e)].writer = handler.writer
           => sink[Kind(e)].data = Copies(handler.chunk, e)
      /\ HoldsSlot(e) => sink[Kind(e)].writer = handler.writer /\ ex.got = handler.chunk + 1
      /\ /\ Kind(e) = "project" /\ ~HoldsSlot(e) /\ handler.writer # 0
         /\ Kind(ex.slot) = "project" \/ Opened
         => sink["project"].writer # handler.writer
  BY <1>0 DEF FilesInv, WriteInv
<1>2. /\ ex'.slot = e => ex'.slot = ex.slot /\ ex'.got = ex.got
      /\ Kind(ex'.slot) = "project" => ex'.slot = ex.slot
  BY <1>1, AsideFacts
<1>3. \/ sink'[Kind(e)] = sink[Kind(e)]
      \/ sink'[Kind(e)] = NoFile /\ Kind(e) = "project" /\ Kind(ex'.slot) # "project"
  <2>1. /\ sink'["download"] = sink["download"]
        /\ \/ sink'["project"] = sink["project"]
           \/ sink'["project"] = NoFile /\ Kind(ex'.slot) # "project"
    BY DEF Aside
  <2>2. CASE Kind(e) = "download"
    BY <2>1, <2>2
  <2>3. CASE Kind(e) = "project"
    BY <2>1, <2>3
  <2> QED  BY <1>1, <2>2, <2>3
<1>4. handler.writer # 0 /\ sink'[Kind(e)].writer = handler.writer
        => sink'[Kind(e)].data = Copies(handler.chunk, e)
  <2>1. NoFile.writer = 0
    BY DEF NoFile
  <2>2. CASE sink'[Kind(e)] = sink[Kind(e)]
    BY <1>1, <2>2
  <2>3. CASE sink'[Kind(e)] = NoFile
    BY <2>1, <2>3
  <2> QED  BY <1>3, <2>2, <2>3
<1>5. ex'.slot = e => sink'[Kind(e)].writer = handler.writer /\ ex'.got = handler.chunk + 1
  BY <1>1, <1>2, <1>3 DEF HoldsSlot
<1>6. ASSUME Kind(e) = "project", ex'.slot # e, handler.writer # 0,
             Kind(ex'.slot) = "project" \/ Opened'
      PROVE  sink'["project"].writer # handler.writer
  <2>1. CASE sink'["project"] = NoFile
    BY <1>6, <2>1 DEF NoFile
  <2>2. CASE sink'["project"] = sink["project"]
    <3>1. CASE Kind(ex'.slot) = "project"
      BY <1>1, <1>2, <1>6, <2>2, <3>1 DEF HoldsSlot
    <3>2. CASE Kind(ex'.slot) # "project"
      <4>1. Opened
        BY <1>6, <3>2 DEF Aside, Opened
      <4>2. ~HoldsSlot(e)
        BY <1>6, <4>1, OpenedApart DEF FilesInv, HoldsSlot
      <4> QED  BY <1>1, <1>6, <2>2, <4>1, <4>2
    <3> QED  BY <3>1, <3>2
  <2> QED  BY <2>1, <2>2 DEF Aside
<1> QED  BY <1>0, <1>1, <1>4, <1>5, <1>6 DEF WriteInv, HoldsSlot

(* A download that is published keeps its file. *)
LEMMA AsidePublish ==
  ASSUME TypeInv, FilesInv, Aside
  PROVE  PublishInv'
<1> SUFFICES ASSUME handler'.at = "publish" PROVE PublishInv'
  BY DEF PublishInv
<1>1. handler' = handler /\ sink'["download"] = sink["download"]
  BY DEF Aside, Busy
<1>2. /\ Kind(handler.for) = "download"
      /\ sink["download"].data = Copies(Chunks, handler.for)
      /\ ex.slot = handler.for => ex.got = Chunks
  BY <1>1 DEF FilesInv, PublishInv, HoldsSlot
<1>3. ex'.slot = handler.for => ex'.slot = ex.slot /\ ex'.got = ex.got
  BY <1>2, AsideFacts
<1> QED  BY <1>1, <1>2, <1>3 DEF PublishInv, HoldsSlot

(* The files keep what has been received. *)
LEMMA AsideFile ==
  ASSUME TypeInv, FilesInv, Aside
  PROVE  FileInv'
<1>1. ASSUME Kind(ex'.slot) = "download", ex'.phase = "transfer", handler'.at \notin Busy,
             sink'["download"].writer # 0
      PROVE  sink'["download"].data = Copies(ex'.got, ex'.slot)
  <2>1. ex'.slot = ex.slot /\ ex.phase = "transfer" /\ ex'.got = ex.got
    BY <1>1, AsideFacts
  <2>2. handler.at \notin Busy /\ sink'["download"] = sink["download"]
    BY <1>1 DEF Aside
  <2> QED  BY <1>1, <2>1, <2>2 DEF FilesInv, FileInv
<1>2. ASSUME Kind(ex'.slot) = "project", ~(handler'.at = "write" /\ ex'.slot = handler'.for),
             sink'["project"].writer # 0
      PROVE  sink'["project"].data = Copies(ex'.got, ex'.slot)
  <2>1. ex'.slot = ex.slot /\ ex'.got = ex.got
    BY <1>2, AsideFacts
  <2>2. sink'["project"] = sink["project"]
    BY <1>2 DEF Aside
  <2>3. ~(handler.at = "write" /\ ex.slot = handler.for)
    BY <1>2, <2>1 DEF Aside, Busy
  <2> QED  BY <1>2, <2>1, <2>2, <2>3 DEF FilesInv, FileInv, HoldsSlot
<1>3. ASSUME Opened'
      PROVE  sink'["project"].data = <<>>
  <2>1. Opened
    BY <1>3 DEF Aside, Opened
  <2> QED  BY <2>1 DEF Aside, FilesInv, FileInv, NoFile
<1> QED  BY <1>1, <1>2, <1>3 DEF FileInv, HoldsSlot

(* A step aside keeps the invariant of the files. *)
LEMMA AsideFiles ==
  ASSUME TypeInv, FilesInv, Aside
  PROVE  FilesInv'
BY AsideSlot, AsideWrite, AsidePublish, AsideFile DEF FilesInv

-----------------------------------------------------------------------------
(* The compiled cache. *)

\* The slot of a cache stays as it is, and nothing new is under way for it.
SlotAside ==
  Kind(ex'.slot) = "cache" =>
    /\ ex'.slot = ex.slot /\ ex'.got = ex.got
    /\ ex'.phase = ex.phase \/ ex.phase # "transfer"
    /\ \A n \in Nat : <<ex.slot, n>> \in Underway' => <<ex.slot, n>> \in Underway

\* A project waits for the cache as before, has cancelled it, or resumes it.
WaitAside ==
  /\ \A c \in project'.calls : c.at = "cancelling" => c \in project.calls
  /\ \/ /\ timer' = timer /\ resume' = resume
        /\ resume => \A w \in Writing : Waiting(w.for) => Waiting(w.for)'
     \/ timer' = (timer \/ resume) /\ resume' = FALSE /\ project.calls = {}

CacheAside ==
  /\ SlotAside /\ WaitAside
  /\ handler'.at \notin Renewing
  /\ Writing' = Writing
  /\ sink'["cache"] = sink["cache"] \/ sink'["cache"] = NoFile

(* A step that leaves the cache alone keeps its invariant. *)
LEMMA AsideCache ==
  ASSUME TypeInv, CacheInv, kinds' = kinds, NoSettings => CacheAside
  PROVE  CacheInv'
<1> SUFFICES ASSUME NoSettings PROVE CacheInv'
  BY DEF CacheInv, NoSettings
<1>0. CacheAside
  OBVIOUS
<1>1. /\ \A c \in project.calls : c.at = "cancelling" => Kind(c.victim) = "cache"
      /\ \A v, w \in Writing : v = w
      /\ timer => ~resume /\ Kind(ex.slot) # "cache" /\ Writing = {}
      /\ resume => Kind(ex.slot) # "cache" /\ \A w \in Writing : Waiting(w.for)
  BY DEF CacheInv
<1>2. Kind(ex.slot) = "cache" =>
        /\ \A n \in Nat : <<ex.slot, n>> \in Underway => ex.phase = "transfer" /\ n <= ex.got
        /\ \A w \in Writing : w.for = ex.slot /\ ex.got = w.chunk + 1
                              /\ <<ex.slot, ex.got>> \notin Underway
        /\ Writing = {} /\ ex.got # 0 /\ sink["cache"].writer # 0
             => sink["cache"].data = Copies(ex.got, ex.slot)
  BY DEF CacheInv
<1>3. \A w \in Writing :
        /\ Kind(w.for) = "cache"
        /\ w.chunk # 0 /\ w.writer # 0 /\ sink["cache"].writer # 0 =>
             sink["cache"].writer = w.writer /\ sink["cache"].data = Copies(w.chunk, w.for)
  BY DEF CacheInv
<1>4. Writing' = Writing
  BY <1>0 DEF CacheAside
<1>5. Kind(ex'.slot) = "cache" => ex'.slot = ex.slot /\ ex'.got = ex.got
  BY <1>0 DEF CacheAside, SlotAside
<1>6. sink'["cache"].writer # 0 => sink'["cache"] = sink["cache"]
  <2>1. NoFile.writer = 0
    BY DEF NoFile
  <2> QED  BY <1>0, <2>1 DEF CacheAside
<1>7. /\ \A c \in project'.calls : c.at = "cancelling" => Kind(c.victim) = "cache"
      /\ timer' => ~resume' /\ Kind(ex'.slot) # "cache" /\ Writing' = {}
      /\ resume' => Kind(ex'.slot) # "cache" /\ \A w \in Writing' : Waiting(w.for)'
  <2>1. \A c \in project'.calls : c.at = "cancelling" => Kind(c.victim) = "cache"
    BY <1>0, <1>1 DEF CacheAside, WaitAside
  <2>2. CASE timer' = timer /\ resume' = resume
             /\ (resume => \A w \in Writing : Waiting(w.for) => Waiting(w.for)')
    <3>1. timer' => ~resume' /\ Kind(ex'.slot) # "cache" /\ Writing' = {}
      BY <1>1, <1>4, <1>5, <2>2
    <3>2. ASSUME resume'
          PROVE  Kind(ex'.slot) # "cache" /\ \A w \in Writing' : Waiting(w.for)'
      BY <1>1, <1>4, <1>5, <2>2, <3>2
    <3> QED  BY <2>1, <3>1, <3>2
  <2>3. CASE timer' = (timer \/ resume) /\ resume' = FALSE /\ project.calls = {}
    <3>1. resume => Writing = {}
      BY <1>1, <2>3 DEF Waiting
    <3> QED  BY <1>1, <1>4, <1>5, <2>1, <2>3, <3>1
  <2> QED  BY <1>0, <2>2, <2>3 DEF CacheAside, WaitAside
<1>8. Kind(ex'.slot) = "cache" =>
        /\ \A n \in Nat : <<ex'.slot, n>> \in Underway' => ex'.phase = "transfer" /\ n <= ex'.got
        /\ \A w \in Writing' : w.for = ex'.slot /\ ex'.got = w.chunk + 1
                               /\ <<ex'.slot, ex'.got>> \notin Underway'
        /\ Writing' = {} /\ ex'.got # 0 /\ sink'["cache"].writer # 0
             => sink'["cache"].data = Copies(ex'.got, ex'.slot)
  <2> SUFFICES ASSUME Kind(ex'.slot) = "cache"
               PROVE  /\ \A n \in Nat : <<ex'.slot, n>> \in Underway'
                                          => ex'.phase = "transfer" /\ n <= ex'.got
                      /\ \A w \in Writing' : w.for = ex'.slot /\ ex'.got = w.chunk + 1
                                             /\ <<ex'.slot, ex'.got>> \notin Underway'
                      /\ Writing' = {} /\ ex'.got # 0 /\ sink'["cache"].writer # 0
                           => sink'["cache"].data = Copies(ex'.got, ex'.slot)
    OBVIOUS
  <2>1. /\ ex'.phase = ex.phase \/ ex.phase # "transfer"
        /\ \A n \in Nat : <<ex.slot, n>> \in Underway' => <<ex.slot, n>> \in Underway
    BY <1>0 DEF CacheAside, SlotAside
  <2>2. ex.got \in Nat
    BY DEF TypeInv, ExTypes
  <2>3. \A n \in Nat : <<ex'.slot, n>> \in Underway' => ex'.phase = "transfer" /\ n <= ex'.got
    BY <1>2, <1>5, <2>1
  <2>4. \A w \in Writing' : w.for = ex'.slot /\ ex'.got = w.chunk + 1
                            /\ <<ex'.slot, ex'.got>> \notin Underway'
    BY <1>2, <1>4, <1>5, <2>1, <2>2
  <2>5. Writing' = {} /\ ex'.got # 0 /\ sink'["cache"].writer # 0
          => sink'["cache"].data = Copies(ex'.got, ex'.slot)
    BY <1>2, <1>4, <1>5, <1>6
  <2> QED  BY <2>3, <2>4, <2>5
<1>9. \A w \in Writing' :
        /\ Kind(w.for) = "cache"
        /\ w.chunk # 0 /\ w.writer # 0 /\ sink'["cache"].writer # 0 =>
             sink'["cache"].writer = w.writer /\ sink'["cache"].data = Copies(w.chunk, w.for)
  BY <1>3, <1>4, <1>6
<1>10. handler'.at \notin Renewing /\ \A v, w \in Writing' : v = w
  BY <1>0, <1>1, <1>4 DEF CacheAside
<1> QED  BY <1>7, <1>8, <1>9, <1>10 DEF CacheInv

(* Messages are taken from the front, or a batch is lost: nothing new is under way. *)
LEMMA UnderwayShrinks ==
  ASSUME TypeInv, ex'.wants \subseteq ex.wants,
         \A i \in DOMAIN inbound' : \E j \in DOMAIN inbound : inbound'[i] = inbound[j]
  PROVE  Underway' \subseteq Underway
BY DEF Underway

(* A handler at rest. *)
LEMMA IdleType == Idle \in HandlerTypes /\ Idle.at = "idle"
BY DEF Idle, HandlerTypes, Places, None, Exports, Kinds

(* The messages left of a queue. *)
LEMMA RestMessages ==
  ASSUME TypeInv, inbound # <<>>
  PROVE  /\ Rest \in Seq(Messages)
         /\ \A i \in DOMAIN Rest : \E j \in DOMAIN inbound : Rest[i] = inbound[j]
<1>1. Rest \in Seq(Messages) /\ Len(Rest) = Len(inbound) - 1
  BY DEF TypeInv, Rest
<1>2. \A i \in DOMAIN Rest : i + 1 \in DOMAIN inbound /\ Rest[i] = inbound[i + 1]
  BY <1>1 DEF TypeInv, Rest
<1> QED  BY <1>1, <1>2

(* The messages a lost batch leaves. *)
LEMMA FaultMessages ==
  ASSUME TypeInv, NEW rest \in Seq(Messages), NEW submitted, Faults(rest, submitted),
         \A i \in DOMAIN rest : \E j \in DOMAIN inbound : rest[i] = inbound[j]
  PROVE  /\ inbound' \in Seq(Messages) /\ pumping' \in BOOLEAN /\ handler' = Idle
         /\ \A i \in DOMAIN inbound' : \E j \in DOMAIN inbound : inbound'[i] = inbound[j]
<1>1. PICK n \in 0..Len(rest) : inbound' = SubSeq(rest, n + 1, Len(rest))
  BY DEF Faults
<1>2. inbound' \in Seq(Messages) /\ Len(inbound') = Len(rest) - n
  BY <1>1
<1>3. \A i \in DOMAIN inbound' : n + i \in DOMAIN rest /\ inbound'[i] = rest[n + i]
  BY <1>1, <1>2
<1> QED  BY <1>2, <1>3 DEF Faults

-----------------------------------------------------------------------------
(* Steps that leave the transfers alone. *)

\* The slot is left alone, emptied, or taken by an export other than a project or a cache.
Calm(y) ==
  /\ y \in ExTypes /\ y.wants \subseteq ex.wants
  /\ Keeps(ex, y) \/ Frees(y) \/ \E k \in Others \ {"cache"} : Takes(y, k)

(* The transitions of the slot most steps are built from. *)
LEMMA CalmMoves ==
  ASSUME TypeInv
  PROVE  /\ Calm(ex)
         /\ \A K, E : Calm(Withdraw(ex, K, E))
         /\ \A x \in ExTypes : x.wants \subseteq ex.wants => Calm(Free(x))
<1>1. ex \in ExTypes
  BY DEF TypeInv
<1>2. Calm(ex)
  BY <1>1 DEF Calm, Keeps
<1>3. ASSUME NEW K, NEW E PROVE Calm(Withdraw(ex, K, E))
  BY <1>1, WithdrawMoves DEF Calm
<1>4. ASSUME NEW x \in ExTypes, x.wants \subseteq ex.wants PROVE Calm(Free(x))
  BY <1>4, FreeMoves DEF Calm
<1> QED  BY <1>2, <1>3, <1>4

(* A diagnosis that starts is calm, too. *)
LEMMA CalmReplay ==
  ASSUME TypeInv, NEW x, Calm(x)
  PROVE  Calm(StartReplay(x)) /\ Calm(ResumeReplay(x))
<1>0. x \in ExTypes
  BY DEF Calm
<1>1. ASSUME NEW y, y = StartReplay(x) \/ y = ResumeReplay(x) PROVE Calm(y)
  <2>1. y \in ExTypes /\ y.wants = x.wants /\ (y = x \/ Takes(y, "replay"))
    BY <1>0, <1>1, ReplayMoves
  <2>2. CASE y = x
    BY <2>2
  <2>3. CASE Takes(y, "replay")
    BY <2>1, <2>3 DEF Calm, Others
  <2> QED  BY <2>1, <2>2, <2>3
<1> QED  BY <1>1

(* An export begins. *)
LEMMA CalmBegin ==
  ASSUME TypeInv, NEW k \in Others \ {"cache"}
  PROVE  /\ \A x \in ExTypes : x.wants \subseteq ex.wants => Calm(Begin(x, k))
         /\ \A x \in ExTypes : x.wants \subseteq ex.wants => Calm(Stage(x, k))
<1>1. k \in Kinds
  BY DEF Others, Kinds
<1>2. ASSUME NEW x \in ExTypes, x.wants \subseteq ex.wants PROVE Calm(Begin(x, k))
  BY <1>1, <1>2, BeginMoves DEF Calm
<1>3. ASSUME NEW x \in ExTypes, x.wants \subseteq ex.wants PROVE Calm(Stage(x, k))
  BY <1>1, <1>3, StageMoves DEF Calm
<1> QED  BY <1>2, <1>3

(* Such a step leaves the slots of projects and caches alone. *)
LEMMA CalmSlot ==
  ASSUME TypeInv, Calm(ex'), Underway' \subseteq Underway
  PROVE  SlotStep /\ SlotAside
<1>1. SlotStep
  BY DEF Calm, SlotStep
<1>2. SlotAside
  <2>1. CASE Keeps(ex, ex')
    BY <2>1 DEF Keeps, SlotAside
  <2>2. CASE Frees(ex')
    BY <2>2 DEF Frees, SlotAside, None, Kind
  <2>3. ASSUME NEW k \in Others \ {"cache"}, Takes(ex', k) PROVE SlotAside
    BY <2>3 DEF Takes, SlotAside
  <2> QED  BY <2>1, <2>2, <2>3 DEF Calm
<1> QED  BY <1>1, <1>2

(* A step that leaves the transfers alone keeps the invariant. *)
LEMMA AsideKeeps ==
  ASSUME ExportInv, TypeInv', Aside, kinds' = kinds, saved' = saved, NoSettings => CacheAside
  PROVE  ExportInv'
<1>1. FilesInv' /\ CacheInv'
  BY AsideFiles, AsideCache DEF ExportInv
<1>2. SavedInv'
  BY DEF ExportInv, SavedInv, NoSettings
<1> QED  BY <1>1, <1>2 DEF ExportInv

(* The same where messages are only taken. *)
LEMMA CalmKeeps ==
  ASSUME ExportInv, TypeInv', Calm(ex'), kinds' = kinds, saved' = saved,
         \A i \in DOMAIN inbound' : \E j \in DOMAIN inbound : inbound'[i] = inbound[j],
         handler' = handler \/ (handler.at \notin Busy /\ handler'.at \notin Busy),
         sink'["download"] = sink["download"],
         \/ sink'["project"] = sink["project"]
         \/ sink'["project"] = NoFile /\ Kind(ex'.slot) # "project",
         \/ project' = project
         \/ Kind(ex'.slot) # "project" /\ (Opened' => Opened),
         NoSettings => /\ WaitAside /\ handler'.at \notin Renewing
                       /\ Writing' = Writing
                       /\ sink'["cache"] = sink["cache"] \/ sink'["cache"] = NoFile
  PROVE  ExportInv'
<1>0. TypeInv
  BY DEF ExportInv
<1>1. Underway' \subseteq Underway
  <2>1. ex'.wants \subseteq ex.wants
    BY DEF Calm
  <2>2. \A i \in DOMAIN inbound' : \E j \in DOMAIN inbound : inbound'[i] = inbound[j]
    OBVIOUS
  <2> QED  BY <1>0, <2>1, <2>2, UnderwayShrinks
<1>2. SlotStep /\ SlotAside
  BY <1>0, <1>1, CalmSlot
<1>3. Aside
  BY <1>2 DEF Aside
<1>4. NoSettings => CacheAside
  BY <1>2 DEF CacheAside
<1> QED  BY <1>3, <1>4, AsideKeeps

(* Nothing changes of who waits for the cache. *)
LEMMA WaitKept ==
  ASSUME project' = project, resume' = resume, timer' = timer
  PROVE  WaitAside
BY DEF WaitAside, Waiting

(* A call leaves that does not wait for a cache, or one arrives. *)
LEMMA WaitOthers ==
  ASSUME NEW c, c.at # "cancelling",
         project'.calls = project.calls \ {c} \/ project'.calls = project.calls \cup {c},
         resume' = resume, timer' = timer
  PROVE  WaitAside
BY DEF WaitAside, Waiting

(* The calls stay as they are while the export they led to goes on. *)
LEMMA WaitCalls ==
  ASSUME project'.calls = project.calls, resume' = resume, timer' = timer
  PROVE  WaitAside
BY DEF WaitAside, Waiting

(* The export of a project fails: nothing is opened, and its end is to come. *)
LEMMA ProjectFailing ==
  ASSUME TypeInv, FilesInv, Kind(ex.slot) = "project",
         project' = [project EXCEPT !.ends = @ + 1]
  PROVE  ProjectType(project') /\ project'.calls = project.calls /\ (Opened' => Opened)
<1>1. project.exporting /\ project.ends = 0
  BY DEF FilesInv, SlotInv, Running
<1>2. /\ project'.calls = project.calls /\ project'.exporting = project.exporting
      /\ project'.ends = 1
      /\ project' \in [calls : SUBSET Calls, exporting : BOOLEAN, ends : {0, 1}]
  <2>1. project \in [calls : SUBSET Calls, exporting : BOOLEAN, ends : {0, 1}]
    BY DEF TypeInv, ProjectType
  <2>2. project' = [project EXCEPT !.ends = 1]
    BY <1>1
  <2> QED  BY <2>1, <2>2
<1>3. project.calls = {} /\ project'.calls = {}
  BY <1>1, <1>2 DEF TypeInv, ProjectType
<1> QED  BY <1>1, <1>2, <1>3 DEF ProjectType, Opened

(* A call goes on, or leaves: it was the only one. *)
LEMMA OnlyCall ==
  ASSUME TypeInv, NEW c \in project.calls
  PROVE  /\ c \in Calls /\ project.calls = {c} /\ ~project.exporting /\ project.ends = 0
         /\ Leaves(c) => ProjectType(project') /\ project'.calls = {} /\ project'.exporting = FALSE
         /\ \A at \in Going, v \in Exports : Goes(c, at, v) =>
              /\ ProjectType(project') /\ project'.exporting = FALSE
              /\ project'.calls = {[c EXCEPT !.at = at, !.victim = v]}
<1>1. c \in Calls /\ project.calls = {c} /\ ~project.exporting /\ project.ends = 0
  BY DEF TypeInv, ProjectType
<1>2. ASSUME Leaves(c)
      PROVE  ProjectType(project') /\ project'.calls = {} /\ project'.exporting = FALSE
  <2>1. /\ project' \in [calls : SUBSET Calls, exporting : BOOLEAN, ends : {0, 1}]
        /\ project'.calls = {} /\ project'.exporting = FALSE /\ project'.ends = 0
    BY <1>1, <1>2 DEF Leaves, TypeInv, ProjectType
  <2> QED  BY <2>1 DEF ProjectType
<1>3. ASSUME NEW at \in Going, NEW v \in Exports, Goes(c, at, v)
      PROVE  /\ ProjectType(project') /\ project'.exporting = FALSE
             /\ project'.calls = {[c EXCEPT !.at = at, !.victim = v]}
  <2> PICK d : d = [c EXCEPT !.at = at, !.victim = v]
    OBVIOUS
  <2>1. d \in Calls
    BY <1>1 DEF Calls
  <2>2. project' = [project EXCEPT !.calls = {d}]
    BY <1>1, <1>3 DEF Goes
  <2>3. /\ project' \in [calls : SUBSET Calls, exporting : BOOLEAN, ends : {0, 1}]
        /\ project'.calls = {d} /\ project'.exporting = FALSE /\ project'.ends = 0
    BY <1>1, <2>1, <2>2 DEF TypeInv, ProjectType
  <2> QED  BY <2>3 DEF ProjectType
<1> QED  BY <1>1, <1>2, <1>3

(* The writes stay. *)
LEMMA WritingKept ==
  ASSUME caching' = caching
  PROVE  Writing' = Writing
BY DEF Writing

(* The player starts the download of a state. *)
LEMMA DownloadBegins ==
  ASSUME ExportInv, BeginsDownload
  PROVE  ExportInv'
<1>0. TypeInv /\ ex \in ExTypes
  BY DEF ExportInv, TypeInv
<1>1. Calm(ex')
  BY <1>0, CalmBegin DEF BeginsDownload, Others
<1>2. TypeInv'
  <2>1. ex' \in ExTypes
    BY <1>1 DEF Calm
  <2> QED  BY <1>0, <2>1 DEF TypeInv, BeginsDownload, Starting, Wakes, runtimeVars, diagnosisVars,
                            projectVars, hostVars
<1>3. /\ inbound' = inbound /\ handler' = handler /\ project' = project
      /\ resume' = resume /\ timer' = timer /\ caching' = caching /\ sink' = sink
      /\ saved' = saved /\ kinds' = kinds
  BY DEF BeginsDownload, Starting, runtimeVars, projectVars, hostVars
<1>4. NoSettings => WaitAside /\ handler'.at \notin Renewing /\ Writing' = Writing
  BY <1>3, WaitKept, WritingKept DEF ExportInv, CacheInv
<1> QED  BY <1>1, <1>2, <1>3, <1>4, CalmKeeps

(* The player starts a diagnosis, which may have to wait for the slot. *)
LEMMA DiagnosisBegins ==
  ASSUME ExportInv, BeginsDiagnosis
  PROVE  ExportInv'
<1>0. TypeInv /\ ex \in ExTypes
  BY DEF ExportInv, TypeInv
<1>1. Calm(ex')
  <2>1. ex' = ex \/ ex' = Begin(ex, "replay")
    BY DEF BeginsDiagnosis
  <2>2. CASE ex' = ex
    BY <1>0, <2>2, CalmMoves
  <2>3. CASE ex' = Begin(ex, "replay")
    BY <1>0, <2>3, CalmBegin DEF Others
  <2> QED  BY <2>1, <2>2, <2>3
<1>2. TypeInv'
  <2>1. ex' \in ExTypes
    BY <1>1 DEF Calm
  <2>2. pumping' \in BOOLEAN
    BY DEF BeginsDiagnosis
  <2> QED  BY <1>0, <2>1, <2>2 DEF TypeInv, BeginsDiagnosis, Starting, runtimeVars, projectVars,
                                  hostVars
<1>3. /\ inbound' = inbound /\ handler' = handler /\ project' = project
      /\ resume' = resume /\ timer' = timer /\ caching' = caching /\ sink' = sink
      /\ saved' = saved /\ kinds' = kinds
  BY DEF BeginsDiagnosis, Starting, runtimeVars, projectVars, hostVars
<1>4. NoSettings => WaitAside /\ handler'.at \notin Renewing /\ Writing' = Writing
  BY <1>3, WaitKept, WritingKept DEF ExportInv, CacheInv
<1> QED  BY <1>1, <1>2, <1>3, <1>4, CalmKeeps

(* The player opens the dialog of a project file, while no other call is at work. *)
LEMMA ProjectOpens ==
  ASSUME ExportInv, OpensProject, ~crossed'
  PROVE  ExportInv'
<1>0. TypeInv /\ ex \in ExTypes
  BY DEF ExportInv, TypeInv
<1>1. Calm(ex')
  BY <1>0, CalmMoves DEF OpensProject
<1>2. project.calls = {} /\ project.exporting = FALSE /\ project.ends = 0
  BY <1>0 DEF OpensProject, TypeInv, ProjectType
<1>3. PICK n : n = CHOOSE i \in 0..Cardinality({}) : TRUE
  OBVIOUS
<1>4. n \in Nat
  <2>1. Cardinality({}) = 0
    BY FS_EmptySet
  <2> QED  BY <1>3, <2>1
<1> PICK d : d = [n |-> n, at |-> "dialog", victim |-> None]
  OBVIOUS
<1>5. project' = [project EXCEPT !.calls = {d}]
  <2>1. (CHOOSE i \in 0..Cardinality({}) : \A c \in {} : c.n # i)
          = CHOOSE i \in 0..Cardinality({}) : TRUE
    OBVIOUS
  <2> QED  BY <1>2, <1>3, <2>1 DEF OpensProject
<1>6. d \in Calls /\ d.at = "dialog"
  BY <1>4 DEF Calls, Going, None, Exports, Kinds
<1>7. /\ project' \in [calls : SUBSET Calls, exporting : BOOLEAN, ends : {0, 1}]
      /\ project'.calls = {d} /\ project'.exporting = FALSE /\ project'.ends = 0
  BY <1>0, <1>2, <1>5, <1>6 DEF TypeInv, ProjectType
<1>8. ProjectType(project')
  BY <1>7 DEF ProjectType
<1>9. /\ ex' = ex /\ inbound' = inbound /\ handler' = handler
      /\ resume' = resume /\ timer' = timer /\ caching' = caching /\ sink' = sink
      /\ saved' = saved /\ kinds' = kinds
  BY DEF OpensProject, Starting, runtimeVars, hostVars
<1>10. TypeInv'
  BY <1>0, <1>8 DEF TypeInv, OpensProject, Starting, runtimeVars, diagnosisVars, hostVars
<1>11. NoSettings => WaitAside /\ handler'.at \notin Renewing /\ Writing' = Writing
  <2>1. project'.calls = project.calls \cup {d}
    BY <1>2, <1>7
  <2> QED  BY <1>6, <1>9, <2>1, WaitOthers, WritingKept DEF ExportInv, CacheInv
<1>12. Kind(ex'.slot) # "project" /\ ~Opened'
  <2>1. Kind(ex.slot) # "project"
    BY <1>2 DEF ExportInv, FilesInv, SlotInv, Running
  <2> QED  BY <1>6, <1>7, <1>9, <2>1 DEF Opened
<1> QED  BY <1>1, <1>9, <1>10, <1>11, <1>12, CalmKeeps

(* The player declines it. *)
LEMMA ProjectDeclined ==
  ASSUME ExportInv, NEW c \in project.calls, Declines(c)
  PROVE  ExportInv'
<1>0. TypeInv /\ ex \in ExTypes
  BY DEF ExportInv, TypeInv
<1>1. Calm(ex')
  BY <1>0, CalmMoves DEF Declines
<1>2. /\ ProjectType(project') /\ project'.calls = {} /\ project.calls = {c} /\ c.at = "dialog"
      /\ ~project.exporting
  BY <1>0, OnlyCall DEF Declines
<1>3. /\ ex' = ex /\ inbound' = inbound /\ handler' = handler
      /\ resume' = resume /\ timer' = timer /\ caching' = caching /\ sink' = sink
      /\ saved' = saved /\ kinds' = kinds
  BY DEF Declines, runtimeVars, hostVars, gameVars
<1>4. TypeInv'
  BY <1>0, <1>2 DEF TypeInv, Declines, runtimeVars, diagnosisVars, hostVars, gameVars
<1>5. NoSettings => WaitAside /\ handler'.at \notin Renewing /\ Writing' = Writing
  <2>1. project'.calls = project.calls \ {c}
    BY <1>2
  <2> QED  BY <1>2, <1>3, <2>1, WaitOthers, WritingKept DEF ExportInv, CacheInv
<1>6. Kind(ex'.slot) # "project" /\ ~Opened'
  BY <1>2, <1>3 DEF ExportInv, FilesInv, SlotInv, Running, Opened
<1> QED  BY <1>1, <1>3, <1>4, <1>5, <1>6, CalmKeeps

(* The player cancels the export of a project file. *)
LEMMA ProjectCancelled ==
  ASSUME ExportInv, CancelsProject
  PROVE  ExportInv'
<1>0. TypeInv /\ FilesInv /\ ex \in ExTypes
  BY DEF ExportInv, TypeInv
<1>1. Calm(ex') /\ Frees(ex')
  BY <1>0, CalmMoves, FreeMoves DEF CancelsProject, FailsProject
<1>2. ProjectType(project') /\ project'.calls = project.calls /\ (Opened' => Opened)
  BY <1>0, ProjectFailing DEF CancelsProject, FailsProject
<1>3. /\ inbound' = inbound /\ handler' = handler /\ resume' = resume
      /\ timer' = timer /\ caching' = caching /\ sink' = sink /\ saved' = saved /\ kinds' = kinds
  BY DEF CancelsProject, runtimeVars, hostVars, gameVars
<1>4. TypeInv'
  <2>1. ex' \in ExTypes
    BY <1>1 DEF Calm
  <2> QED  BY <1>0, <1>2, <2>1 DEF TypeInv, CancelsProject, runtimeVars, diagnosisVars, hostVars,
                                   gameVars
<1>5. NoSettings => WaitAside /\ handler'.at \notin Renewing /\ Writing' = Writing
  BY <1>2, <1>3, WaitCalls, WritingKept DEF ExportInv, CacheInv
<1>6. Kind(ex'.slot) # "project"
  BY <1>1 DEF Frees, None, Kind
<1> QED  BY <1>1, <1>2, <1>3, <1>4, <1>5, <1>6, CalmKeeps

(* An update of the configuration renews the compiled cache. *)
LEMMA CacheIsRenewed ==
  ASSUME ExportInv, RenewsCache
  PROVE  ExportInv'
<1>0. TypeInv /\ ex \in ExTypes
  BY DEF ExportInv, TypeInv
<1>1. Calm(ex')
  BY <1>0, CalmMoves DEF RenewsCache
<1>2. handler.at \notin Busy /\ handler' \in HandlerTypes /\ handler'.at \notin Busy
  <2>1. CASE handler' = handler
    BY <1>0, <2>1 DEF RenewsCache, Idle, Busy, TypeInv
  <2>2. CASE Awaits("renewing", ex.slot)
    <3>1. Kind(ex.slot) \in Files => sink[Kind(ex.slot)].writer \in Nat
      BY <1>0 DEF TypeInv, FileTypes
    <3>2. handler' \in HandlerTypes /\ handler'.at = "renewing"
      BY <1>0, <2>2, <3>1 DEF Awaits, HandlerTypes, Places, ExTypes
    <3> QED  BY <3>2 DEF RenewsCache, Idle, Busy
  <2> QED  BY <2>1, <2>2 DEF RenewsCache
<1>3. /\ inbound' = inbound /\ project' = project /\ resume' = resume
      /\ caching' = caching /\ sink' = sink /\ saved' = saved /\ kinds' = kinds
  BY DEF RenewsCache, Starting, runtimeVars, projectVars, hostVars
<1>4. TypeInv'
  <2>1. ex' \in ExTypes
    BY <1>1 DEF Calm
  <2>2. timer' \in BOOLEAN
    BY <1>0 DEF RenewsCache, TypeInv
  <2> QED  BY <1>0, <1>2, <1>3, <2>1, <2>2 DEF TypeInv, RenewsCache, Starting, runtimeVars,
                                               diagnosisVars
<1>5. ~NoSettings
  BY DEF RenewsCache, Starting, NoSettings
<1> QED  BY <1>1, <1>2, <1>3, <1>4, <1>5, CalmKeeps

(* What the renewal does once the old cache has left the slot: it is withdrawn and aborted, and
   either may fail. *)
LEMMA CacheRenewal ==
  ASSUME ExportInv, Renews
  PROVE  ExportInv'
<1>0. TypeInv /\ ex \in ExTypes /\ inbound \in Seq(Messages)
  BY DEF ExportInv, TypeInv
<1>1. Calm(ex')
  BY <1>0, CalmMoves DEF Renews
<1>2. /\ handler.at \notin Busy /\ handler' \in HandlerTypes /\ handler'.at \notin Busy
      /\ inbound' \in Seq(Messages) /\ pumping' \in BOOLEAN
      /\ \A i \in DOMAIN inbound' : \E j \in DOMAIN inbound : inbound'[i] = inbound[j]
  <2>1. CASE handler.at = "aborting" /\ handler' = Idle /\ UNCHANGED <<inbound, pumping>>
    BY <1>0, <2>1 DEF Idle, Busy, HandlerTypes, Places, None, Exports, Kinds, TypeInv
  <2>2. ASSUME NEW at \in {"aborting", "renewal failing"}, handler.at = "renewing",
               Awaits(at, handler.for), UNCHANGED <<inbound, pumping>>
        PROVE  /\ handler.at \notin Busy /\ handler' \in HandlerTypes /\ handler'.at \notin Busy
               /\ inbound' \in Seq(Messages) /\ pumping' \in BOOLEAN
               /\ \A i \in DOMAIN inbound' : \E j \in DOMAIN inbound : inbound'[i] = inbound[j]
    <3>1. Kind(handler.for) \in Files => sink[Kind(handler.for)].writer \in Nat
      BY <1>0 DEF TypeInv, FileTypes
    <3>2. handler' \in HandlerTypes /\ handler'.at = at
      BY <1>0, <2>2, <3>1 DEF Awaits, HandlerTypes, Places, ExTypes, TypeInv
    <3> QED  BY <1>0, <2>2, <3>2 DEF Busy, TypeInv
  <2>3. CASE handler.at \in {"aborting", "renewal failing"}
             /\ \E submitted \in BOOLEAN : Faults(inbound, submitted)
    <3>1. PICK submitted \in BOOLEAN : Faults(inbound, submitted)
      BY <2>3
    <3>2. /\ inbound' \in Seq(Messages) /\ pumping' \in BOOLEAN /\ handler' = Idle
          /\ \A i \in DOMAIN inbound' : \E j \in DOMAIN inbound : inbound'[i] = inbound[j]
      BY <1>0, <3>1, FaultMessages
    <3> QED  BY <2>3, <3>2 DEF Idle, Busy, HandlerTypes, Places, None, Exports, Kinds
  <2>4. \/ handler.at = "aborting" /\ handler' = Idle /\ UNCHANGED <<inbound, pumping>>
        \/ \E at \in {"aborting", "renewal failing"} :
             handler.at = "renewing" /\ Awaits(at, handler.for) /\ UNCHANGED <<inbound, pumping>>
        \/ handler.at \in {"aborting", "renewal failing"}
           /\ \E submitted \in BOOLEAN : Faults(inbound, submitted)
    BY DEF Renews
  <2> QED  BY <2>1, <2>2, <2>3, <2>4
<1>3. /\ project' = project /\ resume' = resume
      /\ caching' = caching /\ saved' = saved /\ kinds' = kinds
  BY DEF Renews, projectVars
<1>4. sink' \in [Files -> FileTypes] /\ sink'["download"] = sink["download"]
      /\ sink'["project"] = sink["project"]
  <2>1. sink' = sink \/ sink' = Close("cache")
    BY DEF Renews
  <2>2. NoFile \in FileTypes
    BY DEF NoFile, FileTypes
  <2> QED  BY <1>0, <2>1, <2>2 DEF Close, TypeInv, Files
<1>5. TypeInv'
  <2>1. ex' \in ExTypes
    BY <1>1 DEF Calm
  <2>2. timer' \in BOOLEAN
    BY <1>0 DEF Renews, TypeInv
  <2> QED  BY <1>0, <1>2, <1>3, <1>4, <2>1, <2>2 DEF TypeInv, Renews, diagnosisVars
<1>6. ~NoSettings
  BY DEF ExportInv, CacheInv, Renews
<1> QED  BY <1>1, <1>2, <1>3, <1>4, <1>5, <1>6, CalmKeeps

(* The message of a runtime that is added at the end of the queue. *)
LEMMA AppendMessages ==
  ASSUME TypeInv, NEW m \in Messages, inbound' = Append(inbound, m)
  PROVE  /\ inbound' \in Seq(Messages)
         /\ \A i \in DOMAIN inbound' : inbound'[i] = m \/ \E j \in DOMAIN inbound :
                                                              inbound'[i] = inbound[j]
<1>1. inbound \in Seq(Messages)
  BY DEF TypeInv
<1>2. inbound' \in Seq(Messages) /\ Len(inbound') = Len(inbound) + 1
  BY <1>1
<1>3. ASSUME NEW i \in DOMAIN inbound'
      PROVE  inbound'[i] = m \/ \E j \in DOMAIN inbound : inbound'[i] = inbound[j]
  <2>1. i = Len(inbound) + 1 \/ i \in DOMAIN inbound
    BY <1>1, <1>2
  <2>2. CASE i = Len(inbound) + 1
    BY <1>1, <2>2
  <2>3. CASE i \in DOMAIN inbound
    BY <1>1, <2>3
  <2> QED  BY <2>1, <2>2, <2>3
<1> QED  BY <1>2, <1>3

(* The runtime answers a request. *)
LEMMA AnswerSent ==
  ASSUME ExportInv, NEW e \in ex.asked, NEW type \in {"ready", "ineligible", "rejected", "preparing"},
         Answers(e, type)
  PROVE  ExportInv'
<1>0. TypeInv /\ ex \in ExTypes /\ e \in Exports
  BY DEF ExportInv, TypeInv, ExTypes
<1> PICK m : m = Message(type, e, 0)
  OBVIOUS
<1>1. m \in Messages /\ m.type # "chunk"
  BY <1>0 DEF Message, Messages
<1>2. /\ inbound' \in Seq(Messages)
      /\ \A i \in DOMAIN inbound' : inbound'[i] = m \/ \E j \in DOMAIN inbound :
                                                           inbound'[i] = inbound[j]
  BY <1>0, <1>1, AppendMessages DEF Answers
<1>3. ex' \in ExTypes /\ Keeps(ex, ex') /\ ex'.wants = ex.wants
  <2> PICK a : a = ex.asked \ {e}
    OBVIOUS
  <2>1. ex' = [ex EXCEPT !.asked = a]
    BY DEF Answers
  <2>2. IsFiniteSet(a) /\ a \in SUBSET Exports
    BY <1>0, FS_RemoveElement DEF ExTypes
  <2> QED  BY <1>0, <2>1, <2>2 DEF ExTypes, Keeps
<1>4. TypeInv'
  <2>1. prepared' \in {"nothing", "project", "cache", "built"}
    BY <1>0 DEF Answers, TypeInv
  <2> QED  BY <1>0, <1>2, <1>3, <2>1 DEF TypeInv, Answers, diagnosisVars, projectVars, hostVars,
                                        gameVars
<1>5. /\ handler' = handler /\ project' = project /\ resume' = resume
      /\ timer' = timer /\ caching' = caching /\ sink' = sink /\ saved' = saved /\ kinds' = kinds
  BY DEF Answers, projectVars, hostVars, gameVars
<1>6. Underway' \subseteq Underway
  BY <1>1, <1>2, <1>3 DEF Underway
<1>7. Aside
  BY <1>3, <1>5 DEF Aside, SlotStep
<1>8. NoSettings => CacheAside
  <2>1. SlotAside
    BY <1>3, <1>6 DEF SlotAside, Keeps
  <2>2. NoSettings => WaitAside /\ handler'.at \notin Renewing /\ Writing' = Writing
    BY <1>5, WaitKept, WritingKept DEF ExportInv, CacheInv
  <2> QED  BY <1>5, <2>1, <2>2 DEF CacheAside
<1> QED  BY <1>4, <1>5, <1>7, <1>8, AsideKeeps

(* The runtime has built the compiled cache, or could not. *)
LEMMA CacheBuilt ==
  ASSUME ExportInv, NEW type \in {"built", "unbuilt"}, Builds(type)
  PROVE  ExportInv'
<1>0. TypeInv
  BY DEF ExportInv
<1> PICK m : m = Message(type, None, 0)
  OBVIOUS
<1>1. m \in Messages /\ m.type # "chunk"
  BY DEF Message, Messages, None, Exports, Kinds
<1>2. /\ inbound' \in Seq(Messages)
      /\ \A i \in DOMAIN inbound' : inbound'[i] = m \/ \E j \in DOMAIN inbound :
                                                           inbound'[i] = inbound[j]
  BY <1>0, <1>1, AppendMessages DEF Builds
<1>3. /\ ex' = ex /\ handler' = handler /\ project' = project /\ resume' = resume
      /\ timer' = timer /\ caching' = caching /\ sink' = sink /\ saved' = saved /\ kinds' = kinds
  BY DEF Builds, projectVars, hostVars, gameVars
<1>4. TypeInv'
  BY <1>0, <1>2, <1>3 DEF TypeInv, Builds, diagnosisVars, projectVars, hostVars, gameVars
<1>5. Underway' \subseteq Underway
  BY <1>1, <1>2, <1>3 DEF Underway
<1>6. Aside
  BY <1>3 DEF Aside, SlotStep, Keeps
<1>7. NoSettings => CacheAside
  <2>1. SlotAside
    BY <1>3, <1>5 DEF SlotAside
  <2>2. NoSettings => WaitAside /\ handler'.at \notin Renewing /\ Writing' = Writing
    BY <1>3, WaitKept, WritingKept DEF ExportInv, CacheInv
  <2> QED  BY <1>3, <2>1, <2>2 DEF CacheAside
<1> QED  BY <1>3, <1>4, <1>6, <1>7, AsideKeeps

(* The runtime hands over a chunk. *)
LEMMA ChunkSent ==
  ASSUME ExportInv, NEW w \in ex.wants, HandsOver(w)
  PROVE  ExportInv'
<1>0. TypeInv /\ ex \in ExTypes /\ w \in Exports \X Nat
  BY DEF ExportInv, TypeInv, ExTypes
<1> PICK m : m = Message("chunk", w[1], w[2])
  OBVIOUS
<1>1. m \in Messages /\ <<m.for, m.chunk>> = w
  BY <1>0 DEF Message, Messages
<1>2. /\ inbound' \in Seq(Messages)
      /\ \A i \in DOMAIN inbound' : inbound'[i] = m \/ \E j \in DOMAIN inbound :
                                                           inbound'[i] = inbound[j]
  BY <1>0, <1>1, AppendMessages DEF HandsOver
<1>3. ex' \in ExTypes /\ Keeps(ex, ex') /\ ex'.wants \subseteq ex.wants
  <2> PICK a : a = ex.wants \ {w}
    OBVIOUS
  <2>1. ex' = [ex EXCEPT !.wants = a]
    BY DEF HandsOver
  <2>2. IsFiniteSet(a) /\ a \in SUBSET (Exports \X Nat)
    BY <1>0, FS_RemoveElement DEF ExTypes
  <2> QED  BY <1>0, <2>1, <2>2 DEF ExTypes, Keeps
<1>4. TypeInv'
  BY <1>0, <1>2, <1>3 DEF TypeInv, HandsOver, diagnosisVars, projectVars, hostVars, gameVars
<1>5. /\ handler' = handler /\ project' = project /\ resume' = resume
      /\ timer' = timer /\ caching' = caching /\ sink' = sink /\ saved' = saved /\ kinds' = kinds
  BY DEF HandsOver, projectVars, hostVars, gameVars
<1>6. Underway' \subseteq Underway
  BY <1>1, <1>2, <1>3 DEF Underway
<1>7. Aside
  BY <1>3, <1>5 DEF Aside, SlotStep
<1>8. NoSettings => CacheAside
  <2>1. SlotAside
    BY <1>3, <1>6 DEF SlotAside, Keeps
  <2>2. NoSettings => WaitAside /\ handler'.at \notin Renewing /\ Writing' = Writing
    BY <1>5, WaitKept, WritingKept DEF ExportInv, CacheInv
  <2> QED  BY <1>5, <2>1, <2>2 DEF CacheAside
<1> QED  BY <1>4, <1>5, <1>7, <1>8, AsideKeeps

(* The stage that is given up on is remembered by its export. *)
LEMMA FailingType ==
  ASSUME TypeInv, NEW x \in ExTypes, FailsDiagnosis(x)
  PROVE  /\ ex' = Free(x) /\ diagnosis' \in {"none", "active", "failing"}
         /\ failing' \in [for : Exports, known : BOOLEAN]
BY DEF FailsDiagnosis, ExTypes

(* A request of an export is not taken. *)
LEMMA SendFailed ==
  ASSUME ExportInv, NEW e \in ex.asked, SendFails(e)
  PROVE  ExportInv'
<1>0. TypeInv /\ FilesInv /\ ex \in ExTypes /\ e \in Exports /\ inbound \in Seq(Messages)
  BY DEF ExportInv, TypeInv, ExTypes
<1> PICK x : x = Withdraw(ex, {}, {e})
  OBVIOUS
<1> PICK unsent : unsent = [x EXCEPT !.phase = "none"]
  OBVIOUS
<1>1. Calm(x) /\ x \in ExTypes /\ x.wants \subseteq ex.wants /\ Keeps(ex, x)
  BY <1>0, CalmMoves, WithdrawMoves DEF Calm
<1>2. unsent \in ExTypes /\ unsent.wants \subseteq ex.wants
  BY <1>1 DEF ExTypes, Phases
<1>3. /\ prepared' = prepared /\ resume' = resume /\ timer' = timer /\ sink' = sink
      /\ saved' = saved /\ kinds' = kinds /\ starts' = starts
  BY DEF SendFails, gameVars
<1>4. ASSUME ex' = Free(unsent) \/ ex' = x,
             inbound' = inbound, pumping' = pumping, handler' = handler,
             diagnosis' \in {"none", "active", "failing"},
             failing' \in [for : Exports, known : BOOLEAN],
             caching' \subseteq WriteTypes, IsFiniteSet(caching'), Writing' = Writing,
             \/ project' = project
             \/ /\ ProjectType(project') /\ project'.calls = project.calls
                /\ (Opened' => Opened) /\ ex' = Free(unsent)
      PROVE  ExportInv'
  <2>1. Calm(ex')
    BY <1>0, <1>1, <1>2, <1>4, CalmMoves
  <2>2. ex' = Free(unsent) => Kind(ex'.slot) # "project"
    <3>1. Frees(Free(unsent))
      BY <1>2, FreeMoves
    <3> QED  BY <3>1 DEF Frees, None, Kind
  <2>3. TypeInv'
    <3>1. ex' \in ExTypes
      BY <2>1 DEF Calm
    <3>2. ProjectType(project')
      BY <1>0, <1>4 DEF TypeInv
    <3> QED  BY <1>0, <1>3, <1>4, <3>1, <3>2 DEF TypeInv
  <2>4. NoSettings => WaitAside /\ handler'.at \notin Renewing
    <3>1. WaitAside
      BY <1>3, <1>4, WaitKept, WaitCalls
    <3> QED  BY <1>4, <3>1 DEF ExportInv, CacheInv
  <2>5. project' = project \/ (Kind(ex'.slot) # "project" /\ (Opened' => Opened))
    BY <1>4, <2>2
  <2> QED  BY <1>3, <1>4, <2>1, <2>3, <2>4, <2>5, CalmKeeps
<1>5. caching \subseteq WriteTypes /\ IsFiniteSet(caching) /\ (caching' = caching => Writing' = Writing)
  BY <1>0, WritingKept DEF TypeInv
<1>6. CASE ex' = x /\ UNCHANGED <<inbound, pumping, handler, diagnosisVars, project, caching>>
  BY <1>0, <1>4, <1>5, <1>6 DEF TypeInv, diagnosisVars
<1>7. CASE FailsDiagnosis(unsent) /\ UNCHANGED <<inbound, pumping, handler, project, caching>>
  <2>1. /\ ex' = Free(unsent) /\ diagnosis' \in {"none", "active", "failing"}
        /\ failing' \in [for : Exports, known : BOOLEAN]
    BY <1>0, <1>2, <1>7, FailingType
  <2> QED  BY <1>4, <1>5, <1>7, <2>1
<1>8. CASE /\ HoldsSlot(e) /\ Kind(e) = "project" /\ FailsProject(unsent)
           /\ UNCHANGED <<inbound, pumping, handler, diagnosisVars, caching>>
  <2>1. ex' = Free(unsent) /\ project' = [project EXCEPT !.ends = @ + 1]
    BY <1>8 DEF FailsProject
  <2>2. ProjectType(project') /\ project'.calls = project.calls /\ (Opened' => Opened)
    BY <1>0, <1>8, <2>1, ProjectFailing DEF HoldsSlot
  <2> QED  BY <1>0, <1>4, <1>5, <1>8, <2>1, <2>2 DEF TypeInv, diagnosisVars
<1>9. CASE ex' = Free(unsent)
           /\ UNCHANGED <<inbound, pumping, handler, diagnosisVars, project, caching>>
  BY <1>0, <1>4, <1>5, <1>9 DEF TypeInv, diagnosisVars
<1>10. CASE /\ ex' = Free(unsent) /\ caching' = caching \cup {CacheWrite(e, "failed")}
            /\ UNCHANGED <<inbound, pumping, handler, diagnosisVars, project>>
  <2> PICK w : w = CacheWrite(e, "failed")
    OBVIOUS
  <2>1. w \in WriteTypes /\ w.at = "failed"
    BY <1>0 DEF CacheWrite, WriteTypes, TypeInv, ExTypes, FileTypes, Files
  <2>2. IsFiniteSet(caching \cup {w})
    BY <1>5, FS_AddElement
  <2>3. caching' \subseteq WriteTypes /\ IsFiniteSet(caching') /\ Writing' = Writing
    BY <1>5, <1>10, <2>1, <2>2 DEF Writing
  <2> QED  BY <1>0, <1>4, <1>10, <2>3 DEF TypeInv, diagnosisVars
<1>11. CASE /\ Kind(e) \in FullProject /\ handler = Idle
            /\ ex' = IF HoldsSlot(e) THEN [unsent EXCEPT !.phase = "left"] ELSE x
            /\ \E submitted \in BOOLEAN : Faults(inbound, submitted)
            /\ UNCHANGED <<diagnosisVars, project, caching>>
  <2>1. PICK submitted \in BOOLEAN : Faults(inbound, submitted)
    BY <1>11
  <2>2. /\ inbound' \in Seq(Messages) /\ pumping' \in BOOLEAN /\ handler' = Idle
        /\ \A i \in DOMAIN inbound' : \E j \in DOMAIN inbound : inbound'[i] = inbound[j]
    BY <1>0, <2>1, FaultMessages
  <2>3. /\ ex' \in ExTypes /\ ex'.wants \subseteq ex.wants /\ ex'.slot = ex.slot
        /\ ex'.got = ex.got
        /\ Keeps(ex, ex') \/ (Kind(ex.slot) \in FullProject /\ ex'.phase = "left")
    <3>1. CASE HoldsSlot(e)
      <4>1. ex' = [x EXCEPT !.phase = "left"]
        <5>1. ex' = [unsent EXCEPT !.phase = "left"]
          BY <1>11, <3>1
        <5> QED  BY <1>1, <5>1 DEF ExTypes
      <4>2. /\ ex' \in ExTypes /\ ex'.wants = x.wants /\ ex'.slot = x.slot /\ ex'.got = x.got
            /\ ex'.phase = "left"
        BY <1>1, <4>1 DEF ExTypes, Phases
      <4> QED  BY <1>1, <1>11, <3>1, <4>2 DEF Keeps, HoldsSlot
    <3>2. CASE ~HoldsSlot(e)
      BY <1>1, <1>11, <3>2 DEF Keeps
    <3> QED  BY <3>1, <3>2
  <2>4. TypeInv'
    BY <1>0, <1>3, <1>11, <2>2, <2>3, IdleType DEF TypeInv, diagnosisVars
  <2>5. Underway' \subseteq Underway
    BY <1>0, <2>2, <2>3, UnderwayShrinks
  <2>6. Aside
    <3>1. SlotStep
      BY <2>3 DEF SlotStep, Lost
    <3> QED  BY <1>3, <1>11, <2>2, <3>1 DEF Aside
  <2>7. SlotAside
    <3>1. Kind(ex.slot) \in FullProject => Kind(ex.slot) # "cache"
      BY DEF FullProject
    <3> QED  BY <2>3, <2>5, <3>1 DEF SlotAside, Keeps
  <2>8. NoSettings => CacheAside
    <3>1. WaitAside /\ Writing' = Writing
      BY <1>3, <1>5, <1>11, WaitKept
    <3>2. handler'.at \notin Renewing
      BY <2>2, IdleType
    <3> QED  BY <1>3, <2>7, <3>1, <3>2 DEF CacheAside
  <2> QED  BY <1>3, <2>4, <2>6, <2>8, AsideKeeps
<1> QED  BY <1>6, <1>7, <1>8, <1>9, <1>10, <1>11 DEF SendFails

(* A calm step brings no project and no cache into the slot. *)
LEMMA CalmKind ==
  ASSUME NEW y, Calm(y), NEW k \in {"project", "cache"}, Kind(ex.slot) # k
  PROVE  Kind(y.slot) # k
BY DEF Calm, Keeps, Frees, Takes, Others, None, Kind

(* What the handler awaits has its type. *)
LEMMA AwaitsType ==
  ASSUME TypeInv, NEW at \in Places, NEW e \in Exports, Awaits(at, e)
  PROVE  /\ handler' \in HandlerTypes /\ handler'.at = at /\ handler'.for = e
         /\ handler'.chunk = ex.got
         /\ Kind(e) \in Files => handler'.writer = sink[Kind(e)].writer
<1>1. Kind(e) \in Files => sink[Kind(e)].writer \in Nat
  BY DEF TypeInv, FileTypes
<1>2. ex.got \in Nat
  BY DEF TypeInv, ExTypes
<1> QED  BY <1>1, <1>2 DEF Awaits, HandlerTypes

(* A file is closed. *)
LEMMA CloseType ==
  ASSUME TypeInv, NEW f \in Files, sink' = Close(f)
  PROVE  /\ sink' \in [Files -> FileTypes] /\ sink'[f] = NoFile
         /\ \A g \in Files \ {f} : sink'[g] = sink[g]
<1>1. NoFile \in FileTypes
  BY DEF NoFile, FileTypes
<1> QED  BY <1>1 DEF Close, TypeInv

(* A diagnosis that failed clears the slot. *)
LEMMA DiagnosisEnded ==
  ASSUME ExportInv, DiagnosisFails
  PROVE  ExportInv'
<1>0. TypeInv /\ ex \in ExTypes
  BY DEF ExportInv, TypeInv
<1>1. Calm(ex') /\ Frees(ex')
  <2>1. \E K, E : ex' = Free(Withdraw(ex, K, E))
    BY DEF DiagnosisFails
  <2>2. PICK K, E : ex' = Free(Withdraw(ex, K, E))
    BY <2>1
  <2> PICK x : x = Withdraw(ex, K, E)
    OBVIOUS
  <2>3. x \in ExTypes /\ x.wants \subseteq ex.wants
    BY <1>0, WithdrawMoves
  <2>4. ex' = Free(x)
    BY <2>2
  <2> QED  BY <1>0, <2>3, <2>4, CalmMoves, FreeMoves
<1>2. /\ inbound' = inbound /\ project' = project /\ resume' = resume
      /\ timer' = timer /\ caching' = caching /\ saved' = saved /\ kinds' = kinds
  BY DEF DiagnosisFails, runtimeVars, projectVars, gameVars
<1>3. \/ handler' = handler
      \/ handler.at \notin Busy /\ handler' = Idle
  BY DEF DiagnosisFails, Busy
<1>4. sink' = sink \/ sink' = Close("project")
  BY DEF DiagnosisFails
<1>5. /\ sink' \in [Files -> FileTypes] /\ sink'["download"] = sink["download"]
      /\ sink'["cache"] = sink["cache"]
      /\ sink'["project"] = sink["project"] \/ sink'["project"] = NoFile
  BY <1>0, <1>4, CloseType DEF TypeInv, Files
<1>6. Kind(ex'.slot) # "project"
  BY <1>1 DEF Frees, None, Kind
<1>7. handler' \in HandlerTypes
  BY <1>0, <1>3, IdleType DEF TypeInv
<1>8. handler' = handler \/ (handler.at \notin Busy /\ handler'.at \notin Busy)
  BY <1>3, IdleType DEF Busy
<1>9. TypeInv'
  <2>1. ex' \in ExTypes
    BY <1>1 DEF Calm
  <2>2. pumping' \in BOOLEAN /\ failing' \in [for : Exports, known : BOOLEAN]
    BY <1>0 DEF DiagnosisFails, NoFailing, None, Exports, Kinds, TypeInv
  <2> QED  BY <1>0, <1>2, <1>5, <1>7, <2>1, <2>2 DEF TypeInv, DiagnosisFails, runtimeVars, gameVars
<1>10. NoSettings => WaitAside /\ handler'.at \notin Renewing /\ Writing' = Writing
  <2>1. NoSettings => handler.at \notin Renewing
    BY DEF ExportInv, CacheInv
  <2> QED  BY <1>2, <1>3, <2>1, WaitKept, WritingKept, IdleType
<1> QED  BY <1>1, <1>2, <1>5, <1>6, <1>8, <1>9, <1>10, CalmKeeps

(* A project file that failed, or was cancelled, is over. *)
LEMMA ProjectEnded ==
  ASSUME ExportInv, ProjectFails
  PROVE  ExportInv'
<1>0. TypeInv /\ ex \in ExTypes
  BY DEF ExportInv, TypeInv
<1>1. Calm(ex')
  <2> PICK freed : freed = ResumeReplay(Withdraw(ex, FullProject, {}))
    OBVIOUS
  <2>1. Calm(freed)
    BY <1>0, CalmMoves, CalmReplay
  <2>2. ex' = freed \/ ex' = StartReplay(freed)
    BY DEF ProjectFails
  <2> QED  BY <1>0, <2>1, <2>2, CalmReplay
<1>2. caching' = caching /\ saved' = saved /\ kinds' = kinds
  BY DEF ProjectFails, gameVars
<1>11. project.ends = 1 /\ project.calls = {}
  <2>1. project.ends \in {0, 1} /\ (project.calls # {} => project.ends = 0)
    BY <1>0 DEF TypeInv, ProjectType
  <2>2. project.ends > 0 \/ project.ends > 1
    BY DEF ProjectFails
  <2> QED  BY <2>1, <2>2
<1>12. /\ ProjectType(project') /\ project'.calls = {}
  <2>0. project' = [project EXCEPT !.exporting = FALSE, !.ends = @ - 1]
    BY DEF ProjectFails
  <2>1. /\ project' \in [calls : SUBSET Calls, exporting : BOOLEAN, ends : {0, 1}]
        /\ project'.calls = {} /\ project'.exporting = FALSE /\ project'.ends = 0
    <3>1. project \in [calls : SUBSET Calls, exporting : BOOLEAN, ends : {0, 1}]
      BY <1>0 DEF TypeInv, ProjectType
    <3>2. project' = [project EXCEPT !.exporting = FALSE, !.ends = 0]
      BY <1>11, <2>0
    <3> QED  BY <1>11, <3>1, <3>2
  <2> QED  BY <2>1 DEF ProjectType
<1>3. Kind(ex.slot) # "project"
  BY <1>11 DEF ExportInv, FilesInv, SlotInv, Running
<1>4. Kind(ex'.slot) # "project"
  BY <1>1, <1>3, CalmKind
<1>5. /\ sink' \in [Files -> FileTypes] /\ sink'["download"] = sink["download"]
      /\ sink'["cache"] = sink["cache"] /\ sink'["project"] = NoFile
  BY <1>0, CloseType DEF ProjectFails, Files
<1>6. /\ inbound' \in Seq(Messages) /\ pumping' \in BOOLEAN
      /\ \A i \in DOMAIN inbound' : \E j \in DOMAIN inbound : inbound'[i] = inbound[j]
      /\ \/ handler' = handler
         \/ handler.at \notin Busy /\ handler' = Idle
  <2>0. inbound \in Seq(Messages)
    BY <1>0 DEF TypeInv
  <2>1. ASSUME AwaitsEnd, Faults(inbound, TRUE)
        PROVE  /\ inbound' \in Seq(Messages) /\ pumping' \in BOOLEAN
               /\ \A i \in DOMAIN inbound' : \E j \in DOMAIN inbound : inbound'[i] = inbound[j]
               /\ handler.at \notin Busy /\ handler' = Idle
    <3>1. /\ inbound' \in Seq(Messages) /\ pumping' \in BOOLEAN /\ handler' = Idle
          /\ \A i \in DOMAIN inbound' : \E j \in DOMAIN inbound : inbound'[i] = inbound[j]
      BY <1>0, <2>0, <2>1, FaultMessages
    <3> QED  BY <2>1, <3>1 DEF Busy, AwaitsEnd
  <2>2. CASE /\ pumping' = TRUE /\ inbound' = inbound
             /\ handler' = handler \/ (AwaitsEnd /\ handler' = Idle)
    BY <2>0, <2>2 DEF AwaitsEnd, Busy
  <2>3. \/ AwaitsEnd /\ Faults(inbound, TRUE)
        \/ /\ pumping' = TRUE /\ inbound' = inbound
           /\ handler' = handler \/ (AwaitsEnd /\ handler' = Idle)
    BY DEF ProjectFails, Wakes
  <2> QED  BY <2>1, <2>2, <2>3
<1>7. handler' \in HandlerTypes
  BY <1>0, <1>6, IdleType DEF TypeInv
<1>8. handler' = handler \/ (handler.at \notin Busy /\ handler'.at \notin Busy)
  BY <1>6, IdleType DEF Busy
<1>9. TypeInv'
  <2>1. ex' \in ExTypes
    BY <1>1 DEF Calm
  <2>2. timer' \in BOOLEAN /\ resume' \in BOOLEAN
    BY <1>0 DEF ProjectFails, TypeInv
  <2> QED  BY <1>0, <1>2, <1>5, <1>6, <1>7, <1>12, <2>1, <2>2 DEF TypeInv, ProjectFails,
                                                                 diagnosisVars, gameVars
<1>10. NoSettings => WaitAside /\ handler'.at \notin Renewing /\ Writing' = Writing
  <2>1. NoSettings => handler.at \notin Renewing
    BY DEF ExportInv, CacheInv
  <2>2. WaitAside
    BY <1>11, <1>12 DEF ProjectFails, WaitAside
  <2> QED  BY <1>2, <1>6, <2>1, <2>2, WritingKept, IdleType
<1>13. ~Opened'
  BY <1>12 DEF Opened
<1> QED  BY <1>1, <1>2, <1>4, <1>5, <1>6, <1>8, <1>9, <1>10, <1>13, CalmKeeps

(* A compiled cache that failed is over, in the handler. *)
LEMMA CacheFailed ==
  ASSUME ExportInv, CacheFails
  PROVE  ExportInv'
<1>0. TypeInv /\ ex \in ExTypes
  BY DEF ExportInv, TypeInv
<1>1. Calm(ex')
  <2> PICK freed : freed = ResumeReplay(ex)
    OBVIOUS
  <2>1. Calm(freed)
    BY <1>0, CalmMoves, CalmReplay
  <2>2. ex' = freed \/ ex' = StartReplay(freed)
    BY DEF CacheFails
  <2> QED  BY <1>0, <2>1, <2>2, CalmReplay
<1>2. /\ inbound' = inbound /\ project' = project /\ resume' = resume
      /\ timer' = timer /\ caching' = caching /\ saved' = saved /\ kinds' = kinds
      /\ handler.at \notin Busy /\ handler' = Idle
  BY DEF CacheFails, runtimeVars, projectVars, gameVars, Busy
<1>3. /\ sink' \in [Files -> FileTypes] /\ sink'["download"] = sink["download"]
      /\ sink'["project"] = sink["project"] /\ sink'["cache"] = NoFile
  BY <1>0, CloseType DEF CacheFails, Files
<1>4. TypeInv'
  <2>1. ex' \in ExTypes
    BY <1>1 DEF Calm
  <2> QED  BY <1>0, <1>2, <1>3, <2>1, IdleType DEF TypeInv, CacheFails, runtimeVars, diagnosisVars,
                                                  gameVars
<1>5. NoSettings => WaitAside /\ handler'.at \notin Renewing /\ Writing' = Writing
  BY <1>2, WaitKept, WritingKept, IdleType
<1>6. handler'.at \notin Busy
  BY <1>2, IdleType DEF Busy
<1> QED  BY <1>1, <1>2, <1>3, <1>4, <1>5, <1>6, CalmKeeps

(* The same behind the handler. *)
LEMMA CacheWriteDropped ==
  ASSUME ExportInv, NEW w \in caching, CacheDropped(w)
  PROVE  ExportInv'
<1>0. TypeInv /\ ex \in ExTypes
  BY DEF ExportInv, TypeInv
<1>1. Calm(ex')
  BY <1>0, CalmMoves, CalmReplay DEF CacheDropped
<1>2. /\ inbound' = inbound /\ project' = project /\ resume' = resume
      /\ timer' = timer /\ saved' = saved /\ kinds' = kinds /\ handler' = handler
  BY DEF CacheDropped, runtimeVars, projectVars, gameVars
<1>3. /\ sink' \in [Files -> FileTypes] /\ sink'["download"] = sink["download"]
      /\ sink'["project"] = sink["project"] /\ sink'["cache"] = NoFile
  BY <1>0, CloseType DEF CacheDropped, Files
<1>4. caching' \subseteq WriteTypes /\ IsFiniteSet(caching') /\ Writing' = Writing
  <2>1. caching' = caching \ {w} /\ w.at = "failed"
    BY DEF CacheDropped
  <2>2. IsFiniteSet(caching \ {w})
    BY <1>0, FS_RemoveElement DEF TypeInv
  <2> QED  BY <1>0, <2>1, <2>2 DEF TypeInv, Writing
<1>5. TypeInv'
  <2>1. ex' \in ExTypes
    BY <1>1 DEF Calm
  <2>2. pumping' \in BOOLEAN
    BY <1>0 DEF CacheDropped, Resumes, TypeInv
  <2> QED  BY <1>0, <1>2, <1>3, <1>4, <2>1, <2>2 DEF TypeInv, CacheDropped, runtimeVars,
                                                    diagnosisVars, gameVars
<1>6. NoSettings => WaitAside /\ handler'.at \notin Renewing
  BY <1>2, WaitKept DEF ExportInv, CacheInv
<1> QED  BY <1>1, <1>2, <1>3, <1>4, <1>5, <1>6, CalmKeeps

(* A project file is asked for again. *)
LEMMA ExportRetried ==
  ASSUME ExportInv, Retries
  PROVE  ExportInv'
<1>0. TypeInv /\ ex \in ExTypes
  BY DEF ExportInv, TypeInv
<1>1. /\ inbound' = inbound /\ handler' = handler /\ project' = project
      /\ resume' = resume /\ timer' = timer /\ caching' = caching /\ sink' = sink
      /\ saved' = saved /\ kinds' = kinds
  BY DEF Retries, runtimeVars, projectVars, hostVars, gameVars
<1>2. /\ ex' \in ExTypes /\ ex'.wants = ex.wants /\ ex'.slot = ex.slot /\ ex'.got = ex.got
      /\ ex.phase = "retry" /\ ex'.phase = "asked"
  BY <1>0, AskMoves DEF Retries
<1>3. TypeInv'
  BY <1>0, <1>2 DEF TypeInv, Retries, Wakes, runtimeVars, diagnosisVars, projectVars, hostVars,
                    gameVars
<1>4. Underway' \subseteq Underway
  BY <1>1, <1>2 DEF Underway
<1>5. Aside
  BY <1>1, <1>2 DEF Aside, SlotStep, AsksAgain
<1>6. SlotAside
  BY <1>2, <1>4 DEF SlotAside
<1>7. NoSettings => WaitAside /\ handler'.at \notin Renewing /\ Writing' = Writing
  BY <1>1, WaitKept, WritingKept DEF ExportInv, CacheInv
<1>8. NoSettings => CacheAside
  BY <1>1, <1>6, <1>7 DEF CacheAside
<1> QED  BY <1>1, <1>3, <1>5, <1>8, AsideKeeps

(* The manifest of a full project is staged, or that fails. *)
LEMMA ExportStaged ==
  ASSUME ExportInv, Stages
  PROVE  ExportInv'
<1>0. TypeInv /\ FilesInv /\ ex \in ExTypes
  BY DEF ExportInv, TypeInv
<1>1. /\ inbound' = inbound /\ handler' = handler /\ resume' = resume
      /\ timer' = timer /\ caching' = caching /\ sink' = sink /\ saved' = saved /\ kinds' = kinds
      /\ prepared' = prepared /\ starts' = starts
  BY DEF Stages, runtimeVars, hostVars, gameVars
<1>2. NoSettings => handler'.at \notin Renewing /\ Writing' = Writing
  BY <1>1, WritingKept DEF ExportInv, CacheInv
<1>3. CASE ex' = Ask(ex) /\ Wakes /\ UNCHANGED <<diagnosisVars, project>>
  <2>1. /\ ex' \in ExTypes /\ ex'.wants = ex.wants /\ ex'.slot = ex.slot /\ ex'.got = ex.got
        /\ ex.phase = "staging" /\ ex'.phase = "asked"
    BY <1>0, <1>3, AskMoves DEF Stages
  <2>2. TypeInv'
    BY <1>0, <1>1, <1>3, <2>1 DEF TypeInv, Wakes, diagnosisVars
  <2>3. Underway' \subseteq Underway
    BY <1>1, <2>1 DEF Underway
  <2>4. Aside
    BY <1>1, <1>3, <2>1 DEF Aside, SlotStep, AsksAgain
  <2>5. SlotAside
    BY <2>1, <2>3 DEF SlotAside
  <2>6. NoSettings => CacheAside
    BY <1>1, <1>2, <1>3, <2>5, WaitKept DEF CacheAside
  <2> QED  BY <1>1, <2>2, <2>4, <2>6, AsideKeeps
<1>4. CASE Kind(ex.slot) = "project" /\ FailsProject(ex) /\ UNCHANGED <<pumping, diagnosisVars>>
  <2>1. Calm(ex') /\ Frees(ex')
    BY <1>0, <1>4, CalmMoves, FreeMoves DEF FailsProject
  <2>2. ProjectType(project') /\ project'.calls = project.calls /\ (Opened' => Opened)
    BY <1>0, <1>4, ProjectFailing DEF FailsProject
  <2>3. Kind(ex'.slot) # "project"
    BY <2>1 DEF Frees, None, Kind
  <2>4. TypeInv'
    <3>1. ex' \in ExTypes
      BY <2>1 DEF Calm
    <3> QED  BY <1>0, <1>1, <1>4, <2>2, <3>1 DEF TypeInv, diagnosisVars
  <2>5. NoSettings => WaitAside
    BY <1>1, <2>2, WaitCalls
  <2> QED  BY <1>1, <1>2, <2>1, <2>2, <2>3, <2>4, <2>5, CalmKeeps
<1>5. CASE FailsDiagnosis(ex) /\ UNCHANGED <<pumping, project>>
  <2>1. Calm(ex')
    BY <1>0, <1>5, CalmMoves DEF FailsDiagnosis
  <2>2. TypeInv'
    <3>1. ex' \in ExTypes
      BY <2>1 DEF Calm
    <3>2. diagnosis' \in {"none", "active", "failing"} /\ failing' \in [for : Exports, known : BOOLEAN]
      BY <1>0, <1>5, FailingType
    <3> QED  BY <1>0, <1>1, <1>5, <3>1, <3>2 DEF TypeInv
  <2>3. NoSettings => WaitAside
    BY <1>1, <1>5, WaitKept
  <2> QED  BY <1>1, <1>2, <1>5, <2>1, <2>2, <2>3, CalmKeeps
<1>6. Kind(ex.slot) = "project" => project.exporting
  BY <1>0 DEF FilesInv, SlotInv, Running
<1> QED  BY <1>3, <1>4, <1>5, <1>6 DEF Stages

(* The host saves the archive of a diagnosis. *)
LEMMA ArchiveSaved ==
  ASSUME ExportInv, Saves
  PROVE  ExportInv'
<1>0. TypeInv /\ ex \in ExTypes /\ handler.for \in Exports
  BY DEF ExportInv, TypeInv, HandlerTypes
<1>1. Calm(ex')
  BY <1>0, CalmMoves DEF Saves, FailsDiagnosis
<1>2. /\ inbound' = inbound /\ project' = project /\ resume' = resume
      /\ timer' = timer /\ caching' = caching /\ sink' = sink /\ saved' = saved /\ kinds' = kinds
      /\ handler.at = "saving"
  BY DEF Saves, runtimeVars, projectVars, hostVars, gameVars
<1>3. /\ handler' \in HandlerTypes /\ handler'.at \in {"idle", "failing"}
      /\ diagnosis' \in {"none", "active", "failing"} /\ failing' \in [for : Exports, known : BOOLEAN]
  <2>1. CASE diagnosis' = "none" /\ handler' = Idle /\ UNCHANGED failing
    BY <1>0, <2>1, IdleType DEF TypeInv
  <2>2. CASE FailsDiagnosis(ex) /\ Awaits("failing", handler.for)
    <3>1. "failing" \in Places
      BY DEF Places
    <3> QED  BY <1>0, <2>2, <3>1, FailingType, AwaitsType
  <2> QED  BY <2>1, <2>2 DEF Saves
<1>4. TypeInv'
  <2>1. ex' \in ExTypes
    BY <1>1 DEF Calm
  <2> QED  BY <1>0, <1>3, <2>1 DEF TypeInv, Saves, runtimeVars, projectVars, hostVars, gameVars
<1>5. NoSettings => WaitAside /\ handler'.at \notin Renewing /\ Writing' = Writing
  BY <1>2, <1>3, WaitKept, WritingKept
<1>6. handler.at \notin Busy /\ handler'.at \notin Busy
  BY <1>2, <1>3 DEF Busy
<1> QED  BY <1>1, <1>2, <1>4, <1>5, <1>6, CalmKeeps

(* The cancelled cache is withdrawn from the runtime. *)
LEMMA CacheWithdrawn ==
  ASSUME ExportInv, NEW c \in project.calls, WithdrawsCache(c)
  PROVE  ExportInv'
<1>0. TypeInv /\ FilesInv /\ SlotInv /\ ex \in ExTypes
  BY DEF ExportInv, FilesInv, TypeInv
<1>1. Calm(ex')
  BY <1>0, CalmMoves DEF WithdrawsCache
<1>2. /\ inbound' = inbound /\ handler' = handler /\ resume' = resume
      /\ timer' = timer /\ caching' = caching /\ sink' = sink /\ saved' = saved /\ kinds' = kinds
      /\ c.at = "cancelling" /\ Written(c.victim)
  BY DEF WithdrawsCache, runtimeVars, hostVars, gameVars
<1>3. PICK at \in {"aborting", "failing"} : Goes(c, at, c.victim)
  BY DEF WithdrawsCache
<1>4. /\ ProjectType(project') /\ project.calls = {c}
      /\ project'.calls = {[c EXCEPT !.at = at, !.victim = c.victim]}
  <2>1. c \in Calls /\ c.victim \in Exports /\ at \in Going
    BY <1>0, OnlyCall DEF Calls, Going
  <2> QED  BY <1>0, <1>3, <2>1, OnlyCall
<1>5. TypeInv'
  <2>1. ex' \in ExTypes
    BY <1>1 DEF Calm
  <2>2. pumping' \in BOOLEAN
    BY <1>0 DEF WithdrawsCache, Wakes, TypeInv
  <2> QED  BY <1>0, <1>4, <2>1, <2>2 DEF TypeInv, WithdrawsCache, runtimeVars, diagnosisVars,
                                         hostVars, gameVars
<1>6. Opened
  BY <1>2 DEF Opened
<1>7. Kind(ex'.slot) # "project"
  BY <1>0, <1>1, <1>6, OpenedApart, CalmKind
<1>8. WaitAside
  <2>1. \A d \in project'.calls : d.at # "cancelling"
    <3>1. [c EXCEPT !.at = at, !.victim = c.victim].at = at
      BY <1>0, OnlyCall DEF Calls
    <3> QED  BY <1>4, <3>1
  <2>2. \A w \in Writing : ~Waiting(w.for)
    BY <1>2, <1>4 DEF Written, Writing, Waiting
  <2> QED  BY <1>2, <2>1, <2>2 DEF WaitAside
<1>9. NoSettings => handler'.at \notin Renewing /\ Writing' = Writing
  BY <1>2, WritingKept DEF ExportInv, CacheInv
<1> QED  BY <1>1, <1>2, <1>5, <1>6, <1>7, <1>8, <1>9, CalmKeeps

-----------------------------------------------------------------------------
(* The messages that end a transfer or do not concern one. *)

\* What the handling of such a message comes to.
Answered ==
  /\ Calm(ex') /\ inbound' \in Seq(Messages) /\ pumping' \in BOOLEAN
  /\ \A i \in DOMAIN inbound' : \E j \in DOMAIN inbound : inbound'[i] = inbound[j]
  /\ handler' \in HandlerTypes /\ handler'.at \notin Busy \cup Renewing
  /\ diagnosis' \in {"none", "active", "failing"} /\ failing' \in [for : Exports, known : BOOLEAN]
  /\ \/ project' = project
     \/ /\ ProjectType(project') /\ project'.calls = project.calls /\ (Opened' => Opened)
        /\ Kind(ex'.slot) # "project"

(* Such a message keeps the invariant. *)
LEMMA AnsweredKeeps ==
  ASSUME ExportInv, handler = Idle, Answered,
         prepared' = prepared, resume' = resume, timer' = timer,
         caching' = caching, sink' = sink, saved' = saved, starts' = starts, kinds' = kinds
  PROVE  ExportInv'
<1>0. TypeInv
  BY DEF ExportInv
<1>1. TypeInv'
  <2>1. ex' \in ExTypes
    BY DEF Answered, Calm
  <2>2. ProjectType(project')
    BY <1>0 DEF Answered, TypeInv
  <2> QED  BY <1>0, <2>1, <2>2 DEF TypeInv, Answered
<1>2. handler.at \notin Busy /\ handler'.at \notin Busy /\ handler'.at \notin Renewing
  BY DEF Answered, Idle, Busy
<1>3. NoSettings => WaitAside /\ Writing' = Writing
  BY WaitKept, WaitCalls, WritingKept DEF Answered
<1>4. /\ Calm(ex')
      /\ \A i \in DOMAIN inbound' : \E j \in DOMAIN inbound : inbound'[i] = inbound[j]
      /\ \/ project' = project
         \/ Kind(ex'.slot) # "project" /\ (Opened' => Opened)
  BY DEF Answered
<1> QED  BY <1>1, <1>2, <1>3, <1>4, CalmKeeps

(* An answer that does not belong to the export in the slot. *)
LEMMA MismatchAnswered ==
  ASSUME ExportInv, handler = Idle, inbound # <<>>, Mismatch
  PROVE  Answered
<1>0. TypeInv /\ ex \in ExTypes /\ ex.slot \in Exports
  BY DEF ExportInv, TypeInv, ExTypes
<1>1. /\ Rest \in Seq(Messages)
      /\ \A i \in DOMAIN Rest : \E j \in DOMAIN inbound : Rest[i] = inbound[j]
  BY <1>0, RestMessages
<1>2. CASE /\ FailsDiagnosis(ex) /\ Awaits("failing", ex.slot)
           /\ inbound' = Rest /\ UNCHANGED <<project, pumping>>
  <2>1. Calm(ex')
    BY <1>0, <1>2, CalmMoves DEF FailsDiagnosis
  <2>2. handler' \in HandlerTypes /\ handler'.at = "failing"
    BY <1>0, <1>2, AwaitsType DEF Places
  <2>3. diagnosis' \in {"none", "active", "failing"} /\ failing' \in [for : Exports, known : BOOLEAN]
    BY <1>0, <1>2, FailingType
  <2>4. /\ inbound' \in Seq(Messages)
        /\ \A i \in DOMAIN inbound' : \E j \in DOMAIN inbound : inbound'[i] = inbound[j]
    BY <1>1, <1>2
  <2> QED  BY <1>0, <1>2, <2>1, <2>2, <2>3, <2>4 DEF Answered, Busy, TypeInv
<1>3. CASE /\ \E submitted \in BOOLEAN : Faults(Rest, submitted)
           /\ UNCHANGED <<ex, diagnosisVars, project>>
  <2>1. Calm(ex')
    BY <1>0, <1>3, CalmMoves
  <2>2. PICK submitted \in BOOLEAN : Faults(Rest, submitted)
    BY <1>3
  <2> PICK rest : rest = Rest
    OBVIOUS
  <2>3. /\ inbound' \in Seq(Messages) /\ pumping' \in BOOLEAN /\ handler' = Idle
        /\ \A i \in DOMAIN inbound' : \E j \in DOMAIN inbound : inbound'[i] = inbound[j]
    BY <1>0, <1>1, <2>2, FaultMessages
  <2> QED  BY <1>0, <1>3, <2>1, <2>3, IdleType DEF Answered, Busy, TypeInv, diagnosisVars
<1> QED  BY <1>2, <1>3 DEF Mismatch

(* A slot that is emptied holds no export. *)
LEMMA FreesKind ==
  ASSUME NEW y, Frees(y)
  PROVE  Kind(y.slot) = "none"
BY DEF Frees, None, Kind

(* The export in the slot cannot be made. *)
LEMMA RefusedAnswered ==
  ASSUME ExportInv, handler = Idle, inbound # <<>>, inbound' = Rest, pumping' = pumping,
         NEW type \in {"ineligible", "rejected"}, Refused(ex.slot, type)
  PROVE  Answered
<1>0. TypeInv /\ ex \in ExTypes /\ ex.slot \in Exports
  BY DEF ExportInv, TypeInv, ExTypes
<1>1. /\ inbound' \in Seq(Messages)
      /\ \A i \in DOMAIN inbound' : \E j \in DOMAIN inbound : inbound'[i] = inbound[j]
  BY <1>0, RestMessages
<1>2. CASE /\ FailsDiagnosis(IF type = "rejected" THEN ex ELSE [ex EXCEPT !.phase = "none"])
           /\ Awaits("failing", ex.slot)
           /\ UNCHANGED project
  <2> PICK x : x = IF type = "rejected" THEN ex ELSE [ex EXCEPT !.phase = "none"]
    OBVIOUS
  <2>1. x \in ExTypes /\ x.wants \subseteq ex.wants
    BY <1>0 DEF ExTypes, Phases
  <2>2. Calm(ex')
    BY <1>0, <1>2, <2>1, CalmMoves DEF FailsDiagnosis
  <2>3. handler' \in HandlerTypes /\ handler'.at = "failing"
    BY <1>0, <1>2, AwaitsType DEF Places
  <2>4. diagnosis' \in {"none", "active", "failing"} /\ failing' \in [for : Exports, known : BOOLEAN]
    BY <1>0, <1>2, <2>1, FailingType
  <2> QED  BY <1>0, <1>1, <1>2, <2>2, <2>3, <2>4 DEF Answered, Busy, TypeInv
<1>3. CASE /\ Kind(ex.slot) = "project" /\ FailsProject(ex)
           /\ Awaits(IF type = "rejected" THEN "project rejected" ELSE "project failed", ex.slot)
           /\ UNCHANGED diagnosisVars
  <2>1. Calm(ex') /\ Frees(ex')
    BY <1>0, <1>3, CalmMoves, FreeMoves DEF FailsProject
  <2> PICK at \in {"project rejected", "project failed"} : Awaits(at, ex.slot)
    BY <1>3
  <2>2. handler' \in HandlerTypes /\ handler'.at = at
    BY <1>0, AwaitsType DEF Places
  <2>3. ProjectType(project') /\ project'.calls = project.calls /\ (Opened' => Opened)
    BY <1>0, <1>3, ProjectFailing DEF FailsProject, ExportInv
  <2>4. Kind(ex'.slot) # "project"
    BY <2>1, FreesKind
  <2>5. diagnosis' = diagnosis /\ failing' = failing
    BY <1>3 DEF diagnosisVars
  <2>6. handler'.at \notin Busy \cup Renewing
    BY <2>2 DEF Busy
  <2> QED  BY <1>0, <1>1, <2>1, <2>2, <2>3, <2>4, <2>5, <2>6 DEF Answered, TypeInv
<1>4. CASE /\ ex' = Free(ex)
           /\ Awaits(IF type = "rejected" THEN "cache rejected" ELSE "cache failed", ex.slot)
           /\ UNCHANGED <<diagnosisVars, project>>
  <2>1. Calm(ex')
    BY <1>0, <1>4, CalmMoves
  <2> PICK at \in {"cache rejected", "cache failed"} : Awaits(at, ex.slot)
    BY <1>4
  <2>2. handler' \in HandlerTypes /\ handler'.at = at
    BY <1>0, AwaitsType DEF Places
  <2> QED  BY <1>0, <1>1, <1>4, <2>1, <2>2 DEF Answered, Busy, TypeInv, diagnosisVars
<1>5. CASE /\ ex' = IF type = "rejected" THEN StartReplay(Free(ex)) ELSE Free(ex)
           /\ UNCHANGED <<handler, diagnosisVars, project>>
  <2> PICK x : x = Free(ex)
    OBVIOUS
  <2>1. Calm(x)
    BY <1>0, CalmMoves
  <2>2. Calm(ex')
    BY <1>0, <1>5, <2>1, CalmReplay
  <2> QED  BY <1>0, <1>1, <1>5, <2>2, IdleType DEF Answered, Busy, TypeInv, diagnosisVars
<1> QED  BY <1>2, <1>3, <1>4, <1>5 DEF Refused

-----------------------------------------------------------------------------
(* The messages that take a transfer on. *)

\* What they leave alone.
OnlyTransfer ==
  /\ project' = project /\ resume' = resume /\ timer' = timer
  /\ saved' = saved /\ kinds' = kinds /\ sink' = sink

(* A step of a transfer that is none of a file. *)
LEMMA HandledKeeps ==
  ASSUME ExportInv, TypeInv', handler.at = "idle", SlotStep, SlotAside, OnlyTransfer,
         handler'.at \notin Busy \cup Renewing, caching' = caching
  PROVE  ExportInv'
<1>1. Aside
  BY DEF Aside, OnlyTransfer, Busy
<1>2. NoSettings => WaitAside /\ Writing' = Writing
  BY WaitKept, WritingKept DEF OnlyTransfer
<1>3. NoSettings => CacheAside
  BY <1>2 DEF CacheAside, OnlyTransfer
<1> QED  BY <1>1, <1>3, AsideKeeps DEF OnlyTransfer

(* The transfer of a download is announced: the player picks a file. *)
LEMMA DownloadAnnounced ==
  ASSUME ExportInv, TypeInv', handler.at = "idle", OnlyTransfer, caching' = caching,
         Kind(ex.slot) = "download", ex.phase = "asked",
         ex' = [ex EXCEPT !.phase = "transfer"],
         handler'.at = "picker", handler'.for = ex.slot
  PROVE  ExportInv'
<1>0. TypeInv /\ ex \in ExTypes
  BY DEF ExportInv, TypeInv
<1>1. ex'.slot = ex.slot /\ ex'.phase = "transfer" /\ ex'.got = ex.got /\ ex.got = 0
  BY <1>0 DEF ExTypes, ExportInv, FilesInv, SlotInv
<1>2. SlotInv'
  BY <1>1 DEF SlotInv
<1>3. WriteInv'
  BY DEF WriteInv
<1>4. FileInv'
  BY <1>1 DEF FileInv, Busy, OnlyTransfer, ExportInv, FilesInv, Opened
<1>5. SlotAside
  BY <1>1 DEF SlotAside
<1>6. NoSettings => CacheAside
  BY <1>5, WaitKept, WritingKept DEF CacheAside, OnlyTransfer
<1>7. CacheInv'
  BY <1>0, <1>6, AsideCache DEF ExportInv, OnlyTransfer
<1>8. SavedInv'
  BY DEF ExportInv, SavedInv, OnlyTransfer, NoSettings
<1>9. PublishInv'
  BY DEF PublishInv
<1> QED  BY <1>2, <1>3, <1>4, <1>7, <1>8, <1>9 DEF ExportInv, FilesInv

(* The transfer of a compiled cache is announced: its first chunk is asked for. *)
LEMMA CacheAnnounced ==
  ASSUME ExportInv, TypeInv', handler.at = "idle", OnlyTransfer, caching' = caching,
         handler' = handler, Kind(ex.slot) = "cache", ex.phase = "asked",
         ex'.slot = ex.slot, ex'.phase = "transfer", ex'.got = ex.got,
         Underway' \subseteq Underway \cup {<<ex.slot, ex.got>>}
  PROVE  ExportInv'
<1>0. TypeInv /\ ex \in ExTypes
  BY DEF ExportInv, TypeInv
<1>1. ex.got = 0
  BY DEF ExportInv, FilesInv, SlotInv
<1>2. Aside
  BY DEF Aside, SlotStep, Starts, OnlyTransfer
<1>3. FilesInv'
  BY <1>0, <1>2, AsideFiles DEF ExportInv
<1>4. ASSUME NoSettings PROVE CacheInv'
  <2>1. \A n \in Nat : <<ex.slot, n>> \notin Underway
    BY <1>4 DEF ExportInv, CacheInv
  <2>2. \A n \in Nat : <<ex'.slot, n>> \in Underway' => n = 0
    BY <1>1, <2>1
  <2>3. Writing = {}
    <3>1. ASSUME NEW w \in Writing PROVE FALSE
      <4>1. ex.got = w.chunk + 1
        BY <1>4, <3>1 DEF ExportInv, CacheInv
      <4>2. w.chunk \in Nat
        BY <1>0, <3>1 DEF Writing, TypeInv, WriteTypes
      <4> QED  BY <1>1, <4>1, <4>2
    <3> QED  BY <3>1
  <2>4. Writing' = {}
    BY <2>3, WritingKept
  <2>5. ~timer /\ ~resume
    BY <1>4 DEF ExportInv, CacheInv
  <2>6. /\ handler'.at \notin Renewing
        /\ \A d \in project'.calls : d.at = "cancelling" => Kind(d.victim) = "cache"
    BY <1>4 DEF ExportInv, CacheInv, OnlyTransfer
  <2>7. ~timer' /\ ~resume'
    BY <2>5 DEF OnlyTransfer
  <2>8. \A n \in Nat : <<ex'.slot, n>> \in Underway' => ex'.phase = "transfer" /\ n <= ex'.got
    BY <1>1, <2>2
  <2> QED  BY <1>1, <2>4, <2>6, <2>7, <2>8 DEF CacheInv
<1>5. CacheInv'
  BY <1>4 DEF CacheInv, NoSettings, OnlyTransfer
<1>6. SavedInv'
  BY DEF ExportInv, SavedInv, OnlyTransfer, NoSettings
<1> QED  BY <1>3, <1>5, <1>6 DEF ExportInv

(* A chunk of the compiled cache is received, and written behind the handler. *)
LEMMA CacheReceived ==
  ASSUME ExportInv, TypeInv', handler.at = "idle", OnlyTransfer, handler' = handler,
         Kind(ex.slot) = "cache", ex.phase = "transfer", <<ex.slot, ex.got>> \in Underway,
         ex'.slot = ex.slot, ex'.phase = "transfer", ex'.got = ex.got + 1,
         Underway' \subseteq Underway,
         caching' = caching \cup {CacheWrite(ex.slot, "write")}
  PROVE  ExportInv'
<1>0. TypeInv /\ ex \in ExTypes /\ ex.got \in Nat
  BY DEF ExportInv, TypeInv, ExTypes
<1>2. Aside
  BY DEF Aside, SlotStep, Receives, OnlyTransfer
<1>3. FilesInv'
  BY <1>0, <1>2, AsideFiles DEF ExportInv
<1>4. ASSUME NoSettings PROVE CacheInv'
  <2> PICK c : c = CacheWrite(ex.slot, "write")
    OBVIOUS
  <2>1. /\ c.for = ex.slot /\ c.chunk = ex.got /\ c.at = "write"
        /\ c.writer = sink["cache"].writer
    BY DEF CacheWrite
  <2>2. Writing = {}
    BY <1>4 DEF ExportInv, CacheInv
  <2>3. Writing' = {c}
    BY <2>1, <2>2 DEF Writing
  <2>4. ~timer' /\ ~resume'
    BY <1>4 DEF ExportInv, CacheInv, OnlyTransfer
  <2>5. /\ handler'.at \notin Renewing
        /\ \A d \in project'.calls : d.at = "cancelling" => Kind(d.victim) = "cache"
    BY <1>4 DEF ExportInv, CacheInv, OnlyTransfer
  <2>6. \A n \in Nat : <<ex'.slot, n>> \in Underway' => n <= ex.got
    BY <1>4 DEF ExportInv, CacheInv
  <2>7. \A n \in Nat : <<ex'.slot, n>> \in Underway' => ex'.phase = "transfer" /\ n <= ex'.got
    BY <1>0, <2>6
  <2>8. <<ex'.slot, ex'.got>> \notin Underway'
    BY <1>0, <2>6
  <2>9. ex.got # 0 /\ sink["cache"].writer # 0 => sink["cache"].data = Copies(ex.got, ex.slot)
    BY <1>4, <2>2 DEF ExportInv, CacheInv
  <2>10. \A w \in Writing' : w.for = ex'.slot /\ ex'.got = w.chunk + 1
                             /\ <<ex'.slot, ex'.got>> \notin Underway'
    BY <2>1, <2>3, <2>8
  <2>11. \A w \in Writing' :
           /\ Kind(w.for) = "cache"
           /\ w.chunk # 0 /\ w.writer # 0 /\ sink'["cache"].writer # 0 =>
                sink'["cache"].writer = w.writer /\ sink'["cache"].data = Copies(w.chunk, w.for)
    BY <2>1, <2>3, <2>9 DEF OnlyTransfer
  <2>12. Writing' # {} /\ \A v, w \in Writing' : v = w
    BY <2>3
  <2> QED  BY <2>4, <2>5, <2>7, <2>10, <2>11, <2>12 DEF CacheInv
<1>5. CacheInv'
  BY <1>4 DEF CacheInv, NoSettings, OnlyTransfer
<1>6. SavedInv'
  BY DEF ExportInv, SavedInv, OnlyTransfer, NoSettings
<1> QED  BY <1>3, <1>5, <1>6 DEF ExportInv

(* A chunk of a download or of a project is received, and the handler writes it. *)
LEMMA FileReceived ==
  ASSUME ExportInv, TypeInv', handler.at = "idle", OnlyTransfer, caching' = caching,
         Kind(ex.slot) \in {"download", "project"}, ex.phase = "transfer",
         ex'.slot = ex.slot, ex'.phase = "transfer", ex'.got = ex.got + 1,
         handler'.at = "write", handler'.for = ex.slot, handler'.chunk = ex.got,
         handler'.writer = sink[Kind(ex.slot)].writer
  PROVE  ExportInv'
<1>0. TypeInv /\ ex \in ExTypes /\ ex.got \in Nat
  BY DEF ExportInv, TypeInv, ExTypes
<1>1. SlotInv'
  <2>1. Kind(ex'.slot) = "project" => Running'
    BY DEF ExportInv, FilesInv, SlotInv, OnlyTransfer, Running
  <2>2. Kind(ex'.slot) # "none"
    OBVIOUS
  <2> QED  BY <2>1, <2>2 DEF SlotInv
<1>2. WriteInv'
  <2>1. sink[Kind(ex.slot)].writer # 0 => sink[Kind(ex.slot)].data = Copies(ex.got, ex.slot)
    <3>1. CASE Kind(ex.slot) = "download"
      BY <3>1 DEF ExportInv, FilesInv, FileInv, Busy
    <3>2. CASE Kind(ex.slot) = "project"
      BY <3>2 DEF ExportInv, FilesInv, FileInv
    <3> QED  BY <3>1, <3>2
  <2> QED  BY <2>1 DEF WriteInv, HoldsSlot, OnlyTransfer
<1>3. FileInv'
  <2>1. Opened' => sink'["project"].data = <<>>
    BY DEF ExportInv, FilesInv, FileInv, OnlyTransfer, Opened
  <2> QED  BY <2>1 DEF FileInv, Busy, HoldsSlot
<1>4. SlotAside
  BY DEF SlotAside
<1>5. NoSettings => CacheAside
  BY <1>4, WaitKept, WritingKept DEF CacheAside, OnlyTransfer
<1>6. CacheInv'
  BY <1>0, <1>5, AsideCache DEF ExportInv, OnlyTransfer
<1>7. SavedInv'
  BY DEF ExportInv, SavedInv, OnlyTransfer, NoSettings
<1>8. PublishInv'
  BY DEF PublishInv
<1> QED  BY <1>1, <1>2, <1>3, <1>6, <1>7, <1>8 DEF ExportInv, FilesInv

(* The message at the front of the queue. *)
LEMMA HeadMessage ==
  ASSUME TypeInv, inbound # <<>>
  PROVE  /\ Head(inbound) \in Messages /\ 1 \in DOMAIN inbound /\ inbound[1] = Head(inbound)
BY DEF TypeInv

(* The transfer of a cache, a project or a diagnosis is announced. *)
LEMMA TransferAnnounced ==
  ASSUME ExportInv, handler = Idle, inbound # <<>>, inbound' = Rest,
         ex.phase = "asked", Kind(ex.slot) # "download",
         ex' = Request([ex EXCEPT !.phase = "transfer"]),
         UNCHANGED <<prepared, pumping, handler, diagnosisVars, projectVars, timer, hostVars,
                     gameVars>>
  PROVE  ExportInv'
<1>0. TypeInv /\ ex \in ExTypes /\ handler.at = "idle"
  BY IdleType DEF ExportInv, TypeInv
<1> PICK x : x = [ex EXCEPT !.phase = "transfer"]
  OBVIOUS
<1>1. /\ x \in ExTypes /\ x.slot = ex.slot /\ x.got = ex.got /\ x.wants = ex.wants
      /\ x.phase = "transfer"
  BY <1>0 DEF ExTypes, Phases
<1>2. /\ ex' \in ExTypes /\ Keeps(x, ex') /\ ex'.wants \subseteq ex.wants \cup {<<ex.slot, ex.got>>}
  BY <1>1, RequestMoves
<1>3. ex'.slot = ex.slot /\ ex'.phase = "transfer" /\ ex'.got = ex.got
  BY <1>1, <1>2 DEF Keeps
<1>4. /\ inbound' \in Seq(Messages)
      /\ \A i \in DOMAIN inbound' : \E j \in DOMAIN inbound : inbound'[i] = inbound[j]
  BY <1>0, RestMessages
<1>5. /\ prepared' = prepared /\ pumping' = pumping /\ handler' = handler /\ diagnosis' = diagnosis
      /\ failing' = failing /\ caching' = caching /\ starts' = starts /\ OnlyTransfer
  BY DEF diagnosisVars, projectVars, hostVars, gameVars, OnlyTransfer
<1>6. TypeInv'
  BY <1>0, <1>2, <1>4, <1>5 DEF TypeInv, OnlyTransfer
<1>7. Underway' \subseteq Underway \cup {<<ex.slot, ex.got>>}
  BY <1>2, <1>4 DEF Underway
<1>8. CASE Kind(ex.slot) = "cache"
  BY <1>0, <1>3, <1>5, <1>6, <1>7, <1>8, CacheAnnounced
<1>9. CASE Kind(ex.slot) # "cache"
  <2>1. SlotStep
    BY <1>0, <1>3 DEF SlotStep, Starts
  <2>2. SlotAside
    BY <1>3, <1>9 DEF SlotAside
  <2>3. handler'.at \notin Busy \cup Renewing
    BY <1>0, <1>5 DEF Busy
  <2> QED  BY <1>0, <1>5, <1>6, <2>1, <2>2, <2>3, HandledKeeps
<1> QED  BY <1>8, <1>9

(* The runtime announces a transfer. *)
LEMMA ReadyHandled ==
  ASSUME ExportInv, handler = Idle, inbound # <<>>, NEW m, m = Head(inbound), HandleReady(m)
  PROVE  ExportInv'
<1>0. TypeInv /\ ex \in ExTypes /\ ex.slot \in Exports /\ handler.at = "idle"
  BY IdleType DEF ExportInv, TypeInv, ExTypes
<1>1. /\ prepared' = prepared /\ resume' = resume /\ timer' = timer
      /\ caching' = caching /\ sink' = sink /\ saved' = saved /\ starts' = starts /\ kinds' = kinds
      /\ crossed' = crossed /\ lost' = lost
  BY DEF HandleReady, hostVars, gameVars
<1>2. CASE Answered
  BY <1>1, <1>2, AnsweredKeeps
<1>3. CASE inbound' = Rest /\ UNCHANGED <<ex, pumping, handler, diagnosisVars, project>>
  <2>1. /\ inbound' \in Seq(Messages)
        /\ \A i \in DOMAIN inbound' : \E j \in DOMAIN inbound : inbound'[i] = inbound[j]
    BY <1>0, <1>3, RestMessages
  <2>2. Calm(ex')
    BY <1>0, <1>3, CalmMoves
  <2>3. /\ pumping' = pumping /\ handler' = Idle /\ diagnosis' = diagnosis /\ failing' = failing
        /\ project' = project
    BY <1>3 DEF diagnosisVars
  <2>4. Answered
    BY <1>0, <2>1, <2>2, <2>3, IdleType DEF Answered, Busy, TypeInv
  <2> QED  BY <1>2, <2>4
<1>4. CASE Mismatch
  BY <1>2, <1>4, MismatchAnswered
<1>5. ASSUME Expected(m), inbound' = Rest, pumping' = pumping, Ready(m.for)
      PROVE  ExportInv'
  <2>0. m.for = ex.slot /\ ex.phase = "asked"
    BY <1>5 DEF Expected, HoldsSlot
  <2>1. /\ inbound' \in Seq(Messages)
        /\ \A i \in DOMAIN inbound' : \E j \in DOMAIN inbound : inbound'[i] = inbound[j]
    BY <1>0, <1>5, RestMessages
  <2>2. CASE /\ Kind(ex.slot) = "download" /\ ex' = [ex EXCEPT !.phase = "transfer"]
             /\ Awaits("picker", ex.slot) /\ UNCHANGED <<diagnosisVars, project>>
    <3>1. handler' \in HandlerTypes /\ handler'.at = "picker" /\ handler'.for = ex.slot
      BY <1>0, <2>2, AwaitsType DEF Places
    <3>2. ex' \in ExTypes
      BY <1>0, <2>2 DEF ExTypes, Phases
    <3>3. TypeInv'
      BY <1>0, <1>1, <1>5, <2>1, <2>2, <3>1, <3>2 DEF TypeInv, diagnosisVars
    <3>4. OnlyTransfer
      BY <1>1, <2>2 DEF OnlyTransfer
    <3> QED  BY <1>0, <1>1, <2>0, <2>2, <3>1, <3>3, <3>4, DownloadAnnounced
  <2>3. CASE /\ Kind(ex.slot) # "download" /\ ex' = Request([ex EXCEPT !.phase = "transfer"])
             /\ UNCHANGED <<handler, diagnosisVars, project>>
    <3>1. UNCHANGED <<prepared, pumping, handler, diagnosisVars, projectVars, timer, hostVars,
                      gameVars>>
      BY <1>1, <1>5, <2>3 DEF projectVars, hostVars, gameVars
    <3> QED  BY <1>5, <2>0, <2>3, <3>1, TransferAnnounced
  <2>4. CASE /\ FailsDiagnosis([ex EXCEPT !.phase = "none"]) /\ Awaits("failing", ex.slot)
             /\ UNCHANGED project
    <3> PICK x : x = [ex EXCEPT !.phase = "none"]
      OBVIOUS
    <3>1. x \in ExTypes /\ x.wants \subseteq ex.wants
      BY <1>0 DEF ExTypes, Phases
    <3>2. Calm(ex')
      BY <1>0, <2>4, <3>1, CalmMoves DEF FailsDiagnosis
    <3>3. handler' \in HandlerTypes /\ handler'.at = "failing"
      BY <1>0, <2>4, AwaitsType DEF Places
    <3>4. diagnosis' \in {"none", "active", "failing"} /\ failing' \in [for : Exports, known : BOOLEAN]
      BY <1>0, <2>4, <3>1, FailingType
    <3>5. Answered
      BY <1>0, <1>5, <2>1, <2>4, <3>2, <3>3, <3>4 DEF Answered, Busy, TypeInv
    <3> QED  BY <1>2, <3>5
  <2>5. \/ /\ Kind(ex.slot) = "download" /\ ex' = [ex EXCEPT !.phase = "transfer"]
           /\ Awaits("picker", ex.slot) /\ UNCHANGED <<diagnosisVars, project>>
        \/ /\ Kind(ex.slot) # "download" /\ ex' = Request([ex EXCEPT !.phase = "transfer"])
           /\ UNCHANGED <<handler, diagnosisVars, project>>
        \/ /\ FailsDiagnosis([ex EXCEPT !.phase = "none"]) /\ Awaits("failing", ex.slot)
           /\ UNCHANGED project
    BY <1>5, <2>0 DEF Ready
  <2> QED  BY <2>2, <2>3, <2>4, <2>5
<1>6. ASSUME Expected(m), inbound' = Rest, pumping' = pumping, m.type # "ready",
             Refused(m.for, m.type)
      PROVE  ExportInv'
  <2>1. m.for = ex.slot /\ m.type \in {"ineligible", "rejected"}
    BY <1>6 DEF Expected, HoldsSlot, HandleReady
  <2>2. Answered
    BY <1>6, <2>1, RefusedAnswered
  <2> QED  BY <1>2, <2>2
<1> QED
  <2>1. \/ inbound' = Rest /\ UNCHANGED <<ex, pumping, handler, diagnosisVars, project>>
        \/ Mismatch
        \/ Expected(m) /\ inbound' = Rest /\ pumping' = pumping /\ Ready(m.for)
        \/ /\ Expected(m) /\ inbound' = Rest /\ pumping' = pumping /\ m.type # "ready"
           /\ Refused(m.for, m.type)
    BY DEF HandleReady
  <2> QED  BY <1>3, <1>4, <1>5, <1>6, <2>1

(* The runtime rejects an export. *)
LEMMA RejectedHandled ==
  ASSUME ExportInv, handler = Idle, inbound # <<>>, NEW m, m = Head(inbound), HandleRejected(m)
  PROVE  ExportInv'
<1>0. TypeInv /\ ex \in ExTypes /\ ex.slot \in Exports /\ handler.at = "idle"
  BY IdleType DEF ExportInv, TypeInv, ExTypes
<1>1. /\ prepared' = prepared /\ resume' = resume /\ timer' = timer
      /\ caching' = caching /\ sink' = sink /\ saved' = saved /\ starts' = starts /\ kinds' = kinds
      /\ pumping' = pumping /\ inbound' = Rest
  BY DEF HandleRejected, hostVars, gameVars
<1>2. /\ inbound' \in Seq(Messages)
      /\ \A i \in DOMAIN inbound' : \E j \in DOMAIN inbound : inbound'[i] = inbound[j]
  BY <1>0, <1>1, RestMessages
<1>3. CASE UNCHANGED <<ex, handler, diagnosisVars, project>>
  <2>1. Calm(ex')
    BY <1>0, <1>3, CalmMoves
  <2>2. handler' = Idle /\ diagnosis' = diagnosis /\ failing' = failing /\ project' = project
    BY <1>3 DEF diagnosisVars
  <2>3. Answered
    BY <1>0, <1>1, <1>2, <2>1, <2>2, IdleType DEF Answered, Busy, TypeInv
  <2> QED  BY <1>1, <2>3, AnsweredKeeps
<1>4. CASE Expected(m) /\ ex' = [ex EXCEPT !.phase = "retry"]
           /\ UNCHANGED <<handler, diagnosisVars, project>>
  <2>1. /\ ex' \in ExTypes /\ ex'.wants = ex.wants /\ ex'.slot = ex.slot /\ ex'.got = ex.got
        /\ ex.phase = "asked" /\ ex'.phase = "retry"
    BY <1>0, <1>4 DEF ExTypes, Phases, Expected
  <2>2. handler' = handler /\ diagnosis' = diagnosis /\ failing' = failing /\ project' = project
    BY <1>4 DEF diagnosisVars
  <2>3. TypeInv'
    BY <1>0, <1>1, <1>2, <2>1, <2>2 DEF TypeInv
  <2>4. Underway' \subseteq Underway
    BY <1>2, <2>1 DEF Underway
  <2>5. SlotStep /\ SlotAside
    BY <2>1, <2>4 DEF SlotStep, AsksAgain, SlotAside
  <2>6. OnlyTransfer
    BY <1>1, <2>2 DEF OnlyTransfer
  <2>7. handler'.at \notin Busy \cup Renewing
    BY <1>0, <2>2 DEF Busy
  <2> QED  BY <1>0, <1>1, <2>3, <2>5, <2>6, <2>7, HandledKeeps
<1>5. ASSUME Expected(m), Refused(m.for, "rejected")
      PROVE  ExportInv'
  <2>1. m.for = ex.slot
    BY <1>5 DEF Expected, HoldsSlot
  <2>2. Answered
    BY <1>1, <1>5, <2>1, RefusedAnswered
  <2> QED  BY <1>1, <2>2, AnsweredKeeps
<1> QED
  <2>1. \/ UNCHANGED <<ex, handler, diagnosisVars, project>>
        \/ Expected(m) /\ ex' = [ex EXCEPT !.phase = "retry"]
           /\ UNCHANGED <<handler, diagnosisVars, project>>
        \/ Expected(m) /\ Refused(m.for, "rejected")
    BY DEF HandleRejected
  <2> QED  BY <1>3, <1>4, <1>5, <2>1

(* A chunk of a diagnosis, kept in memory. *)
LEMMA DiagnosisReceived ==
  ASSUME ExportInv, handler = Idle, inbound # <<>>, inbound' = Rest,
         Kind(ex.slot) \in DiagnosisKinds, ex.phase = "transfer", DiagnosisChunk(ex.slot),
         prepared' = prepared, pumping' = pumping, project' = project,
         resume' = resume, timer' = timer, caching' = caching, sink' = sink, saved' = saved,
         starts' = starts, kinds' = kinds
  PROVE  ExportInv'
<1>0. TypeInv /\ ex \in ExTypes /\ ex.slot \in Exports /\ handler.at = "idle"
  BY IdleType DEF ExportInv, TypeInv, ExTypes
<1>1. /\ inbound' \in Seq(Messages)
      /\ \A i \in DOMAIN inbound' : \E j \in DOMAIN inbound : inbound'[i] = inbound[j]
  BY <1>0, RestMessages
<1> PICK x : x = [ex EXCEPT !.got = @ + 1]
  OBVIOUS
<1>2. x \in ExTypes /\ x.wants = ex.wants /\ x.slot = ex.slot /\ x.phase = ex.phase
  BY <1>0 DEF ExTypes
<1>3. Kind(ex.slot) \notin {"download", "project", "cache"}
  BY DEF DiagnosisKinds
<1>4. OnlyTransfer
  BY DEF OnlyTransfer
<1>5. ASSUME ex' \in ExTypes, ex'.slot = ex.slot, ex'.phase = ex.phase,
             handler' \in HandlerTypes, handler'.at \notin Busy \cup Renewing,
             UNCHANGED diagnosisVars
      PROVE  ExportInv'
  <2>1. TypeInv'
    BY <1>0, <1>1, <1>5 DEF TypeInv, diagnosisVars
  <2>2. SlotStep
    BY <1>0, <1>3, <1>5 DEF SlotStep, Receives
  <2>3. SlotAside
    BY <1>3, <1>5 DEF SlotAside
  <2> QED  BY <1>0, <1>4, <1>5, <2>1, <2>2, <2>3, HandledKeeps
<1>6. CASE ex' = Request(x) /\ UNCHANGED <<handler, diagnosisVars>>
  <2>1. ex' \in ExTypes /\ ex'.slot = ex.slot /\ ex'.phase = ex.phase
    BY <1>2, <1>6, RequestMoves DEF Keeps
  <2>2. handler' = Idle /\ UNCHANGED diagnosisVars
    BY <1>6
  <2> QED  BY <1>5, <2>1, <2>2, IdleType DEF Busy
<1>7. CASE (ex' = Begin(x, "snapshot") \/ ex' = Stage(x, "archive"))
           /\ UNCHANGED <<handler, diagnosisVars>>
  <2>1. "snapshot" \in Others \ {"cache"} /\ "archive" \in Others \ {"cache"}
    BY DEF Others
  <2>2. Calm(ex')
    BY <1>0, <1>2, <1>7, <2>1, CalmBegin
  <2>3. handler' = Idle /\ diagnosis' = diagnosis /\ failing' = failing
    BY <1>7 DEF diagnosisVars
  <2>4. Answered
    BY <1>0, <1>1, <2>2, <2>3, IdleType DEF Answered, Busy, TypeInv
  <2> QED  BY <2>4, AnsweredKeeps
<1>8. CASE ex' = x /\ Awaits("saving", ex.slot) /\ UNCHANGED diagnosisVars
  <2>1. handler' \in HandlerTypes /\ handler'.at = "saving"
    BY <1>0, <1>8, AwaitsType DEF Places
  <2>2. ex' \in ExTypes /\ ex'.slot = ex.slot /\ ex'.phase = ex.phase
    BY <1>2, <1>8
  <2>3. handler'.at \notin Busy \cup Renewing
    BY <2>1 DEF Busy
  <2> QED  BY <1>5, <1>8, <2>1, <2>2, <2>3
<1>9. CASE FailsDiagnosis(x) /\ Awaits("failing", ex.slot)
  <2>1. Calm(ex')
    BY <1>0, <1>2, <1>9, CalmMoves DEF FailsDiagnosis
  <2>2. handler' \in HandlerTypes /\ handler'.at = "failing"
    BY <1>0, <1>9, AwaitsType DEF Places
  <2>3. diagnosis' \in {"none", "active", "failing"} /\ failing' \in [for : Exports, known : BOOLEAN]
    BY <1>0, <1>2, <1>9, FailingType
  <2>4. Answered
    BY <1>0, <1>1, <2>1, <2>2, <2>3 DEF Answered, Busy, TypeInv
  <2> QED  BY <2>4, AnsweredKeeps
<1> QED  BY <1>6, <1>7, <1>8, <1>9 DEF DiagnosisChunk

(* A chunk that is written to a file. *)
LEMMA ChunkReceived ==
  ASSUME ExportInv, handler = Idle, inbound # <<>>, NEW m, m = Head(inbound), inbound' = Rest,
         m.type = "chunk", HoldsSlot(m.for), m.chunk = ex.got,
         Kind(ex.slot) \notin DiagnosisKinds, ex.phase = "transfer", WrittenChunk(ex.slot),
         diagnosis' = diagnosis, failing' = failing,
         prepared' = prepared, pumping' = pumping, project' = project,
         resume' = resume, timer' = timer, sink' = sink, saved' = saved, starts' = starts,
         kinds' = kinds
  PROVE  ExportInv'
<1>0. TypeInv /\ ex \in ExTypes /\ ex.slot \in Exports /\ handler.at = "idle"
  BY IdleType DEF ExportInv, TypeInv, ExTypes
<1>1. /\ inbound' \in Seq(Messages)
      /\ \A i \in DOMAIN inbound' : \E j \in DOMAIN inbound : inbound'[i] = inbound[j]
  BY <1>0, RestMessages
<1>2. /\ ex' \in ExTypes /\ ex'.wants = ex.wants /\ ex'.slot = ex.slot /\ ex'.phase = ex.phase
      /\ ex'.got = ex.got + 1
  BY <1>0 DEF ExTypes, WrittenChunk
<1>3. OnlyTransfer
  BY DEF OnlyTransfer
<1>4. <<ex.slot, ex.got>> \in Underway
  BY <1>0, HeadMessage DEF Underway, HoldsSlot
<1>5. Underway' \subseteq Underway
  BY <1>0, <1>1, <1>2, UnderwayShrinks
<1>6. Kind(ex.slot) \in {"cache", "download", "project"}
  <2>1. Kind(ex.slot) \in Kinds
    BY <1>0 DEF Exports, Kind
  <2>2. Kind(ex.slot) # "none"
    BY DEF ExportInv, FilesInv, SlotInv
  <2> QED  BY <2>1, <2>2 DEF Kinds, DiagnosisKinds
<1>7. CASE Kind(ex.slot) = "cache"
  <2> PICK w : w = CacheWrite(ex.slot, "write")
    OBVIOUS
  <2>1. caching' = caching \cup {CacheWrite(ex.slot, "write")} /\ handler' = handler
    BY <1>7 DEF WrittenChunk
  <2>2. w \in WriteTypes
    BY <1>0 DEF CacheWrite, WriteTypes, TypeInv, ExTypes, FileTypes, Files
  <2>3. IsFiniteSet(caching \cup {w})
    BY <1>0, FS_AddElement DEF TypeInv
  <2>4. caching' \subseteq WriteTypes /\ IsFiniteSet(caching')
    BY <1>0, <2>1, <2>2, <2>3 DEF TypeInv
  <2>5. TypeInv'
    BY <1>0, <1>1, <1>2, <2>1, <2>4 DEF TypeInv
  <2> QED  BY <1>0, <1>2, <1>3, <1>4, <1>5, <1>7, <2>1, <2>5, CacheReceived
<1>8. CASE Kind(ex.slot) \in {"download", "project"}
  <2>1. Awaits("write", ex.slot) /\ caching' = caching
    BY <1>8 DEF WrittenChunk
  <2>2. /\ handler' \in HandlerTypes /\ handler'.at = "write" /\ handler'.for = ex.slot
        /\ handler'.chunk = ex.got /\ handler'.writer = sink[Kind(ex.slot)].writer
    BY <1>0, <1>8, <2>1, AwaitsType DEF Places, Files
  <2>3. TypeInv'
    BY <1>0, <1>1, <1>2, <2>1, <2>2 DEF TypeInv
  <2> QED  BY <1>0, <1>2, <1>3, <1>8, <2>1, <2>2, <2>3, FileReceived
<1> QED  BY <1>6, <1>7, <1>8

(* A chunk arrives. *)
LEMMA ChunkHandled ==
  ASSUME ExportInv, handler = Idle, inbound # <<>>, NEW m, m = Head(inbound), HandleChunk(m)
  PROVE  ExportInv'
<1>0. TypeInv /\ ex \in ExTypes /\ ex.slot \in Exports /\ handler.at = "idle"
  BY IdleType DEF ExportInv, TypeInv, ExTypes
<1>1. /\ prepared' = prepared /\ resume' = resume /\ timer' = timer
      /\ sink' = sink /\ saved' = saved /\ starts' = starts /\ kinds' = kinds /\ m.type = "chunk"
  BY DEF HandleChunk, gameVars
<1>2. CASE inbound' = Rest /\ UNCHANGED <<ex, pumping, handler, diagnosisVars, project, caching>>
  <2>1. /\ inbound' \in Seq(Messages)
        /\ \A i \in DOMAIN inbound' : \E j \in DOMAIN inbound : inbound'[i] = inbound[j]
    BY <1>0, <1>2, RestMessages
  <2>2. Calm(ex')
    BY <1>0, <1>2, CalmMoves
  <2>3. /\ pumping' = pumping /\ handler' = Idle /\ diagnosis' = diagnosis /\ failing' = failing
        /\ project' = project /\ caching' = caching
    BY <1>2 DEF diagnosisVars
  <2>4. Answered
    BY <1>0, <2>1, <2>2, <2>3, IdleType DEF Answered, Busy, TypeInv
  <2> QED  BY <1>1, <2>3, <2>4, AnsweredKeeps
<1>3. CASE Mismatch /\ UNCHANGED caching
  BY <1>1, <1>3, MismatchAnswered, AnsweredKeeps
<1>4. ASSUME ex.phase = "transfer", HoldsSlot(m.for), m.chunk = ex.got, inbound' = Rest,
             UNCHANGED <<pumping, project>>,
             IF Kind(m.for) \in DiagnosisKinds
             THEN DiagnosisChunk(m.for) /\ UNCHANGED caching
             ELSE WrittenChunk(m.for) /\ UNCHANGED diagnosisVars
      PROVE  ExportInv'
  <2>1. m.for = ex.slot /\ pumping' = pumping /\ project' = project
    BY <1>4 DEF HoldsSlot
  <2>2. CASE Kind(ex.slot) \in DiagnosisKinds
    <3>1. DiagnosisChunk(ex.slot) /\ caching' = caching
      BY <1>4, <2>1, <2>2
    <3> QED  BY <1>1, <1>4, <2>1, <2>2, <3>1, DiagnosisReceived
  <2>3. CASE Kind(ex.slot) \notin DiagnosisKinds
    <3>1. WrittenChunk(ex.slot) /\ UNCHANGED diagnosisVars
      BY <1>4, <2>1, <2>3
    <3>2. diagnosis' = diagnosis /\ failing' = failing
      BY <3>1 DEF diagnosisVars
    <3> QED  BY <1>1, <1>4, <2>1, <2>3, <3>1, <3>2, ChunkReceived
  <2> QED  BY <2>2, <2>3
<1> QED
  <2>1. \/ inbound' = Rest /\ UNCHANGED <<ex, pumping, handler, diagnosisVars, project, caching>>
        \/ Mismatch /\ UNCHANGED caching
        \/ /\ ex.phase = "transfer" /\ HoldsSlot(m.for) /\ m.chunk = ex.got /\ inbound' = Rest
           /\ UNCHANGED <<pumping, project>>
           /\ IF Kind(m.for) \in DiagnosisKinds
              THEN DiagnosisChunk(m.for) /\ UNCHANGED caching
              ELSE WrittenChunk(m.for) /\ UNCHANGED diagnosisVars
    BY DEF HandleChunk
  <2> QED  BY <1>2, <1>3, <1>4, <2>1

(* A compiled cache takes the slot: no write of a cache is left, and none is resumed. *)
LEMMA CacheTakes ==
  ASSUME ExportInv, TypeInv', Takes(ex', "cache"), ex'.wants = ex.wants,
         \A i \in DOMAIN inbound' : \E j \in DOMAIN inbound : inbound'[i] = inbound[j],
         handler' = handler, project' = project, resume' = resume, caching' = caching, sink' = sink,
         saved' = saved, kinds' = kinds,
         NoSettings => ~timer' /\ ~resume /\ Writing = {}
  PROVE  ExportInv'
<1>0. TypeInv
  BY DEF ExportInv
<1>1. Aside
  BY DEF Aside, SlotStep, Others
<1>2. FilesInv'
  BY <1>0, <1>1, AsideFiles DEF ExportInv
<1>3. ASSUME NoSettings PROVE CacheInv'
  <2>1. \A n \in Nat : <<ex'.slot, n>> \notin Underway'
    <3>1. \A u \in ex'.wants : u[1] # ex'.slot
      BY DEF Takes, Unused
    <3>2. \A i \in DOMAIN inbound : inbound[i].for # ex'.slot
      BY DEF Takes, Unused
    <3>3. \A i \in DOMAIN inbound' : inbound'[i].for # ex'.slot
      BY <3>2
    <3> QED  BY <3>1, <3>3 DEF Underway
  <2>2. Writing' = {} /\ ~timer' /\ ~resume'
    BY <1>3, WritingKept
  <2>3. /\ handler'.at \notin Renewing
        /\ \A d \in project'.calls : d.at = "cancelling" => Kind(d.victim) = "cache"
    BY <1>3 DEF ExportInv, CacheInv
  <2>4. ex'.got = 0
    BY DEF Takes
  <2> QED  BY <2>1, <2>2, <2>3, <2>4 DEF CacheInv
<1>4. CacheInv'
  BY <1>3 DEF CacheInv, NoSettings
<1>5. SavedInv'
  BY DEF ExportInv, SavedInv, NoSettings
<1> QED  BY <1>2, <1>4, <1>5 DEF ExportInv

(* The compiled cache is built, or cannot be. *)
LEMMA BuiltHandled ==
  ASSUME ExportInv, handler = Idle, inbound # <<>>, NEW m, m = Head(inbound), HandleBuilt(m)
  PROVE  ExportInv'
<1>0. TypeInv /\ ex \in ExTypes /\ ex.slot \in Exports
  BY DEF ExportInv, TypeInv, ExTypes
<1>1. /\ prepared' = prepared /\ pumping' = pumping /\ diagnosis' = diagnosis /\ failing' = failing
      /\ project' = project /\ resume' = resume /\ timer' = timer /\ caching' = caching
      /\ sink' = sink /\ saved' = saved /\ starts' = starts /\ kinds' = kinds /\ inbound' = Rest
  BY DEF HandleBuilt, diagnosisVars, projectVars, hostVars, gameVars
<1>2. /\ inbound' \in Seq(Messages)
      /\ \A i \in DOMAIN inbound' : \E j \in DOMAIN inbound : inbound'[i] = inbound[j]
  BY <1>0, <1>1, RestMessages
<1>3. CASE /\ Kind(ex.slot) = "cache" /\ ex.phase # "transfer"
           /\ ex' = Begin(ex, "cache") /\ handler' = handler
  <2>1. ex' \in ExTypes /\ Takes(ex', "cache") /\ ex'.wants = ex.wants
    BY <1>0, <1>3, BeginMoves DEF Kinds
  <2>2. TypeInv'
    BY <1>0, <1>1, <1>2, <1>3, <2>1 DEF TypeInv
  <2>3. ASSUME NoSettings PROVE ~timer' /\ ~resume /\ Writing = {}
    <3>1. ~timer /\ ~resume
      BY <1>3, <2>3 DEF ExportInv, CacheInv
    <3>2. ex.got = 0
      BY <1>3 DEF ExportInv, FilesInv, SlotInv, FullProject
    <3>3. ASSUME NEW w \in Writing PROVE FALSE
      <4>1. ex.got = w.chunk + 1
        BY <1>3, <2>3, <3>3 DEF ExportInv, CacheInv
      <4>2. w.chunk \in Nat
        BY <1>0, <3>3 DEF Writing, TypeInv, WriteTypes
      <4> QED  BY <3>2, <4>1, <4>2
    <3> QED  BY <1>1, <3>1, <3>3
  <2> QED  BY <1>1, <1>2, <1>3, <2>1, <2>2, <2>3, CacheTakes
<1>4. CASE ex' = Free(ex) /\ Awaits("cache failed", ex.slot)
  <2>1. Calm(ex')
    BY <1>0, <1>4, CalmMoves
  <2>2. handler' \in HandlerTypes /\ handler'.at = "cache failed"
    BY <1>0, <1>4, AwaitsType DEF Places
  <2>3. Answered
    BY <1>0, <1>1, <1>2, <2>1, <2>2 DEF Answered, Busy, TypeInv
  <2> QED  BY <1>1, <2>3, AnsweredKeeps
<1>5. CASE UNCHANGED <<ex, handler>>
  <2>1. Calm(ex') /\ handler' = Idle
    BY <1>0, <1>5, CalmMoves
  <2>2. Answered
    BY <1>0, <1>1, <1>2, <2>1, IdleType DEF Answered, Busy, TypeInv
  <2> QED  BY <1>1, <2>2, AnsweredKeeps
<1> QED  BY <1>3, <1>4, <1>5 DEF HandleBuilt

(* The next message is handled. *)
LEMMA MessageHandled ==
  ASSUME ExportInv, Handles
  PROVE  ExportInv'
<1>1. PICK m : /\ m = Head(inbound) /\ handler = Idle /\ inbound # <<>>
               /\ HandleReady(m) \/ HandleRejected(m) \/ HandleBuilt(m) \/ HandleChunk(m)
  BY DEF Handles
<1> QED  BY <1>1, ReadyHandled, RejectedHandled, BuiltHandled, ChunkHandled

-----------------------------------------------------------------------------
(* The files of the host. *)

(* A transfer to a file that ends leaves the files' invariant. *)
LEMMA GoneFiles ==
  ASSUME Frees(ex') \/ Takes(ex', "replay"), handler'.at \notin Busy,
         Opened' => sink'["project"].data = <<>>
  PROVE  FilesInv'
<1>1. Kind(ex'.slot) \in {"none", "replay"} /\ ex'.phase \notin {"transfer", "left"} /\ ex'.got = 0
      /\ (ex'.phase # "none" => Kind(ex'.slot) # "none")
  <2>1. CASE Frees(ex')
    BY <2>1, FreesKind DEF Frees
  <2>2. CASE Takes(ex', "replay")
    BY <2>2 DEF Takes
  <2> QED  BY <2>1, <2>2
<1>2. SlotInv'
  BY <1>1 DEF SlotInv
<1>3. WriteInv'
  BY DEF WriteInv, Busy
<1>4. FileInv'
  BY <1>1 DEF FileInv
<1>5. PublishInv'
  BY DEF PublishInv, Busy
<1> QED  BY <1>2, <1>3, <1>4, <1>5 DEF FilesInv

(* A file is opened. *)
LEMMA OpenType ==
  ASSUME TypeInv, NEW f \in Files, NEW w \in Nat, NEW data \in Seq(Exports),
         sink' = Open(f, w, data)
  PROVE  /\ sink' \in [Files -> FileTypes]
         /\ sink'[f].writer = w /\ sink'[f].data = data
         /\ \A g \in Files \ {f} : sink'[g] = sink[g]
<1>1. [writer |-> w, data |-> data] \in FileTypes
  BY DEF FileTypes
<1> QED  BY <1>1 DEF Open, TypeInv

(* The player picks the file of a download, declines, or it cannot be opened. *)
LEMMA FilePicked ==
  ASSUME ExportInv, Picks
  PROVE  ExportInv'
<1>0. TypeInv /\ ex \in ExTypes /\ "download" \in Files
  BY DEF ExportInv, TypeInv, Files
<1>1. /\ prepared' = prepared /\ diagnosis' = diagnosis /\ failing' = failing
      /\ project' = project /\ resume' = resume /\ timer' = timer
      /\ caching' = caching /\ saved' = saved /\ starts' = starts /\ kinds' = kinds
      /\ handler.at = "picker"
  BY DEF Picks, Faults, Discarding, diagnosisVars, projectVars, gameVars
<1>2. SavedInv'
  BY <1>1 DEF ExportInv, SavedInv, NoSettings
<1>3. handler' \in HandlerTypes /\ handler'.at \in {"idle", "discarding"}
  <2>1. handler' = Idle \/ Awaits("discarding", handler.for)
    BY DEF Picks, Discarding
  <2>2. "discarding" \in Places /\ handler.for \in Exports
    BY <1>0 DEF Places, TypeInv, HandlerTypes
  <2> QED  BY <1>0, <2>1, <2>2, IdleType, AwaitsType
<1>4. NoSettings => WaitAside /\ Writing' = Writing /\ handler'.at \notin Renewing
  BY <1>1, <1>3, WaitKept, WritingKept
<1>5. Opened' => sink["project"].data = <<>>
  BY <1>1 DEF ExportInv, FilesInv, FileInv, Opened
<1>6. CASE /\ sink' = Open("download", NewWriter, <<>>)
           /\ ex' = Request(ex) /\ UNCHANGED <<inbound, pumping>>
  <2>1. NewWriter \in Nat /\ <<>> \in Seq(Exports)
    BY <1>0, WriterFresh
  <2>2. /\ sink' \in [Files -> FileTypes] /\ sink'["download"].data = <<>>
        /\ sink'["project"] = sink["project"] /\ sink'["cache"] = sink["cache"]
    BY <1>0, <1>6, <2>1, OpenType DEF Files
  <2>3. /\ ex' \in ExTypes /\ ex'.slot = ex.slot /\ ex'.phase = ex.phase /\ ex'.got = ex.got
    BY <1>0, <1>6, RequestMoves DEF Keeps
  <2>4. TypeInv'
    BY <1>0, <1>1, <1>3, <1>6, <2>2, <2>3 DEF TypeInv
  <2>5. SlotInv'
    <3>1. handler'.at \notin Busy
      BY <1>3 DEF Busy
    <3>2. Running' = Running
      BY <1>1 DEF Running
    <3> QED  BY <1>1, <1>3, <2>3, <3>1, <3>2 DEF ExportInv, FilesInv, SlotInv
  <2>6. WriteInv'
    BY <1>3 DEF WriteInv
  <2>7. FileInv'
    <3>1. Kind(ex'.slot) = "download" /\ ex'.phase = "transfer" => ex'.got = 0
      BY <1>1, <2>3 DEF ExportInv, FilesInv, SlotInv, Busy
    <3>2. \A e : Copies(0, e) = <<>>
      BY CopiesGrow
    <3>3. Kind(ex'.slot) = "project" /\ sink'["project"].writer # 0
            => sink'["project"].data = Copies(ex'.got, ex'.slot)
      BY <1>1, <2>2, <2>3 DEF ExportInv, FilesInv, FileInv
    <3>4. Kind(ex'.slot) = "download" /\ ex'.phase = "transfer"
            => sink'["download"].data = Copies(ex'.got, ex'.slot)
      BY <2>2, <3>1, <3>2
    <3> QED  BY <1>5, <2>2, <3>3, <3>4 DEF FileInv
  <2>10. PublishInv'
    BY <1>3 DEF PublishInv
  <2>8. SlotAside
    <3>1. Kind(ex.slot) = "cache" => ex.phase # "transfer"
      BY <1>1 DEF ExportInv, FilesInv, SlotInv, Busy
    <3>2. Kind(ex.slot) = "cache" => ex' = ex
      BY <1>6, <3>1 DEF Request
    <3>3. Kind(ex.slot) = "cache" => Underway' = Underway
      BY <1>6, <3>2 DEF Underway
    <3> QED  BY <2>3, <3>3 DEF SlotAside
  <2>9. CacheInv'
    BY <1>0, <1>1, <1>4, <2>2, <2>8, AsideCache DEF CacheAside, ExportInv
  <2> QED  BY <1>2, <2>4, <2>5, <2>6, <2>7, <2>9, <2>10 DEF ExportInv, FilesInv
<1>7. ASSUME NEW x \in ExTypes, x.wants \subseteq ex.wants, ex' = Free(x),
             inbound' \in Seq(Messages), pumping' \in BOOLEAN,
             sink' = sink \/ sink' = Close("download")
      PROVE  ExportInv'
  <2>1. Frees(ex') /\ ex' \in ExTypes
    BY <1>7, FreeMoves
  <2>2. /\ sink' \in [Files -> FileTypes]
        /\ sink'["project"] = sink["project"] /\ sink'["cache"] = sink["cache"]
    BY <1>0, <1>7, CloseType DEF Files, TypeInv
  <2>3. TypeInv'
    BY <1>0, <1>1, <1>3, <1>7, <2>1, <2>2 DEF TypeInv
  <2>4. FilesInv'
    BY <1>3, <1>5, <2>1, <2>2, GoneFiles DEF Busy
  <2>5. SlotAside
    BY <2>1, FreesKind DEF SlotAside
  <2>6. CacheInv'
    BY <1>0, <1>1, <1>4, <2>2, <2>5, AsideCache DEF CacheAside, ExportInv
  <2> QED  BY <1>2, <2>3, <2>4, <2>6 DEF ExportInv
<1>8. CASE ex' = Free(Withdraw(ex, {"download"}, {})) /\ UNCHANGED <<inbound, pumping, sink>>
  <2> PICK x : x = Withdraw(ex, {"download"}, {})
    OBVIOUS
  <2>1. x \in ExTypes /\ x.wants \subseteq ex.wants
    BY <1>0, WithdrawMoves
  <2> QED  BY <1>0, <1>7, <1>8, <2>1 DEF TypeInv
<1>9. CASE sink' = Close("download") /\ UNCHANGED <<ex, inbound, pumping>>
  <2>1. /\ sink' \in [Files -> FileTypes] /\ sink'["download"] = NoFile
        /\ sink'["project"] = sink["project"] /\ sink'["cache"] = sink["cache"]
    BY <1>0, <1>9, CloseType DEF Files
  <2>2. TypeInv'
    BY <1>0, <1>1, <1>3, <1>9, <2>1 DEF TypeInv
  <2>3. SlotInv'
    <3>1. Running' = Running /\ handler'.at \notin Busy
      BY <1>1, <1>3 DEF Running, Busy
    <3> QED  BY <1>3, <1>9, <3>1 DEF ExportInv, FilesInv, SlotInv
  <2>4. WriteInv' /\ PublishInv'
    BY <1>3 DEF WriteInv, PublishInv
  <2>5. FileInv'
    <3>1. Kind(ex'.slot) = "project" /\ sink'["project"].writer # 0
            => sink'["project"].data = Copies(ex'.got, ex'.slot)
      BY <1>1, <1>9, <2>1 DEF ExportInv, FilesInv, FileInv
    <3>2. sink'["download"].writer = 0
      BY <2>1 DEF NoFile
    <3> QED  BY <1>5, <2>1, <3>1, <3>2 DEF FileInv
  <2>6. SlotAside
    <3>1. Underway' = Underway
      BY <1>9 DEF Underway
    <3> QED  BY <1>9, <3>1 DEF SlotAside
  <2>7. CacheInv'
    BY <1>0, <1>1, <1>4, <2>1, <2>6, AsideCache DEF CacheAside, ExportInv
  <2> QED  BY <1>2, <2>2, <2>3, <2>4, <2>5, <2>7 DEF ExportInv, FilesInv
<1> QED
  <2>1. \/ /\ sink' = Open("download", NewWriter, <<>>)
           /\ ex' = Request(ex) /\ UNCHANGED <<inbound, pumping>>
        \/ ex' = Free(Withdraw(ex, {"download"}, {})) /\ UNCHANGED <<inbound, pumping, sink>>
        \/ sink' = Close("download") /\ UNCHANGED <<ex, inbound, pumping>>
    BY DEF Picks, Discarding
  <2> QED  BY <1>6, <1>8, <1>9, <2>1

(* A download that was given up leaves the slot, and the handler throws. *)
LEMMA DownloadDiscarded ==
  ASSUME ExportInv, Discards
  PROVE  ExportInv'
<1>0. TypeInv /\ ex \in ExTypes /\ inbound \in Seq(Messages)
  BY DEF ExportInv, TypeInv
<1>1. Calm(ex') /\ Frees(ex')
  BY <1>0, CalmMoves, FreeMoves DEF Discards
<1>2. /\ project' = project /\ resume' = resume /\ timer' = timer /\ caching' = caching
      /\ sink' = sink /\ saved' = saved /\ kinds' = kinds /\ handler.at \notin Busy
  BY DEF Discards, projectVars, hostVars, gameVars, Busy
<1>3. /\ inbound' \in Seq(Messages) /\ pumping' \in BOOLEAN /\ handler' = Idle
      /\ \A i \in DOMAIN inbound' : \E j \in DOMAIN inbound : inbound'[i] = inbound[j]
  <2>1. PICK submitted \in BOOLEAN : Faults(inbound, submitted)
    BY DEF Discards
  <2> QED  BY <1>0, <2>1, FaultMessages
<1>4. TypeInv'
  <2>1. ex' \in ExTypes
    BY <1>1 DEF Calm
  <2> QED  BY <1>0, <1>2, <1>3, <2>1, IdleType DEF TypeInv, Discards, diagnosisVars, gameVars
<1>5. NoSettings => WaitAside /\ handler'.at \notin Renewing /\ Writing' = Writing
  BY <1>2, <1>3, WaitKept, WritingKept, IdleType
<1>6. handler'.at \notin Busy
  BY <1>3, IdleType DEF Busy
<1> QED  BY <1>1, <1>2, <1>3, <1>4, <1>5, <1>6, CalmKeeps

(* The timer of the compiled cache fires. *)
LEMMA CacheBegins ==
  ASSUME ExportInv, BeginsCache
  PROVE  ExportInv'
<1>0. TypeInv /\ ex \in ExTypes /\ "cache" \in Kinds
  BY DEF ExportInv, TypeInv, Kinds
<1>1. /\ inbound' = inbound /\ handler' = handler /\ project' = project
      /\ resume' = resume /\ caching' = caching /\ sink' = sink /\ saved' = saved /\ kinds' = kinds
      /\ timer = TRUE /\ timer' = FALSE
  <2>1. timer = TRUE
    BY <1>0 DEF BeginsCache, TypeInv
  <2> QED  BY <2>1 DEF BeginsCache, runtimeVars, projectVars, hostVars, gameVars
<1>2. CASE ex' = ex
  <2>1. TypeInv'
    <3>1. pumping' \in BOOLEAN
      BY <1>0 DEF BeginsCache, TypeInv
    <3> QED  BY <1>0, <1>1, <1>2, <3>1 DEF TypeInv, BeginsCache, runtimeVars, diagnosisVars, gameVars
  <2>2. Aside
    BY <1>1, <1>2 DEF Aside, SlotStep, Keeps
  <2>3. FilesInv'
    BY <1>0, <2>2, AsideFiles DEF ExportInv
  <2>4. Underway' = Underway /\ Writing' = Writing
    BY <1>1, <1>2 DEF Underway, Writing
  <2>5. CacheInv'
    <3>1. \A v : Waiting(v)' = Waiting(v)
      BY <1>1 DEF Waiting
    <3> QED  BY <1>1, <1>2, <2>4, <3>1 DEF ExportInv, CacheInv, NoSettings
  <2>6. SavedInv'
    BY <1>1 DEF ExportInv, SavedInv, NoSettings
  <2> QED  BY <2>1, <2>3, <2>5, <2>6 DEF ExportInv
<1>3. CASE ex' = Begin(ex, "cache")
  <2>1. ex' \in ExTypes /\ Takes(ex', "cache") /\ ex'.wants = ex.wants
    BY <1>0, <1>3, BeginMoves
  <2>2. TypeInv'
    <3>1. pumping' \in BOOLEAN
      BY <1>0 DEF BeginsCache, TypeInv
    <3> QED  BY <1>0, <1>1, <2>1, <3>1 DEF TypeInv, BeginsCache, runtimeVars, diagnosisVars, gameVars
  <2>3. NoSettings => ~timer' /\ ~resume /\ Writing = {}
    BY <1>1 DEF ExportInv, CacheInv
  <2>4. \A i \in DOMAIN inbound' : \E j \in DOMAIN inbound : inbound'[i] = inbound[j]
    BY <1>1
  <2> QED  BY <1>1, <2>1, <2>2, <2>3, <2>4, CacheTakes
<1> QED  BY <1>2, <1>3 DEF BeginsCache

(* The project takes the slot: its file is empty, and no write that is awaited can touch it. *)
LEMMA ProjectTakes ==
  ASSUME ExportInv, Takes(ex', "project"), Running', handler' = handler,
         sink'["project"].data = <<>>, sink'["download"] = sink["download"],
         handler.at = "write" /\ Kind(handler.for) = "project" /\ handler.writer # 0
           => sink'["project"].writer # handler.writer
  PROVE  FilesInv'
<1>1. /\ Kind(ex'.slot) = "project" /\ ex'.slot # handler.for
      /\ ex'.phase \in {"staging", "asked"} /\ ex'.got = 0
  BY DEF Takes, Unused
<1>2. SlotInv'
  BY <1>1 DEF SlotInv
<1>3. WriteInv'
  <2> SUFFICES ASSUME handler.at = "write" PROVE WriteInv'
    BY DEF WriteInv
  <2>1. /\ Kind(handler.for) \in {"download", "project"}
        /\ handler.writer # 0 /\ sink[Kind(handler.for)].writer = handler.writer
             => sink[Kind(handler.for)].data = Copies(handler.chunk, handler.for)
    BY DEF ExportInv, FilesInv, WriteInv
  <2>2. CASE Kind(handler.for) = "download"
    BY <1>1, <2>1, <2>2 DEF WriteInv, HoldsSlot
  <2>3. CASE Kind(handler.for) = "project"
    BY <1>1, <2>3 DEF WriteInv, HoldsSlot
  <2> QED  BY <2>1, <2>2, <2>3
<1>4. FileInv'
  <2>1. \A e : Copies(0, e) = <<>>
    BY CopiesGrow
  <2>2. Kind(ex'.slot) # "download"
    BY <1>1
  <2>3. sink'["project"].data = Copies(ex'.got, ex'.slot)
    BY <1>1, <2>1
  <2> QED  BY <2>2, <2>3 DEF FileInv
<1>5. PublishInv'
  BY <1>1 DEF PublishInv, HoldsSlot, ExportInv, FilesInv
<1> QED  BY <1>2, <1>3, <1>4, <1>5 DEF FilesInv

(* The call of exportProjectFile that takes the slot was the only one. *)
LEMMA SlotTaken ==
  ASSUME TypeInv, NEW c \in project.calls, TakesSlot(c)
  PROVE  /\ ProjectType(project') /\ Running' /\ project'.calls = {}
         /\ ex' \in ExTypes /\ Takes(ex', "project")
<1>1. project.calls = {c} /\ ~project.exporting /\ project.ends = 0
  BY OnlyCall
<1>2. project \in [calls : SUBSET Calls, exporting : BOOLEAN, ends : {0, 1}]
  BY DEF TypeInv, ProjectType
<1>3. project' = [project EXCEPT !.calls = {}, !.exporting = TRUE]
  BY <1>1 DEF TakesSlot
<1>4. /\ project'.calls = {} /\ project'.exporting = TRUE /\ project'.ends = 0
      /\ project' \in [calls : SUBSET Calls, exporting : BOOLEAN, ends : {0, 1}]
  BY <1>1, <1>2, <1>3
<1>5. ProjectType(project') /\ Running'
  BY <1>4 DEF ProjectType, Running
<1>6. ex' \in ExTypes /\ Takes(ex', "project")
  <2>1. ex \in ExTypes /\ "project" \in Kinds
    BY DEF TypeInv, Kinds
  <2> QED  BY <2>1, StageMoves DEF TakesSlot
<1> QED  BY <1>4, <1>5, <1>6

(* The player has chosen a file for the project. *)
LEMMA ProjectAccepted ==
  ASSUME ExportInv, NEW c \in project.calls, Accepts(c)
  PROVE  ExportInv'
<1>0. TypeInv /\ ex \in ExTypes /\ "project" \in Files /\ ex.slot \in Exports
  BY DEF ExportInv, TypeInv, Files, ExTypes
<1>1. /\ inbound' = inbound /\ prepared' = prepared /\ pumping' = pumping /\ handler' = handler
      /\ diagnosis' = diagnosis /\ failing' = failing /\ timer' = timer /\ caching' = caching
      /\ saved' = saved /\ starts' = starts /\ kinds' = kinds /\ c.at = "dialog"
  BY DEF Accepts, runtimeVars, diagnosisVars, gameVars
<1>2. NewWriter \in Nat /\ <<>> \in Seq(Exports) /\ NewWriter # handler.writer
  BY <1>0, WriterFresh
<1>3. /\ sink' \in [Files -> FileTypes] /\ sink'["project"].data = <<>>
      /\ sink'["project"].writer # handler.writer
      /\ sink'["download"] = sink["download"] /\ sink'["cache"] = sink["cache"]
  BY <1>0, <1>2, OpenType DEF Accepts, Files
<1>4. Writing' = Writing
  BY <1>1, WritingKept
<1>5. SavedInv'
  BY <1>1 DEF ExportInv, SavedInv, NoSettings
<1>6. CASE /\ Kind(ex.slot) = "cache" /\ Goes(c, "cancelling", ex.slot)
           /\ resume' = TRUE /\ ex' = Free(ex)
  <2>1. ex' \in ExTypes /\ Frees(ex') /\ ex'.slot = None
    BY <1>0, <1>6, FreeMoves DEF Frees
  <2>2. Kind(None) = "none" /\ Kind(ex'.slot) = "none"
    BY <2>1 DEF Kind, None
  <2> PICK d : d = [c EXCEPT !.at = "cancelling", !.victim = ex.slot]
    OBVIOUS
  <2>9. ProjectType(project') /\ project'.calls = {d}
    <3>1. "cancelling" \in Going
      BY DEF Going
    <3> QED  BY <1>0, <1>6, <3>1, OnlyCall
  <2>10. d.at = "cancelling" /\ d.victim = ex.slot
    BY <1>0, OnlyCall DEF Calls
  <2>3. TypeInv'
    BY <1>0, <1>1, <1>3, <1>6, <2>1, <2>9 DEF TypeInv
  <2>4. SlotInv'
    BY <2>1, <2>2 DEF SlotInv, Frees
  <2>5. WriteInv'
    <3> SUFFICES ASSUME handler.at = "write" PROVE WriteInv'
      BY <1>1 DEF WriteInv
    <3>1. /\ Kind(handler.for) \in {"download", "project"}
          /\ handler.writer # 0 /\ sink[Kind(handler.for)].writer = handler.writer
               => sink[Kind(handler.for)].data = Copies(handler.chunk, handler.for)
      BY DEF ExportInv, FilesInv, WriteInv
    <3>2. ex'.slot # handler.for
      BY <2>1, <2>2, <3>1
    <3>3. CASE Kind(handler.for) = "download"
      BY <1>1, <1>3, <3>1, <3>2, <3>3 DEF WriteInv, HoldsSlot
    <3>4. CASE Kind(handler.for) = "project"
      BY <1>1, <1>3, <3>2, <3>4 DEF WriteInv, HoldsSlot
    <3> QED  BY <3>1, <3>3, <3>4
  <2>6. FileInv'
    BY <1>3, <2>2 DEF FileInv
  <2>11. PublishInv'
    BY <1>1, <1>3, <2>2 DEF PublishInv, HoldsSlot, ExportInv, FilesInv
  <2>7. ASSUME NoSettings PROVE CacheInv'
    <3>1. ~timer'
      BY <1>1, <1>6, <2>7 DEF ExportInv, CacheInv
    <3>2. \A w \in Writing' : w.for = ex.slot
      BY <1>4, <1>6, <2>7 DEF ExportInv, CacheInv
    <3>3. /\ handler'.at \notin Renewing
          /\ \A v, w \in Writing' : v = w
      BY <1>1, <1>4, <2>7 DEF ExportInv, CacheInv
    <3>4. \A w \in Writing' :
            /\ Kind(w.for) = "cache"
            /\ w.chunk # 0 /\ w.writer # 0 /\ sink'["cache"].writer # 0 =>
                 sink'["cache"].writer = w.writer /\ sink'["cache"].data = Copies(w.chunk, w.for)
      BY <1>3, <1>4, <2>7 DEF ExportInv, CacheInv
    <3>5. \A w \in Writing' : Waiting(w.for)'
      BY <2>9, <2>10, <3>2 DEF Waiting
    <3>6. \A v \in project'.calls : v.at = "cancelling" => Kind(v.victim) = "cache"
      BY <1>6, <2>9, <2>10
    <3> QED  BY <2>2, <3>1, <3>3, <3>4, <3>5, <3>6 DEF CacheInv
  <2>8. CacheInv'
    BY <1>1, <2>7 DEF CacheInv, NoSettings
  <2> QED  BY <1>5, <2>3, <2>4, <2>5, <2>6, <2>8, <2>11 DEF ExportInv, FilesInv
<1>7. CASE TakesSlot(c) /\ resume' = resume
  <2>1. /\ ex' \in ExTypes /\ Takes(ex', "project")
        /\ ProjectType(project') /\ Running' /\ project'.calls = {}
    BY <1>0, <1>7, SlotTaken
  <2>2. TypeInv'
    BY <1>0, <1>1, <1>3, <1>7, <2>1 DEF TypeInv
  <2>3. FilesInv'
    BY <1>1, <1>3, <2>1, ProjectTakes
  <2>4. SlotAside
    BY <2>1 DEF SlotAside, Takes
  <2>5. NoSettings => WaitAside /\ handler'.at \notin Renewing
    <3>1. \A v : ~Waiting(v)
      BY <1>0, <1>1, OnlyCall DEF Waiting
    <3>2. WaitAside
      BY <1>1, <1>7, <2>1, <3>1 DEF WaitAside
    <3> QED  BY <1>1, <3>2 DEF ExportInv, CacheInv
  <2>6. CacheInv'
    BY <1>0, <1>1, <1>3, <1>4, <2>4, <2>5, AsideCache DEF CacheAside, ExportInv
  <2> QED  BY <1>5, <2>2, <2>3, <2>6 DEF ExportInv
<1> QED  BY <1>6, <1>7 DEF Accepts

(* The cache is aborted, and the project takes the slot. *)
LEMMA CacheAborted ==
  ASSUME ExportInv, NEW c \in project.calls, AbortsCache(c)
  PROVE  ExportInv'
<1>0. TypeInv /\ FilesInv /\ SlotInv /\ ex \in ExTypes /\ "cache" \in Files
  BY DEF ExportInv, FilesInv, TypeInv, Files
<1>1. /\ inbound' = inbound /\ prepared' = prepared /\ pumping' = pumping /\ handler' = handler
      /\ diagnosis' = diagnosis /\ failing' = failing /\ timer' = timer /\ caching' = caching
      /\ saved' = saved /\ starts' = starts /\ kinds' = kinds /\ resume' = resume
      /\ c.at \in {"aborting", "failing"}
  BY DEF AbortsCache, runtimeVars, diagnosisVars, gameVars
<1>2. /\ sink' \in [Files -> FileTypes] /\ sink'["cache"] = NoFile
      /\ sink'["download"] = sink["download"] /\ sink'["project"] = sink["project"]
  BY <1>0, CloseType DEF AbortsCache, Files
<1>3. Opened
  BY <1>1 DEF Opened
<1>4. Kind(ex.slot) # "project"
  BY <1>0, <1>3, OpenedApart
<1>5. \A v : ~Waiting(v)
  BY <1>0, <1>1, OnlyCall DEF Waiting
<1>6. CASE TakesSlot(c)
  <2>1. /\ ex' \in ExTypes /\ Takes(ex', "project")
        /\ ProjectType(project') /\ Running' /\ project'.calls = {}
    BY <1>0, <1>6, SlotTaken
  <2>2. TypeInv'
    BY <1>0, <1>1, <1>2, <2>1 DEF TypeInv
  <2>3. FilesInv'
    <3>1. sink'["project"].data = <<>>
      BY <1>2, <1>3 DEF ExportInv, FilesInv, FileInv
    <3>2. ASSUME handler.at = "write", Kind(handler.for) = "project", handler.writer # 0
          PROVE  sink'["project"].writer # handler.writer
      <4>1. ~HoldsSlot(handler.for)
        BY <1>4, <3>2 DEF HoldsSlot
      <4> QED  BY <1>2, <1>3, <3>2, <4>1 DEF ExportInv, FilesInv, WriteInv
    <3> QED  BY <1>1, <1>2, <2>1, <3>1, <3>2, ProjectTakes
  <2>4. SlotAside
    BY <2>1 DEF SlotAside, Takes
  <2>5. NoSettings => WaitAside /\ handler'.at \notin Renewing /\ Writing' = Writing
    <3>1. WaitAside
      BY <1>1, <1>5, <2>1 DEF WaitAside
    <3> QED  BY <1>1, <3>1, WritingKept DEF ExportInv, CacheInv
  <2>6. CacheInv'
    BY <1>0, <1>1, <1>2, <2>4, <2>5, AsideCache DEF CacheAside, ExportInv
  <2>7. SavedInv'
    BY <1>1 DEF ExportInv, SavedInv, NoSettings
  <2> QED  BY <2>2, <2>3, <2>6, <2>7 DEF ExportInv
<1>7. CASE Goes(c, "undoing", None) /\ ex' = ex
  <2>1. "undoing" \in Going /\ None \in Exports
    BY DEF Going, None, Exports, Kinds
  <2>2. ProjectType(project') /\ project'.calls = {[c EXCEPT !.at = "undoing", !.victim = None]}
    BY <1>0, <1>7, <2>1, OnlyCall
  <2>3. [c EXCEPT !.at = "undoing", !.victim = None].at = "undoing"
    BY <1>0, OnlyCall DEF Calls
  <2>4. Calm(ex')
    BY <1>0, <1>7, CalmMoves
  <2>5. TypeInv'
    BY <1>0, <1>1, <1>2, <1>7, <2>2 DEF TypeInv
  <2>6. NoSettings => WaitAside /\ handler'.at \notin Renewing /\ Writing' = Writing
    <3>1. WaitAside
      BY <1>1, <1>5, <2>2, <2>3 DEF WaitAside
    <3> QED  BY <1>1, <3>1, WritingKept DEF ExportInv, CacheInv
  <2> QED  BY <1>1, <1>2, <1>3, <1>4, <1>7, <2>4, <2>5, <2>6, CalmKeeps
<1> QED  BY <1>6, <1>7 DEF AbortsCache

(* A call whose cancellation has failed gives its file up. *)
LEMMA ProjectUndone ==
  ASSUME ExportInv, NEW c \in project.calls, UndoesProject(c)
  PROVE  ExportInv'
<1>0. TypeInv /\ FilesInv /\ SlotInv /\ ex \in ExTypes /\ "project" \in Files
  BY DEF ExportInv, FilesInv, TypeInv, Files
<1>1. /\ ex' = ex /\ inbound' = inbound /\ prepared' = prepared /\ pumping' = pumping
      /\ handler' = handler /\ diagnosis' = diagnosis /\ failing' = failing /\ timer' = timer
      /\ caching' = caching /\ saved' = saved /\ starts' = starts /\ kinds' = kinds
      /\ resume' = resume /\ c.at = "undoing"
  BY DEF UndoesProject, runtimeVars, diagnosisVars, gameVars
<1>2. /\ sink' \in [Files -> FileTypes] /\ sink'["project"] = NoFile
      /\ sink'["download"] = sink["download"] /\ sink'["cache"] = sink["cache"]
  BY <1>0, CloseType DEF UndoesProject, Files
<1>3. ProjectType(project') /\ project'.calls = {} /\ project.calls = {c}
  BY <1>0, OnlyCall DEF UndoesProject
<1>4. Opened /\ ~Opened'
  BY <1>1, <1>3 DEF Opened
<1>5. Kind(ex.slot) # "project"
  BY <1>0, <1>4, OpenedApart
<1>6. Calm(ex')
  BY <1>0, <1>1, CalmMoves
<1>7. TypeInv'
  BY <1>0, <1>1, <1>2, <1>3 DEF TypeInv
<1>8. NoSettings => WaitAside /\ handler'.at \notin Renewing /\ Writing' = Writing
  <2>1. project'.calls = project.calls \ {c} /\ c.at # "cancelling"
    BY <1>1, <1>3
  <2>2. WaitAside
    BY <1>1, <2>1, WaitOthers
  <2> QED  BY <1>1, <2>2, WritingKept DEF ExportInv, CacheInv
<1> QED  BY <1>1, <1>2, <1>4, <1>5, <1>6, <1>7, <1>8, CalmKeeps

(* A file that holds one whole transfer is published. *)
LEMMA WholePublished ==
  ASSUME NEW e, NEW holds \in BOOLEAN, NEW own \in BOOLEAN, NEW data,
         own => data = Copies(Chunks, e), holds => own,
         saved' = [data |-> IF own THEN data ELSE <<>>, told |-> IF holds THEN e ELSE None]
  PROVE  SavedInv'
<1>1. CASE own
  <2>1. saved'.data = Copies(Chunks, e) /\ (saved'.told = e \/ saved'.told = None)
    BY <1>1
  <2>2. Copies(Chunks, e)[1] = e
    BY SizesAssumption DEF Copies
  <2> QED  BY <2>1, <2>2 DEF SavedInv, Copies
<1>2. CASE ~own
  <2>1. saved'.data = <<>> /\ saved'.told = None
    BY <1>2
  <2> QED  BY <2>1 DEF SavedInv
<1> QED  BY <1>1, <1>2

(* A chunk of a download or a project is written; the last one publishes the file. *)
LEMMA ChunkWritten ==
  ASSUME ExportInv, Writes
  PROVE  ExportInv'
<1> DEFINE e == handler.for
           f == Kind(e)
<1> PICK own \in BOOLEAN : own <=> sink[f].writer = handler.writer
  <2>1. CASE sink[f].writer = handler.writer
    BY <2>1
  <2>2. CASE sink[f].writer # handler.writer
    BY <2>2
  <2> QED  BY <2>1, <2>2
<1> PICK last \in BOOLEAN : last <=> handler.chunk + 1 = Chunks
  <2>1. CASE handler.chunk + 1 = Chunks
    BY <2>1
  <2>2. CASE handler.chunk + 1 # Chunks
    BY <2>2
  <2> QED  BY <2>1, <2>2
<1> PICK data : data = Append(sink[f].data, e)
  OBVIOUS
<1>0. /\ TypeInv /\ ex \in ExTypes /\ e \in Exports /\ handler.writer \in Nat
      /\ handler.chunk \in Nat
  BY DEF ExportInv, TypeInv, HandlerTypes
<1>1. /\ inbound' = inbound /\ prepared' = prepared /\ pumping' = pumping
      /\ diagnosis' = diagnosis /\ failing' = failing /\ caching' = caching
      /\ starts' = starts /\ kinds' = kinds
      /\ handler.at = "write" /\ handler.writer # 0
  BY DEF Writes, runtimeVars, diagnosisVars, gameVars
<1>2. /\ f \in {"download", "project"}
      /\ own => sink[f].data = Copies(handler.chunk, e)
      /\ HoldsSlot(e) => own /\ ex.got = handler.chunk + 1
      /\ /\ f = "project" /\ ~HoldsSlot(e)
         /\ Kind(ex.slot) = "project" \/ Opened
         => ~own
  <2>1. WriteInv
    BY DEF ExportInv, FilesInv
  <2>2. /\ f \in {"download", "project"}
        /\ handler.writer # 0 /\ sink[f].writer = handler.writer => sink[f].data = Copies(handler.chunk, e)
        /\ HoldsSlot(e) => sink[f].writer = handler.writer /\ ex.got = handler.chunk + 1
        /\ /\ f = "project" /\ ~HoldsSlot(e) /\ handler.writer # 0
           /\ Kind(ex.slot) = "project" \/ Opened
           => sink[f].writer # handler.writer
    BY <1>1, <2>1 DEF WriteInv
  <2> HIDE DEF f
  <2>3. f \in {"download", "project"} /\ (own => sink[f].data = Copies(handler.chunk, e))
    BY <1>1, <2>2
  <2>4. HoldsSlot(e) => own /\ ex.got = handler.chunk + 1
    BY <2>2
  <2>5. /\ f = "project" /\ ~HoldsSlot(e)
        /\ Kind(ex.slot) = "project" \/ Opened
        => ~own
    BY <1>1, <2>2
  <2> QED  BY <2>3, <2>4, <2>5
<1>3. own => data = Copies(handler.chunk + 1, e)
  BY <1>0, <1>2, CopiesGrow
<1>5. f \in Files /\ sink[f] \in FileTypes /\ data \in Seq(Exports)
  <2>1. f \in Files
    BY <1>2 DEF Files
  <2>2. sink[f] \in FileTypes
    BY <1>0, <2>1 DEF TypeInv
  <2>3. sink[f].data \in Seq(Exports)
    BY <2>2 DEF FileTypes
  <2> QED  BY <1>0, <2>1, <2>2, <2>3
<1>6. ASSUME \/ ~own /\ sink' = sink
             \/ own /\ (sink' = Close(f) \/ sink' = Open(f, handler.writer, data))
      PROVE  /\ sink' \in [Files -> FileTypes]
             /\ \A g \in Files \ {f} : sink'[g] = sink[g]
             /\ ~own => sink' = sink
             /\ sink' = Open(f, handler.writer, data) => sink'[f].data = data
             /\ sink'["cache"] = sink["cache"]
             /\ Opened => sink'["project"].data = <<>>
  <2> HIDE DEF e, f
  <2>1. ASSUME sink' = sink
        PROVE  sink' \in [Files -> FileTypes] /\ \A g \in Files \ {f} : sink'[g] = sink[g]
    BY <1>0, <2>1 DEF TypeInv
  <2>2. ASSUME sink' = Close(f)
        PROVE  sink' \in [Files -> FileTypes] /\ \A g \in Files \ {f} : sink'[g] = sink[g]
    BY <1>0, <1>5, <2>2, CloseType
  <2>3. ASSUME sink' = Open(f, handler.writer, data)
        PROVE  sink' \in [Files -> FileTypes] /\ \A g \in Files \ {f} : sink'[g] = sink[g]
    BY <1>0, <1>5, <2>3, OpenType
  <2>4. /\ sink' \in [Files -> FileTypes] /\ \A g \in Files \ {f} : sink'[g] = sink[g]
        /\ ~own => sink' = sink
    BY <1>6, <2>1, <2>2, <2>3
  <2>5. sink' = Open(f, handler.writer, data) => sink'[f].data = data
    BY <1>0, <1>5, OpenType
  <2>6. sink'["cache"] = sink["cache"]
    BY <1>2, <2>4 DEF Files
  <2>7. ASSUME Opened PROVE sink'["project"].data = <<>>
    <3>1. sink["project"].data = <<>> /\ Kind(ex.slot) # "project"
      BY <1>0, <2>7, OpenedApart DEF ExportInv, FilesInv, FileInv
    <3>2. CASE f = "download"
      BY <2>4, <3>1, <3>2 DEF Files
    <3>3. CASE f = "project"
      <4>1. ~HoldsSlot(e)
        BY <3>1, <3>3 DEF HoldsSlot, f
      <4> QED  BY <1>2, <2>4, <2>7, <3>1, <3>3, <4>1
    <3> QED  BY <1>2, <3>2, <3>3
  <2> QED  BY <2>4, <2>5, <2>6, <2>7
<1>7. handler' = Idle => handler' \in HandlerTypes /\ handler'.at = "idle" /\ handler'.at \notin Busy
  BY IdleType DEF Busy
<1>8. saved' = saved => SavedInv' /\ saved' \in [data : Seq(Exports), told : Exports]
  BY <1>0, <1>1 DEF ExportInv, SavedInv, NoSettings, TypeInv
<1>9. ASSUME last, saved' = [data |-> IF own THEN data ELSE <<>>,
                             told |-> IF HoldsSlot(e) THEN e ELSE None]
      PROVE  SavedInv' /\ saved' \in [data : Seq(Exports), told : Exports]
  <2> PICK holds \in BOOLEAN : holds <=> HoldsSlot(e)
    BY DEF HoldsSlot
  <2>1. own => data = Copies(Chunks, e)
    BY <1>3, <1>9
  <2>2. saved' = [data |-> IF own THEN data ELSE <<>>, told |-> IF holds THEN e ELSE None]
    BY <1>9
  <2>3. holds => own
    BY <1>2
  <2>4. None \in Exports
    BY DEF None, Exports, Kinds
  <2> HIDE DEF e, f
  <2>5. SavedInv'
    BY <2>1, <2>2, <2>3, WholePublished
  <2> QED  BY <1>0, <1>5, <1>9, <2>4, <2>5
<1>10. NoSettings => Writing' = Writing
  BY <1>1, WritingKept
<1> HIDE DEF e, f
<1>13. ASSUME ~HoldsSlot(e), UNCHANGED <<ex, project, timer, resume>>, handler' = Idle,
              \/ ~own /\ sink' = sink
              \/ own /\ (sink' = Close(f) \/ sink' = Open(f, handler.writer, data)),
              SavedInv', saved' \in [data : Seq(Exports), told : Exports]
       PROVE  ExportInv'
  <2>1. ex' = ex /\ project' = project /\ resume' = resume /\ timer' = timer
    BY <1>13
  <2>2. /\ sink' \in [Files -> FileTypes] /\ \A g \in Files \ {f} : sink'[g] = sink[g]
        /\ ~own => sink' = sink
        /\ sink'["cache"] = sink["cache"] /\ (Opened => sink'["project"].data = <<>>)
    BY <1>6, <1>13
  <2>3. TypeInv'
    BY <1>0, <1>1, <1>7, <1>13, <2>1, <2>2 DEF TypeInv
  <2>4. SlotInv'
    BY <1>7, <1>13, <2>1 DEF ExportInv, FilesInv, SlotInv, Running
  <2>5. WriteInv' /\ PublishInv'
    BY <1>7, <1>13 DEF WriteInv, PublishInv
  <2>6. FileInv'
    <3>1. ~(Kind(ex.slot) = "download" /\ ex.phase = "transfer")
      BY <1>1, <1>13 DEF ExportInv, FilesInv, SlotInv, Busy, HoldsSlot, e
    <3>2. ASSUME Kind(ex.slot) = "project", sink'["project"].writer # 0
          PROVE  sink'["project"].data = Copies(ex.got, ex.slot)
      <4>1. sink'["project"] = sink["project"]
        <5>1. CASE f = "download"
          BY <2>2, <5>1 DEF Files
        <5>2. CASE f = "project"
          BY <1>2, <1>13, <2>2, <3>2, <5>2
        <5> QED  BY <1>2, <5>1, <5>2
      <4>2. ~HoldsSlot(handler.for)
        BY <1>13 DEF e
      <4> QED  BY <3>2, <4>1, <4>2 DEF ExportInv, FilesInv, FileInv
    <3>3. Opened' = Opened
      BY <2>1 DEF Opened
    <3> QED  BY <2>1, <2>2, <3>1, <3>2, <3>3 DEF FileInv
  <2>7. SlotAside
    <3>1. Underway' = Underway
      BY <1>1, <2>1 DEF Underway
    <3> QED  BY <2>1, <3>1 DEF SlotAside
  <2>8. NoSettings => CacheAside
    BY <1>7, <1>10, <1>13, <2>1, <2>2, <2>7, WaitKept DEF CacheAside
  <2>9. CacheInv'
    BY <1>0, <1>1, <2>8, AsideCache DEF ExportInv
  <2> QED  BY <1>13, <2>3, <2>4, <2>5, <2>6, <2>9 DEF ExportInv, FilesInv
<1>14. CASE /\ HoldsSlot(e) /\ sink' = Open(f, handler.writer, data) /\ ex' = Request(ex)
            /\ handler' = Idle /\ UNCHANGED <<project, timer, resume, saved>>
  <2>1. project' = project /\ resume' = resume /\ timer' = timer /\ saved' = saved /\ own
    BY <1>2, <1>14
  <2>2. /\ ex' \in ExTypes /\ ex'.slot = e /\ ex.slot = e /\ ex'.phase = ex.phase
        /\ ex'.got = handler.chunk + 1 /\ ex'.got = ex.got
    BY <1>0, <1>2, <1>14, RequestMoves DEF Keeps, HoldsSlot
  <2>3. /\ sink' \in [Files -> FileTypes] /\ sink'[f].data = data
        /\ sink'["cache"] = sink["cache"] /\ (Opened => sink'["project"].data = <<>>)
    BY <1>6, <1>14, <2>1
  <2>4. TypeInv'
    BY <1>0, <1>1, <1>7, <1>8, <1>14, <2>1, <2>2, <2>3 DEF TypeInv
  <2>5. SlotInv'
    BY <1>7, <1>14, <2>1, <2>2 DEF ExportInv, FilesInv, SlotInv, Running
  <2>6. WriteInv' /\ PublishInv'
    BY <1>7, <1>14 DEF WriteInv, PublishInv
  <2>7. FileInv'
    <3>1. sink'[f].data = Copies(ex'.got, ex'.slot)
      BY <1>3, <2>1, <2>2, <2>3
    <3>2. f = Kind(ex'.slot)
      BY <2>2 DEF f
    <3>3. /\ Kind(ex'.slot) = "download" => sink'["download"].data = Copies(ex'.got, ex'.slot)
          /\ Kind(ex'.slot) = "project" => sink'["project"].data = Copies(ex'.got, ex'.slot)
      BY <3>1, <3>2
    <3>4. Opened' = Opened
      BY <2>1 DEF Opened
    <3> QED  BY <2>3, <3>3, <3>4 DEF FileInv
  <2>8. SlotAside
    BY <1>2, <2>2 DEF SlotAside, f
  <2>9. NoSettings => CacheAside
    BY <1>7, <1>10, <1>14, <2>1, <2>3, <2>8, WaitKept DEF CacheAside
  <2>10. CacheInv'
    BY <1>0, <1>1, <2>9, AsideCache DEF ExportInv
  <2> QED  BY <1>8, <2>1, <2>4, <2>5, <2>6, <2>7, <2>10 DEF ExportInv, FilesInv
<1>15. ASSUME last, f = "project", HoldsSlot(e), sink' = Close(f), handler' = Idle,
              ex' = ResumeReplay(Free(ex)), project' = [project EXCEPT !.exporting = FALSE],
              timer' = (timer \/ resume), resume' = FALSE,
              SavedInv', saved' \in [data : Seq(Exports), told : Exports]
       PROVE  ExportInv'
  <2> PICK x : x = Free(ex)
    OBVIOUS
  <2>1. x \in ExTypes /\ Frees(x)
    BY <1>0, FreeMoves
  <2>2. ex' \in ExTypes /\ (ex' = x \/ Takes(ex', "replay"))
    BY <1>0, <1>15, <2>1, ReplayMoves
  <2>3. Frees(ex') \/ Takes(ex', "replay")
    BY <2>1, <2>2
  <2>4. /\ sink' \in [Files -> FileTypes]
        /\ sink'["cache"] = sink["cache"] /\ (Opened => sink'["project"].data = <<>>)
    BY <1>2, <1>6, <1>15
  <2>5. project.exporting /\ project.ends = 0 /\ project.calls = {}
    <3>1. Running
      BY <1>15 DEF HoldsSlot, f, ExportInv, FilesInv, SlotInv
    <3> QED  BY <1>0, <3>1 DEF Running, TypeInv, ProjectType
  <2>6. /\ project'.calls = {} /\ project'.exporting = FALSE /\ project'.ends = 0
        /\ project' \in [calls : SUBSET Calls, exporting : BOOLEAN, ends : {0, 1}]
    <3>1. project \in [calls : SUBSET Calls, exporting : BOOLEAN, ends : {0, 1}]
      BY <1>0 DEF TypeInv, ProjectType
    <3> QED  BY <1>15, <2>5, <3>1
  <2>7. ProjectType(project') /\ ~Opened'
    BY <2>6 DEF ProjectType, Opened
  <2>8. TypeInv'
    BY <1>0, <1>1, <1>7, <1>15, <2>2, <2>4, <2>7 DEF TypeInv
  <2>9. FilesInv'
    BY <1>7, <1>15, <2>3, <2>7, GoneFiles
  <2>10. SlotAside
    BY <2>3, FreesKind DEF SlotAside, Takes
  <2>11. NoSettings => CacheAside
    <3>1. WaitAside
      BY <1>15, <2>5, <2>6 DEF WaitAside
    <3> QED  BY <1>7, <1>10, <1>15, <2>4, <2>10, <3>1 DEF CacheAside
  <2>12. CacheInv'
    BY <1>0, <1>1, <2>11, AsideCache DEF ExportInv
  <2> QED  BY <1>15, <2>8, <2>9, <2>12 DEF ExportInv
<1>16. CASE /\ last /\ f = "download" /\ HoldsSlot(e) /\ UNCHANGED <<ex, project, timer, resume, saved>>
            /\ \/ sink' = Open(f, handler.writer, data) /\ Awaits("publish", e)
               \/ sink' = Close("download") /\ Awaits("discarding", e)
  <2>1. /\ ex' = ex /\ project' = project /\ resume' = resume /\ timer' = timer /\ saved' = saved
        /\ own
    BY <1>2, <1>16
  <2>2. /\ sink' \in [Files -> FileTypes] /\ \A g \in Files \ {f} : sink'[g] = sink[g]
        /\ sink' = Open(f, handler.writer, data) => sink'[f].data = data
        /\ sink'["cache"] = sink["cache"] /\ (Opened => sink'["project"].data = <<>>)
    BY <1>6, <1>16, <2>1
  <2>3. handler' \in HandlerTypes /\ handler'.for = e /\ handler'.at \in {"publish", "discarding"}
    BY <1>0, <1>16, AwaitsType DEF Places
  <2>4. TypeInv'
    BY <1>0, <1>1, <1>8, <2>1, <2>2, <2>3 DEF TypeInv
  <2>5. SlotInv'
    <3>1. Running' = Running /\ ex.slot = e
      BY <1>16, <2>1 DEF Running, HoldsSlot
    <3> QED  BY <2>1, <2>3, <3>1 DEF ExportInv, FilesInv, SlotInv
  <2>6. WriteInv'
    BY <2>3 DEF WriteInv
  <2>7. PublishInv'
    <3> SUFFICES ASSUME handler'.at = "publish" PROVE PublishInv'
      BY DEF PublishInv
    <3>1. sink' = Open(f, handler.writer, data)
      <4>1. ~Awaits("discarding", e)
        BY DEF Awaits
      <4> QED  BY <1>16, <4>1
    <3>2. sink'["download"].data = Copies(Chunks, e)
      BY <1>3, <1>16, <2>1, <2>2, <3>1
    <3>3. ex'.got = Chunks
      BY <1>2, <1>16, <2>1
    <3>4. Kind(e) = "download"
      BY <1>16 DEF f
    <3> QED  BY <2>3, <3>2, <3>3, <3>4 DEF PublishInv
  <2>8. FileInv'
    <3>1. Kind(ex'.slot) = "download"
      BY <1>16, <2>1 DEF HoldsSlot, f
    <3>2. handler'.at \notin Busy => sink'["download"].writer = 0
      <4> SUFFICES ASSUME handler'.at \notin Busy PROVE sink'["download"].writer = 0
        OBVIOUS
      <4>1. ~Awaits("publish", e)
        BY DEF Awaits, Busy
      <4>2. sink' = Close("download")
        BY <1>16, <4>1
      <4> QED  BY <1>0, <4>2, CloseType DEF Files, NoFile
    <3>3. Opened' = Opened
      BY <2>1 DEF Opened
    <3> QED  BY <2>2, <3>1, <3>2, <3>3 DEF FileInv
  <2>9. SlotAside
    <3>1. Underway' = Underway
      BY <1>1, <2>1 DEF Underway
    <3> QED  BY <2>1, <3>1 DEF SlotAside
  <2>10. NoSettings => CacheAside
    BY <1>10, <2>1, <2>2, <2>3, <2>9, WaitKept DEF CacheAside
  <2>11. CacheInv'
    BY <1>0, <1>1, <2>10, AsideCache DEF ExportInv
  <2> QED  BY <1>8, <2>1, <2>4, <2>5, <2>6, <2>7, <2>8, <2>11 DEF ExportInv, FilesInv
<1> QED
  <2>1. CASE /\ last /\ f = "project" /\ sink' = (IF own THEN Close(f) ELSE sink)
             /\ saved' = [data |-> IF own THEN data ELSE <<>>,
                          told |-> IF HoldsSlot(e) THEN e ELSE None]
             /\ handler' = Idle
             /\ \/ ~HoldsSlot(e) /\ UNCHANGED <<ex, project, timer, resume>>
                \/ /\ HoldsSlot(e) /\ ex' = ResumeReplay(Free(ex))
                   /\ project' = [project EXCEPT !.exporting = FALSE]
                   /\ timer' = (timer \/ resume) /\ resume' = FALSE
    <3>1. SavedInv' /\ saved' \in [data : Seq(Exports), told : Exports]
      BY <1>9, <2>1
    <3>2. \/ ~own /\ sink' = sink
          \/ own /\ sink' = Close(f)
      BY <2>1
    <3>3. CASE ~HoldsSlot(e) /\ UNCHANGED <<ex, project, timer, resume>>
      BY <1>13, <2>1, <3>1, <3>2, <3>3
    <3>4. CASE /\ HoldsSlot(e) /\ ex' = ResumeReplay(Free(ex))
               /\ project' = [project EXCEPT !.exporting = FALSE]
               /\ timer' = (timer \/ resume) /\ resume' = FALSE
      BY <1>2, <1>15, <2>1, <3>1, <3>2, <3>4
    <3> QED  BY <2>1, <3>3, <3>4
  <2>2. CASE /\ ~HoldsSlot(e) /\ handler' = Idle
             /\ sink' = (IF own THEN Open(f, handler.writer, data) ELSE sink)
             /\ UNCHANGED <<ex, project, timer, resume, saved>>
    BY <1>8, <1>13, <2>2
  <2>3. CASE /\ HoldsSlot(e) /\ handler' = Idle /\ ex' = Request(ex)
             /\ sink' = (IF own THEN Open(f, handler.writer, data) ELSE sink)
             /\ UNCHANGED <<project, timer, resume, saved>>
    BY <1>2, <1>14, <2>3
  <2>4. CASE /\ last /\ f = "download" /\ HoldsSlot(e)
             /\ UNCHANGED <<ex, project, timer, resume, saved>>
             /\ \/ sink' = (IF own THEN Open(f, handler.writer, data) ELSE sink) /\ Awaits("publish", e)
                \/ sink' = Close("download") /\ Awaits("discarding", e)
    BY <1>2, <1>16, <2>4
  <2> QED  BY <2>1, <2>2, <2>3, <2>4 DEF Writes, Discarding, e, f

(* A chunk of a download or a project cannot be written. *)
LEMMA ChunkNotWritten ==
  ASSUME ExportInv, WriteFails
  PROVE  ExportInv'
<1> DEFINE e == handler.for
<1>0. /\ TypeInv /\ ex \in ExTypes /\ e \in Exports /\ inbound \in Seq(Messages)
  BY DEF ExportInv, TypeInv, HandlerTypes
<1>1. /\ prepared' = prepared /\ diagnosis' = diagnosis /\ failing' = failing
      /\ resume' = resume /\ timer' = timer /\ caching' = caching
      /\ saved' = saved /\ starts' = starts /\ kinds' = kinds /\ handler.at = "write"
  BY DEF WriteFails, diagnosisVars, gameVars
<1>2. SavedInv'
  BY <1>1 DEF ExportInv, SavedInv, NoSettings
<1>3. Writing' = Writing
  BY <1>1, WritingKept
<1>4. CASE ~HoldsSlot(e) /\ handler' = Idle /\ UNCHANGED <<ex, inbound, pumping, project, sink>>
  <2>1. handler' \in HandlerTypes /\ handler'.at = "idle"
    BY <1>4, IdleType
  <2>2. TypeInv'
    BY <1>0, <1>1, <1>4, <2>1 DEF TypeInv
  <2>3. SlotInv'
    BY <1>4, <2>1 DEF ExportInv, FilesInv, SlotInv, Busy, Running
  <2>4. WriteInv' /\ PublishInv'
    BY <2>1 DEF WriteInv, PublishInv
  <2>5. FileInv'
    <3>1. ~(Kind(ex.slot) = "download" /\ ex.phase = "transfer")
      BY <1>1, <1>4 DEF ExportInv, FilesInv, SlotInv, Busy, HoldsSlot
    <3>2. Kind(ex.slot) = "project" /\ sink["project"].writer # 0
            => sink["project"].data = Copies(ex.got, ex.slot)
      BY <1>4 DEF ExportInv, FilesInv, FileInv
    <3>3. Opened => sink["project"].data = <<>>
      BY DEF ExportInv, FilesInv, FileInv
    <3>4. Opened' = Opened
      BY <1>4 DEF Opened
    <3> QED  BY <1>4, <3>1, <3>2, <3>3, <3>4 DEF FileInv
  <2>6. SlotAside
    <3>1. Underway' = Underway
      BY <1>4 DEF Underway
    <3> QED  BY <1>4, <3>1 DEF SlotAside
  <2>7. NoSettings => WaitAside
    BY <1>1, <1>4, WaitKept
  <2>8. CacheInv'
    BY <1>0, <1>1, <1>3, <1>4, <2>1, <2>6, <2>7, AsideCache DEF CacheAside, ExportInv
  <2> QED  BY <1>2, <2>2, <2>3, <2>4, <2>5, <2>8 DEF ExportInv, FilesInv
<1>5. CASE /\ HoldsSlot(e) /\ Kind(e) = "project" /\ FailsProject(ex) /\ Awaits("project write", e)
           /\ UNCHANGED <<inbound, pumping, sink>>
  <2>1. handler' \in HandlerTypes /\ handler'.at = "project write"
    BY <1>0, <1>5, AwaitsType DEF Places
  <2>2. Frees(ex') /\ ex' \in ExTypes
    BY <1>0, <1>5, FreeMoves DEF FailsProject
  <2>3. ProjectType(project') /\ project'.calls = project.calls /\ (Opened' => Opened)
    BY <1>0, <1>5, ProjectFailing DEF FailsProject, HoldsSlot, ExportInv
  <2>4. TypeInv'
    BY <1>0, <1>1, <1>5, <2>1, <2>2, <2>3 DEF TypeInv
  <2>5. FilesInv'
    <3>1. Opened' => sink'["project"].data = <<>>
      BY <1>5, <2>3 DEF ExportInv, FilesInv, FileInv
    <3> QED  BY <2>1, <2>2, <3>1, GoneFiles DEF Busy
  <2>6. SlotAside
    BY <2>2, FreesKind DEF SlotAside
  <2>7. NoSettings => WaitAside
    BY <1>1, <2>3, WaitCalls
  <2>8. CacheInv'
    BY <1>0, <1>1, <1>3, <1>5, <2>1, <2>6, <2>7, AsideCache DEF CacheAside, ExportInv
  <2> QED  BY <1>2, <2>4, <2>5, <2>8 DEF ExportInv
<1>6. CASE /\ HoldsSlot(e) /\ Kind(e) = "download" /\ sink' = Close("download")
           /\ \E submitted \in BOOLEAN : Faults(inbound, submitted)
           /\ UNCHANGED <<ex, project>>
  <2>1. PICK submitted \in BOOLEAN : Faults(inbound, submitted)
    BY <1>6
  <2>2. /\ inbound' \in Seq(Messages) /\ pumping' \in BOOLEAN /\ handler' = Idle
        /\ \A i \in DOMAIN inbound' : \E j \in DOMAIN inbound : inbound'[i] = inbound[j]
    BY <1>0, <2>1, FaultMessages
  <2>3. handler' \in HandlerTypes /\ handler'.at = "idle"
    BY <2>2, IdleType
  <2>4. /\ sink' \in [Files -> FileTypes] /\ sink'["download"] = NoFile
        /\ sink'["project"] = sink["project"] /\ sink'["cache"] = sink["cache"]
    BY <1>0, <1>6, CloseType DEF Files
  <2>5. TypeInv'
    BY <1>0, <1>1, <1>6, <2>2, <2>3, <2>4 DEF TypeInv
  <2>6. SlotInv'
    BY <1>6, <2>3 DEF ExportInv, FilesInv, SlotInv, Busy, Running
  <2>7. WriteInv' /\ PublishInv'
    BY <2>3 DEF WriteInv, PublishInv
  <2>8. FileInv'
    <3>1. Opened => sink["project"].data = <<>>
      BY DEF ExportInv, FilesInv, FileInv
    <3>2. Kind(ex.slot) = "download" /\ NoFile.writer = 0
      BY <1>6 DEF HoldsSlot, NoFile
    <3>3. Opened' = Opened
      BY <1>6 DEF Opened
    <3> QED  BY <1>6, <2>4, <3>1, <3>2, <3>3 DEF FileInv
  <2>9. SlotAside
    BY <1>6 DEF SlotAside, HoldsSlot
  <2>10. NoSettings => WaitAside
    BY <1>1, <1>6, WaitKept
  <2>11. CacheInv'
    BY <1>0, <1>1, <1>3, <2>3, <2>4, <2>9, <2>10, AsideCache DEF CacheAside, ExportInv
  <2> QED  BY <1>2, <2>5, <2>6, <2>7, <2>8, <2>11 DEF ExportInv, FilesInv
<1> QED  BY <1>4, <1>5, <1>6 DEF WriteFails

(* The file of a download is published, or that fails. *)
LEMMA DownloadPublished ==
  ASSUME ExportInv, Publishes
  PROVE  ExportInv'
<1> DEFINE e == handler.for
           file == sink["download"]
<1>0. /\ TypeInv /\ ex \in ExTypes /\ e \in Exports /\ inbound \in Seq(Messages)
      /\ file.data \in Seq(Exports) /\ "download" \in Files
  <2>1. TypeInv /\ ex \in ExTypes /\ e \in Exports /\ inbound \in Seq(Messages) /\ "download" \in Files
    BY DEF ExportInv, TypeInv, HandlerTypes, Files
  <2>2. file \in FileTypes
    BY <2>1 DEF TypeInv
  <2> QED  BY <2>1, <2>2 DEF FileTypes
<1>1. /\ prepared' = prepared /\ diagnosis' = diagnosis /\ failing' = failing
      /\ project' = project /\ resume' = resume /\ timer' = timer /\ caching' = caching
      /\ starts' = starts /\ kinds' = kinds /\ handler.at = "publish"
  BY DEF Publishes, diagnosisVars, projectVars, gameVars
<1>2. /\ Kind(e) = "download" /\ file.data = Copies(Chunks, e)
      /\ HoldsSlot(e) => ex.got = Chunks
  BY <1>1 DEF ExportInv, FilesInv, PublishInv
<1>3. Writing' = Writing /\ WaitAside /\ Opened' = Opened /\ Running' = Running
  BY <1>1, WritingKept, WaitKept DEF Opened, Running
<1>4. Opened => sink["project"].data = <<>>
  BY DEF ExportInv, FilesInv, FileInv
<1>5. ASSUME handler' = Idle, ex' = ex, inbound' \in Seq(Messages), pumping' \in BOOLEAN,
             \A i \in DOMAIN inbound' : \E j \in DOMAIN inbound : inbound'[i] = inbound[j],
             sink' \in [Files -> FileTypes], sink'["project"] = sink["project"],
             sink'["cache"] = sink["cache"], HoldsSlot(e) => sink' = sink,
             saved' \in [data : Seq(Exports), told : Exports], SavedInv'
      PROVE  ExportInv'
  <2>1. handler' \in HandlerTypes /\ handler'.at = "idle"
    BY <1>5, IdleType
  <2>2. TypeInv'
    BY <1>0, <1>1, <1>5, <2>1 DEF TypeInv
  <2>3. SlotInv'
    BY <1>3, <1>5, <2>1 DEF ExportInv, FilesInv, SlotInv, Busy
  <2>4. WriteInv' /\ PublishInv'
    BY <2>1 DEF WriteInv, PublishInv
  <2>5. FileInv'
    <3>1. ASSUME Kind(ex.slot) = "download", ex.phase = "transfer"
          PROVE  sink'["download"].data = Copies(ex.got, ex.slot)
      <4>1. ex.slot = e
        BY <1>1, <3>1 DEF ExportInv, FilesInv, SlotInv, Busy
      <4> QED  BY <1>2, <1>5, <4>1 DEF HoldsSlot
    <3>2. Kind(ex.slot) = "project" /\ sink["project"].writer # 0
            => sink["project"].data = Copies(ex.got, ex.slot)
      BY <1>1 DEF ExportInv, FilesInv, FileInv
    <3> HIDE DEF e, file
    <3> QED  BY <1>3, <1>4, <1>5, <3>1, <3>2 DEF FileInv
  <2>6. SlotAside
    <3>1. Underway' \subseteq Underway
      BY <1>0, <1>5, UnderwayShrinks
    <3> QED  BY <1>5, <3>1 DEF SlotAside
  <2>7. CacheInv'
    BY <1>0, <1>1, <1>3, <1>5, <2>1, <2>6, AsideCache DEF CacheAside, ExportInv
  <2> QED  BY <1>5, <2>2, <2>3, <2>4, <2>5, <2>7 DEF ExportInv, FilesInv
<1>6. CASE /\ sink' = Close("download") /\ handler' = Idle
           /\ saved' = [data |-> file.data, told |-> IF HoldsSlot(e) THEN e ELSE None]
           /\ ex' = IF HoldsSlot(e) THEN StartReplay(Free(ex)) ELSE ex
           /\ UNCHANGED <<inbound, pumping>>
  <2>1. /\ sink' \in [Files -> FileTypes] /\ sink'["download"] = NoFile
        /\ sink'["project"] = sink["project"] /\ sink'["cache"] = sink["cache"]
    BY <1>0, <1>6, CloseType DEF Files
  <2>2. SavedInv'
    <3> PICK holds \in BOOLEAN : holds <=> HoldsSlot(e)
      BY DEF HoldsSlot
    <3> PICK own \in BOOLEAN : own
      OBVIOUS
    <3> PICK data : data = file.data
      OBVIOUS
    <3>1. saved' = [data |-> IF own THEN data ELSE <<>>, told |-> IF holds THEN e ELSE None]
      BY <1>6
    <3>2. data = Copies(Chunks, e)
      BY <1>2
    <3> HIDE DEF e, file
    <3> QED  BY <3>1, <3>2, WholePublished
  <2>3. saved' \in [data : Seq(Exports), told : Exports]
    <3>1. None \in Exports
      BY DEF None, Exports, Kinds
    <3> QED  BY <1>0, <1>6, <3>1
  <2>4. CASE ~HoldsSlot(e)
    BY <1>0, <1>5, <1>6, <2>1, <2>2, <2>3, <2>4 DEF TypeInv
  <2>5. CASE HoldsSlot(e)
    <3> PICK x : x = Free(ex)
      OBVIOUS
    <3>1. x \in ExTypes /\ Frees(x)
      BY <1>0, FreeMoves
    <3>2. ex' \in ExTypes /\ (ex' = x \/ Takes(ex', "replay"))
      BY <1>0, <1>6, <2>5, <3>1, ReplayMoves
    <3>3. Frees(ex') \/ Takes(ex', "replay")
      BY <3>1, <3>2
    <3>4. handler' \in HandlerTypes /\ handler'.at \notin Busy \cup Renewing
      BY <1>6, IdleType DEF Busy
    <3>5. TypeInv'
      BY <1>0, <1>1, <1>6, <2>1, <2>3, <3>2, <3>4 DEF TypeInv
    <3>6. FilesInv'
      BY <1>3, <1>4, <2>1, <3>3, <3>4, GoneFiles
    <3>7. SlotAside
      BY <3>3, FreesKind DEF SlotAside, Takes
    <3>8. CacheInv'
      BY <1>0, <1>1, <1>3, <2>1, <3>4, <3>7, AsideCache DEF CacheAside, ExportInv
    <3> QED  BY <2>2, <3>5, <3>6, <3>8 DEF ExportInv
  <2> QED  BY <2>4, <2>5
<1>7. ASSUME NEW submitted \in BOOLEAN, Faults(inbound, submitted), UNCHANGED <<ex, sink, saved>>
      PROVE  ExportInv'
  <2>1. /\ inbound' \in Seq(Messages) /\ pumping' \in BOOLEAN /\ handler' = Idle
        /\ \A i \in DOMAIN inbound' : \E j \in DOMAIN inbound : inbound'[i] = inbound[j]
    BY <1>0, <1>7, FaultMessages
  <2>2. /\ SavedInv' /\ saved' \in [data : Seq(Exports), told : Exports]
        /\ sink' \in [Files -> FileTypes]
    BY <1>0, <1>1, <1>7 DEF ExportInv, SavedInv, NoSettings, TypeInv
  <2> HIDE DEF e, file
  <2> QED  BY <1>5, <1>7, <2>1, <2>2
<1> QED  BY <1>6, <1>7 DEF Publishes

(* What follows a write of the cache that has ended. *)
LEMMA CacheWriteEnds ==
  ASSUME ExportInv, NEW w \in Writing, TypeInv',
         inbound' = inbound, handler' = handler, project' = project,
         resume' = resume, timer' = timer, kinds' = kinds,
         sink'["download"] = sink["download"], sink'["project"] = sink["project"],
         Writing' = Writing \ {w},
         \/ HoldsSlot(w.for) /\ ex' = Request(ex)
         \/ ~HoldsSlot(w.for) /\ ex' = ex
         \/ ex' = Free(ex)
         \/ ex' = StartReplay(Free(ex)),
         NoSettings /\ Kind(ex'.slot) = "cache" /\ HoldsSlot(w.for) /\ ex' = Request(ex)
           /\ sink'["cache"].writer # 0
           => sink'["cache"].data = Copies(w.chunk + 1, w.for)
  PROVE  FilesInv' /\ CacheInv'
<1>0. TypeInv /\ ex \in ExTypes /\ ex.got \in Nat /\ w.chunk \in Nat
  BY DEF ExportInv, TypeInv, ExTypes, Writing, WriteTypes
<1>1. \/ HoldsSlot(w.for) /\ ex' = Request(ex) /\ Keeps(ex, ex')
      \/ ~HoldsSlot(w.for) /\ ex' = ex
      \/ Frees(ex')
      \/ Takes(ex', "replay")
  <2>1. CASE HoldsSlot(w.for) /\ ex' = Request(ex)
    BY <1>0, <2>1, RequestMoves
  <2>2. CASE ex' = Free(ex)
    BY <1>0, <2>2, FreeMoves
  <2>3. CASE ex' = StartReplay(Free(ex))
    <3> PICK x : x = Free(ex)
      OBVIOUS
    <3>1. x \in ExTypes /\ Frees(x)
      BY <1>0, FreeMoves
    <3>2. ex' = x \/ Takes(ex', "replay")
      BY <1>0, <2>3, <3>1, ReplayMoves
    <3> QED  BY <3>1, <3>2
  <2> QED  BY <2>1, <2>2, <2>3
<1>2. FilesInv'
  <2>1. SlotStep
    BY <1>1 DEF SlotStep, Keeps, Others
  <2>2. Aside
    BY <2>1 DEF Aside
  <2> QED  BY <1>0, <2>2, AsideFiles DEF ExportInv
<1>3. ASSUME NoSettings PROVE CacheInv'
  <2>1. Writing' = {}
    BY <1>3 DEF ExportInv, CacheInv
  <2>2. ~timer'
    BY <1>3 DEF ExportInv, CacheInv
  <2>3. /\ handler'.at \notin Renewing
        /\ \A d \in project'.calls : d.at = "cancelling" => Kind(d.victim) = "cache"
        /\ resume => Kind(ex.slot) # "cache"
    BY <1>3 DEF ExportInv, CacheInv
  <2>4. Kind(ex'.slot) = "cache" => HoldsSlot(w.for) /\ ex' = Request(ex) /\ Keeps(ex, ex')
    <3>1. ~HoldsSlot(w.for) => Kind(ex.slot) # "cache"
      BY <1>3 DEF ExportInv, CacheInv, HoldsSlot
    <3>2. Frees(ex') \/ Takes(ex', "replay") => Kind(ex'.slot) # "cache"
      BY FreesKind DEF Takes
    <3> QED  BY <1>1, <3>1, <3>2
  <2>5. resume' => Kind(ex'.slot) # "cache"
    BY <2>3, <2>4 DEF Keeps
  <2>6. ASSUME Kind(ex'.slot) = "cache"
        PROVE  /\ \A n \in Nat : <<ex'.slot, n>> \in Underway' => ex'.phase = "transfer" /\ n <= ex'.got
               /\ sink'["cache"].writer # 0 => sink'["cache"].data = Copies(ex'.got, ex'.slot)
    <3>1. /\ HoldsSlot(w.for) /\ ex' = Request(ex) /\ ex'.slot = ex.slot /\ ex'.got = ex.got
          /\ ex'.phase = ex.phase /\ ex.slot = w.for /\ Kind(ex.slot) = "cache"
      BY <2>4, <2>6 DEF Keeps, HoldsSlot
    <3>2. ex.got = w.chunk + 1
      BY <1>3, <3>1 DEF ExportInv, CacheInv
    <3>3. ex.phase = "transfer"
      <4>1. ex.got # 0
        BY <1>0, <3>2
      <4> QED  BY <3>1, <4>1 DEF ExportInv, FilesInv, SlotInv, FullProject
    <3>4. \A n \in Nat : <<ex.slot, n>> \in Underway => n <= ex.got
      BY <1>3, <3>1 DEF ExportInv, CacheInv
    <3>5. Underway' \subseteq Underway \cup {<<ex.slot, ex.got>>}
      <4>1. ex'.wants \subseteq ex.wants \cup {<<ex.slot, ex.got>>}
        BY <1>0, <3>1, RequestMoves
      <4> QED  BY <4>1 DEF Underway
    <3>6. \A n \in Nat : <<ex.slot, n>> \in Underway' => n <= ex.got
      BY <1>0, <3>4, <3>5
    <3>7. sink'["cache"].writer # 0 => sink'["cache"].data = Copies(w.chunk + 1, w.for)
      BY <1>3, <2>6, <3>1
    <3> QED  BY <3>1, <3>2, <3>3, <3>6, <3>7
  <2> QED  BY <2>1, <2>2, <2>3, <2>5, <2>6 DEF CacheInv
<1>4. CacheInv'
  BY <1>3 DEF CacheInv, NoSettings
<1> QED  BY <1>2, <1>4

(* A chunk of the compiled cache is written, and the last one publishes it. *)
LEMMA CacheWritten ==
  ASSUME ExportInv, NEW w \in caching, CacheWrites(w)
  PROVE  ExportInv'
<1> DEFINE e == w.for
           file == sink["cache"]
<1> PICK last \in BOOLEAN : last <=> w.chunk + 1 = Chunks
  <2>1. CASE w.chunk + 1 = Chunks
    BY <2>1
  <2>2. CASE w.chunk + 1 # Chunks
    BY <2>2
  <2> QED  BY <2>1, <2>2
<1> PICK writer : writer = IF w.chunk = 0 THEN NewWriter ELSE file.writer
  OBVIOUS
<1> PICK data : data = IF w.chunk = 0 THEN <<e>>
                       ELSE IF file.writer = w.writer THEN Append(file.data, e) ELSE file.data
  OBVIOUS
<1>0. /\ TypeInv /\ ex \in ExTypes /\ e \in Exports /\ w.chunk \in Nat /\ "cache" \in Files
      /\ file \in FileTypes /\ file.writer \in Nat /\ file.data \in Seq(Exports)
  <2>1. TypeInv /\ ex \in ExTypes /\ e \in Exports /\ w.chunk \in Nat /\ "cache" \in Files
    BY DEF ExportInv, TypeInv, WriteTypes, Files
  <2>2. file \in FileTypes
    BY <2>1 DEF TypeInv
  <2> QED  BY <2>1, <2>2 DEF FileTypes
<1>1. /\ inbound' = inbound /\ prepared' = prepared /\ handler' = handler
      /\ diagnosis' = diagnosis /\ failing' = failing /\ project' = project
      /\ resume' = resume /\ timer' = timer /\ starts' = starts /\ kinds' = kinds
      /\ w.at = "write"
  BY DEF CacheWrites, runtimeVars, diagnosisVars, projectVars, gameVars
<1>2. w \in Writing
  BY <1>1 DEF Writing
<1>3. pumping' \in BOOLEAN
  BY <1>0 DEF CacheWrites, Resumes, TypeInv
<1>4. writer \in Nat /\ data \in Seq(Exports)
  <2>1. NewWriter \in Nat
    BY <1>0, WriterFresh
  <2>2. <<e>> \in Seq(Exports) /\ Append(file.data, e) \in Seq(Exports)
    BY <1>0
  <2> QED  BY <1>0, <2>1, <2>2
<1>5. ASSUME NoSettings, w.chunk = 0 \/ (w.writer # 0 /\ file.writer # 0)
      PROVE  data = Copies(w.chunk + 1, e)
  <2>1. CASE w.chunk = 0
    <3>1. Copies(1, e) = <<e>>
      BY CopiesGrow
    <3> QED  BY <2>1, <3>1
  <2>2. CASE w.chunk # 0
    <3>1. file.writer = w.writer /\ file.data = Copies(w.chunk, e)
      BY <1>2, <1>5, <2>2 DEF ExportInv, CacheInv
    <3> QED  BY <1>0, <2>2, <3>1, CopiesGrow
  <2> QED  BY <2>1, <2>2
<1>6. ASSUME w.chunk = 0 \/ (w.writer # 0 /\ (last => file.writer # 0)),
             sink' = IF last THEN Close("cache") ELSE Open("cache", writer, data),
             saved' = IF last THEN [data |-> data, told |-> IF HoldsSlot(e) THEN e ELSE None]
                      ELSE saved,
             caching' = caching \ {w},
             ex' = IF ~HoldsSlot(e) THEN ex
                   ELSE IF last THEN StartReplay(Free(ex)) ELSE Request(ex)
      PROVE  ExportInv'
  <2>1. /\ sink' \in [Files -> FileTypes]
        /\ sink'["download"] = sink["download"] /\ sink'["project"] = sink["project"]
        /\ ~last => sink'["cache"].data = data /\ sink'["cache"].writer = writer
    <3>1. CASE last
      BY <1>0, <1>6, <3>1, CloseType DEF Files
    <3>2. CASE ~last
      <4>1. sink' = Open("cache", writer, data)
        BY <1>6, <3>2
      <4>2. /\ sink' \in [Files -> FileTypes]
            /\ sink'["cache"].writer = writer /\ sink'["cache"].data = data
            /\ \A g \in Files \ {"cache"} : sink'[g] = sink[g]
        <5>1. [writer |-> writer, data |-> data] \in FileTypes
          BY <1>4 DEF FileTypes
        <5>2. sink \in [Files -> FileTypes]
          BY <1>0 DEF TypeInv
        <5> HIDE DEF e, file
        <5> QED  BY <1>0, <4>1, <5>1, <5>2 DEF Open
      <4> QED  BY <4>2 DEF Files
    <3> QED  BY <3>1, <3>2
  <2>2. saved' \in [data : Seq(Exports), told : Exports]
    <3>1. None \in Exports
      BY DEF None, Exports, Kinds
    <3>2. CASE last
      BY <1>0, <1>4, <1>6, <3>1, <3>2
    <3>3. CASE ~last
      BY <1>0, <1>6, <3>3 DEF TypeInv
    <3> QED  BY <3>2, <3>3
  <2>3. caching' \subseteq WriteTypes /\ IsFiniteSet(caching')
    BY <1>0, <1>6, FS_RemoveElement DEF TypeInv
  <2>4. Writing' = Writing \ {w}
    BY <1>6 DEF Writing
  <2>5. ex' \in ExTypes
    <3> PICK x : x = Free(ex)
      OBVIOUS
    <3>1. x \in ExTypes
      BY <1>0, FreeMoves
    <3>2. StartReplay(x) \in ExTypes
      BY <1>0, <3>1, ReplayMoves
    <3>3. Request(ex) \in ExTypes
      BY <1>0, RequestMoves
    <3> QED  BY <1>0, <1>6, <3>2, <3>3
  <2>6. TypeInv'
    BY <1>0, <1>1, <1>3, <2>1, <2>2, <2>3, <2>5 DEF TypeInv
  <2>7. \/ HoldsSlot(w.for) /\ ex' = Request(ex)
        \/ ~HoldsSlot(w.for) /\ ex' = ex
        \/ ex' = Free(ex)
        \/ ex' = StartReplay(Free(ex))
    BY <1>6
  <2>8. ASSUME NoSettings, Kind(ex'.slot) = "cache", HoldsSlot(w.for), ex' = Request(ex),
               sink'["cache"].writer # 0
        PROVE  sink'["cache"].data = Copies(w.chunk + 1, w.for)
    <3>1. ~last
      <4> SUFFICES ASSUME last PROVE FALSE
        OBVIOUS
      <4>1. sink'["cache"] = NoFile
        BY <1>0, <1>6, CloseType
      <4> QED  BY <2>8, <4>1 DEF NoFile
    <3>2. w.chunk = 0 \/ (w.writer # 0 /\ file.writer # 0)
      BY <1>6, <2>1, <2>8, <3>1
    <3> QED  BY <1>5, <2>1, <2>8, <3>1, <3>2
  <2>9. FilesInv' /\ CacheInv'
    <3> HIDE DEF e, file
    <3> QED  BY <1>1, <1>2, <2>1, <2>4, <2>6, <2>7, <2>8, CacheWriteEnds
  <2>10. SavedInv'
    <3>1. CASE ~last
      BY <1>1, <1>6, <3>1 DEF ExportInv, SavedInv, NoSettings
    <3>2. CASE last /\ NoSettings
      <4>1. w.chunk + 1 = Chunks
        BY <3>2
      <4>2. data = Copies(Chunks, e)
        BY <1>5, <1>6, <3>2, <4>1
      <4> PICK holds \in BOOLEAN : holds <=> HoldsSlot(e)
        BY DEF HoldsSlot
      <4> PICK own \in BOOLEAN : own
        OBVIOUS
      <4>3. saved' = [data |-> IF own THEN data ELSE <<>>, told |-> IF holds THEN e ELSE None]
        BY <1>6, <3>2
      <4> HIDE DEF e, file
      <4> QED  BY <4>2, <4>3, WholePublished
    <3>3. CASE ~NoSettings
      BY <1>1, <3>3 DEF SavedInv, NoSettings
    <3> QED  BY <3>1, <3>2, <3>3
  <2> QED  BY <2>6, <2>9, <2>10 DEF ExportInv
<1>7. ASSUME caching' = IF HoldsSlot(e) THEN (caching \ {w}) \cup {[w EXCEPT !.at = "failed"]}
                        ELSE caching \ {w},
             ex' = IF HoldsSlot(e) THEN Free(ex) ELSE ex,
             UNCHANGED <<sink, saved>>
      PROVE  ExportInv'
  <2>1. sink' = sink /\ saved' = saved
    BY <1>7
  <2> PICK v : v = [w EXCEPT !.at = "failed"]
    OBVIOUS
  <2>2. v \in WriteTypes /\ v.at = "failed"
    BY <1>0 DEF TypeInv, WriteTypes
  <2>3. /\ caching' \subseteq WriteTypes /\ IsFiniteSet(caching')
        /\ Writing' = Writing \ {w}
    <3>1. IsFiniteSet(caching \ {w})
      BY <1>0, FS_RemoveElement DEF TypeInv
    <3>2. IsFiniteSet((caching \ {w}) \cup {v})
      BY <3>1, FS_AddElement
    <3>3. CASE HoldsSlot(e)
      BY <1>0, <1>7, <2>2, <3>2, <3>3 DEF TypeInv, Writing
    <3>4. CASE ~HoldsSlot(e)
      BY <1>0, <1>7, <3>1, <3>4 DEF TypeInv, Writing
    <3> QED  BY <3>3, <3>4
  <2>4. ex' \in ExTypes
    BY <1>0, <1>7, FreeMoves
  <2>5. TypeInv'
    BY <1>0, <1>1, <1>3, <2>1, <2>3, <2>4 DEF TypeInv
  <2>6. \/ ~HoldsSlot(w.for) /\ ex' = ex
        \/ HoldsSlot(w.for) /\ ex' = Free(ex)
    BY <1>7
  <2>7. ~(Kind(ex'.slot) = "cache" /\ HoldsSlot(w.for))
    <3>1. Frees(Free(ex))
      BY <1>0, FreeMoves
    <3>2. Kind(Free(ex).slot) = "none"
      BY <3>1, FreesKind
    <3> QED  BY <2>6, <3>2
  <2>8. FilesInv' /\ CacheInv'
    <3> HIDE DEF e, file
    <3> QED  BY <1>1, <1>2, <2>1, <2>3, <2>5, <2>6, <2>7, CacheWriteEnds
  <2>9. SavedInv'
    BY <1>1, <2>1 DEF ExportInv, SavedInv, NoSettings
  <2> QED  BY <2>5, <2>8, <2>9 DEF ExportInv
<1> QED
  <2>1. \/ /\ w.chunk = 0 \/ (w.writer # 0 /\ (last => file.writer # 0))
           /\ sink' = IF last THEN Close("cache") ELSE Open("cache", writer, data)
           /\ saved' = IF last THEN [data |-> data, told |-> IF HoldsSlot(e) THEN e ELSE None]
                       ELSE saved
           /\ caching' = caching \ {w}
           /\ ex' = IF ~HoldsSlot(e) THEN ex
                    ELSE IF last THEN StartReplay(Free(ex)) ELSE Request(ex)
        \/ /\ caching' = IF HoldsSlot(e) THEN (caching \ {w}) \cup {[w EXCEPT !.at = "failed"]}
                         ELSE caching \ {w}
           /\ ex' = IF HoldsSlot(e) THEN Free(ex) ELSE ex
           /\ UNCHANGED <<sink, saved>>
    BY DEF CacheWrites
  <2> QED  BY <1>6, <1>7, <2>1

-----------------------------------------------------------------------------
(* The invariant. *)

(* The files and the slot are empty at first. *)
LEMMA ExportInit ==
  ASSUME Init
  PROVE  ExportInv
<1>1. None \in Exports /\ Kind(None) = "none"
  BY DEF None, Exports, Kinds, Kind
<1>2. ex \in ExTypes
  <2>1. IsFiniteSet({})
    BY FS_EmptySet
  <2> QED  BY <1>1, <2>1 DEF Init, ExTypes, Phases
<1>3. sink \in [Files -> FileTypes]
  BY DEF Init, NoFile, FileTypes
<1>4. IsFiniteSet(caching) /\ caching \subseteq WriteTypes
  BY FS_EmptySet DEF Init
<1>5. saved \in [data : Seq(Exports), told : Exports]
  BY <1>1 DEF Init
<1>6. TypeInv
  <2>1. inbound \in Seq(Messages)
    BY DEF Init
  <2>2. handler \in HandlerTypes /\ failing \in [for : Exports, known : BOOLEAN]
    BY <1>1, IdleType DEF Init, NoFailing
  <2>3. /\ prepared = "nothing" /\ pumping \in BOOLEAN /\ diagnosis = "none"
        /\ resume \in BOOLEAN /\ starts \in Nat
    BY DEF Init
  <2>5. ProjectType(project)
    BY DEF Init, ProjectType
  <2>4. timer \in BOOLEAN
    <3>1. CASE "cache" \in kinds
      BY <3>1 DEF Init
    <3>2. CASE "cache" \notin kinds
      BY <3>2 DEF Init
    <3> QED  BY <3>1, <3>2
  <2> QED  BY <1>2, <1>3, <1>4, <1>5, <2>1, <2>2, <2>3, <2>4, <2>5 DEF TypeInv
<1>7. /\ ex.slot = None /\ ex.phase = "none" /\ ex.got = 0 /\ handler.at = "idle"
      /\ project.calls = {}
  BY IdleType DEF Init
<1>8. FilesInv
  BY <1>1, <1>7 DEF FilesInv, SlotInv, WriteInv, PublishInv, FileInv, Busy, Opened
<1>9. CacheInv
  <2>1. Writing = {} /\ resume = FALSE
    BY DEF Init, Writing
  <2> QED  BY <1>1, <1>7, <2>1 DEF CacheInv
<1>10. SavedInv
  BY DEF Init, SavedInv
<1> QED  BY <1>6, <1>8, <1>9, <1>10 DEF ExportInv

(* Every step keeps the invariant, unless calls of exportProjectFile overlap. *)
LEMMA ExportStep ==
  ASSUME ExportInv, [Next]_vars, ~crossed'
  PROVE  ExportInv'
<1>1. CASE UNCHANGED vars
  <2>1. UNCHANGED <<ex, inbound, prepared, pumping, handler, diagnosis, failing, project, resume,
                    timer, caching, sink, saved, starts, kinds>>
    BY <1>1 DEF vars, runtimeVars, diagnosisVars, projectVars, hostVars, gameVars
  <2>2. TypeInv'
    BY <2>1 DEF ExportInv, TypeInv
  <2>3. SlotInv'
    BY <2>1 DEF ExportInv, FilesInv, SlotInv, Running
  <2>4. WriteInv' /\ PublishInv'
    BY <2>1 DEF ExportInv, FilesInv, WriteInv, PublishInv, HoldsSlot, Opened
  <2>5. FileInv'
    BY <2>1 DEF ExportInv, FilesInv, FileInv, HoldsSlot, Opened
  <2>6. CacheInv'
    BY <2>1 DEF ExportInv, CacheInv, Writing, Underway, NoSettings, Waiting
  <2>7. SavedInv'
    BY <2>1 DEF ExportInv, SavedInv, NoSettings
  <2> QED  BY <2>2, <2>3, <2>4, <2>5, <2>6, <2>7 DEF ExportInv, FilesInv
<1>2. CASE Handles
  BY <1>2, MessageHandled
<1>3. CASE HostSteps
  <2>1. CASE Picks \/ Discards \/ Writes \/ Publishes \/ WriteFails
    BY <2>1, FilePicked, DownloadDiscarded, ChunkWritten, DownloadPublished, ChunkNotWritten
  <2>2. CASE Saves \/ Renews \/ DiagnosisFails \/ ProjectFails \/ CacheFails
    BY <2>2, ArchiveSaved, CacheRenewal, DiagnosisEnded, ProjectEnded, CacheFailed
  <2>3. CASE Stages \/ Retries
    BY <2>3, ExportStaged, ExportRetried
  <2>4. ASSUME NEW w \in caching, CacheWrites(w) \/ CacheDropped(w) PROVE ExportInv'
    BY <2>4, CacheWritten, CacheWriteDropped
  <2>5. ASSUME NEW c \in project.calls, WithdrawsCache(c) \/ AbortsCache(c) \/ UndoesProject(c)
        PROVE  ExportInv'
    BY <2>5, CacheWithdrawn, CacheAborted, ProjectUndone
  <2> QED  BY <1>3, <2>1, <2>2, <2>3, <2>4, <2>5 DEF HostSteps
<1>4. CASE RuntimeSteps
  <2>1. ASSUME NEW e \in ex.asked, NEW t \in {"ready", "ineligible", "rejected", "preparing"},
               Answers(e, t)
        PROVE  ExportInv'
    BY <2>1, AnswerSent
  <2>2. ASSUME NEW e \in ex.asked, SendFails(e) PROVE ExportInv'
    BY <2>2, SendFailed
  <2>3. ASSUME NEW w \in ex.wants, HandsOver(w) PROVE ExportInv'
    BY <2>3, ChunkSent
  <2>4. ASSUME NEW t \in {"built", "unbuilt"}, Builds(t) PROVE ExportInv'
    BY <2>4, CacheBuilt
  <2> QED  BY <1>4, <2>1, <2>2, <2>3, <2>4 DEF RuntimeSteps
<1>5. CASE BeginsCache
  BY <1>5, CacheBegins
<1>6. CASE Dialogs
  BY <1>6, ProjectDeclined, ProjectAccepted DEF Dialogs
<1>7. CASE PlayerSteps
  BY <1>7, DownloadBegins, DiagnosisBegins, ProjectOpens, ProjectCancelled, CacheIsRenewed
     DEF PlayerSteps
<1> QED  BY <1>1, <1>2, <1>3, <1>4, <1>5, <1>6, <1>7 DEF Next

(* Calls that have overlapped are not forgotten. *)
LEMMA CrossedStays ==
  ASSUME crossed, [Next]_vars
  PROVE  crossed'
<1> USE DEF projectVars
<1>1. CASE UNCHANGED vars
  BY <1>1 DEF vars
<1>2. CASE Handles
  BY <1>2 DEF Handles, HandleReady, HandleRejected, HandleBuilt, HandleChunk
<1>3. CASE HostSteps
  BY <1>3 DEF HostSteps, Picks, Discards, Writes, Publishes, WriteFails, Saves, Renews,
              CacheWrites, CacheDropped, DiagnosisFails, ProjectFails, CacheFails, WithdrawsCache,
              AbortsCache, UndoesProject, Stages, Retries
<1>4. CASE RuntimeSteps
  BY <1>4 DEF RuntimeSteps, Answers, SendFails, HandsOver, Builds
<1>5. CASE BeginsCache \/ Dialogs
  BY <1>5 DEF BeginsCache, Dialogs, Declines, Accepts
<1>6. CASE PlayerSteps
  BY <1>6 DEF PlayerSteps, BeginsDownload, BeginsDiagnosis, OpensProject, CancelsProject,
              RenewsCache
<1> QED  BY <1>1, <1>2, <1>3, <1>4, <1>5, <1>6 DEF Next

(* The invariant holds until calls overlap. *)
LEMMA ExportInvariant == Spec => [](crossed \/ ExportInv)
<1>1. Init => ExportInv
  BY ExportInit
<1>2. (crossed \/ ExportInv) /\ [Next]_vars => (crossed \/ ExportInv)'
  BY ExportStep, CrossedStays
<1> QED  BY <1>1, <1>2, PTL DEF Spec

(* A file that is published holds one whole transfer, and an export is
   reported as saved only with its own file, for any number of chunks and of
   exports and whatever is cancelled while it is written; as long as calls of
   exportProjectFile do not overlap and no cache is renewed. *)
THEOREM SavedAlwaysWhole == Spec => []SavedIsWhole
<1>1. crossed \/ ExportInv => SavedIsWhole
  BY DEF ExportInv, SavedInv, SavedIsWhole, NoSettings, Copies
<1> QED  BY <1>1, ExportInvariant, PTL
=============================================================================
