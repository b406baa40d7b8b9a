--------------------------- MODULE WorkspaceProofs --------------------------
(***************************************************************************)
(* What is proved of the components of a workspace: worker spawns, the     *)
(* sync of homes, the capture of chats and the terminals.                  *)
(***************************************************************************)
EXTENDS MCWorkspace, NumberLemmas, FiniteSetTheorems, SequenceTheorems, TLAPS

----------------------------------------------------------------------------
(***************************************************************************)
(* What WorkerSpawn promises of checkouts and names, for any number of      *)
(* workers, suffixes and interleavings, where users resume and rename while *)
(* no spawn runs, resume no checkout in use, and a spawn does not fail       *)
(* after its launch.  The invariant WorkInv says which spawn or agent uses  *)
(* which worktree: two of them never the same.                              *)
(***************************************************************************)

SpawnerType == [pc: {"idle", "names", "create", "prepare", "name free",
                     "launch", "save", "clean up", "over", "dead"},
                taken: SUBSET NameSuffixes, name: 0..MaxSuffix, new: BOOLEAN]
WorkerType == [name: 0..MaxSuffix, tree: 0..MaxSuffix, tmux: BOOLEAN,
               rec: {"none", "live", "ended"}]

(* Of a spawner record s and a session record k.                            *)

\* The spawn has made, or was given, its worktree.
Holds(s) == s.pc \in {"prepare", "name free", "launch", "save", "clean up"}
Early(s) == s.pc \in {"idle", "names", "create"}
Runs(s) == s.pc \notin {"idle", "over", "dead"}

Target(s, k) == IF s.new THEN s.name ELSE k.tree

\* The worktree is the spawn's, until it is only the agent's.
Uses(s, k) == k.tmux \/ Holds(s)
Used(s, k) == IF Holds(s) THEN Target(s, k) ELSE k.tree

\* Before the launch there is no agent, before the save there is no record.
SpawnSound(s, k) ==
    /\ Early(s) => k = NoWorker /\ s.new
    /\ s.pc = "create" \/ Holds(s) => s.name \in NameSuffixes
    /\ k.rec # "none" => k.name \in NameSuffixes
    /\ s.pc = "clean up" => s.new
    /\ Runs(s) => k.rec = "none"
    /\ Holds(s) /\ s.pc # "save" => ~k.tmux
    /\ Holds(s) /\ s.pc # "save" /\ s.new => k.tree = 0
    /\ s.pc = "save" => k.tree = Target(s, k) /\ k.name = s.name

(* Of two workers, and of a worktree.                                       *)

Apart(s, k, t, j) == Uses(s, k) /\ Uses(t, j) => Used(s, k) # Used(t, j)

\* A resume runs alone.
Alone(s, t) == Runs(s) /\ ~s.new => ~Runs(t)

LiveApart(k, j) == k.rec = "live" /\ j.rec = "live" => k.name # j.name

\* The name of a spawn that has checked it is no live session's.
FreshName(s, j) == s.pc \in {"launch", "save"} /\ j.rec = "live" => j.name # s.name

Accounts(s, k, n) ==
    \/ k.tree = n
    \/ s.new /\ s.name = n /\ (Holds(s) \/ s.pc = "dead")

WorkInv ==
    /\ trees \subseteq NameSuffixes /\ views \subseteq NameSuffixes
    /\ spawner \in [Workers -> SpawnerType] /\ worker \in [Workers -> WorkerType]
    /\ \A w \in Workers : SpawnSound(spawner[w], worker[w])
    /\ \A w \in Workers : Uses(spawner[w], worker[w]) => Used(spawner[w], worker[w]) \in trees
    /\ \A w \in Workers : \A v \in Workers \ {w} :
         /\ Apart(spawner[w], worker[w], spawner[v], worker[v])
         /\ Alone(spawner[w], spawner[v])
         /\ LiveApart(worker[w], worker[v])
         /\ FreshName(spawner[w], worker[v])
    /\ \A n \in trees : \E w \in Workers : Accounts(spawner[w], worker[w], n)

----------------------------------------------------------------------------

LEMMA InitWorkInv == WorkInit => WorkInv
<1> SUFFICES ASSUME WorkInit PROVE WorkInv
  OBVIOUS
<1> USE WorkerAssumption DEF WorkInit, NameSuffixes
<1>1. 0 \in 0..MaxSuffix
  OBVIOUS
<1>2. NoSpawner \in SpawnerType /\ NoSpawner.pc = "idle" /\ NoSpawner.new
  BY <1>1 DEF NoSpawner, SpawnerType
<1>3. NoWorker \in WorkerType /\ ~NoWorker.tmux /\ NoWorker.rec = "none"
  BY <1>1 DEF NoWorker, WorkerType
<1>4. SpawnSound(NoSpawner, NoWorker) /\ ~Uses(NoSpawner, NoWorker)
  BY <1>2, <1>3 DEF SpawnSound, Early, Holds, Runs, Uses
<1> QED  BY <1>2, <1>3, <1>4 DEF WorkInv, Apart, Alone, LiveApart, FreshName, Runs

\* A step of w alone, which leaves it with s and k: what has to be shown of it.
LEMMA OneMoves ==
  ASSUME WorkInv, NEW w \in Workers, NEW s \in SpawnerType, NEW k \in WorkerType,
         spawner' = [spawner EXCEPT ![w] = s], worker' = [worker EXCEPT ![w] = k],
         UNCHANGED views, trees' \subseteq NameSuffixes,
         SpawnSound(s, k),
         Uses(s, k) => Used(s, k) \in trees',
         \A v \in Workers \ {w} :
           /\ Uses(spawner[v], worker[v]) => Used(spawner[v], worker[v]) \in trees'
           /\ Apart(s, k, spawner[v], worker[v])
           /\ Alone(s, spawner[v]) /\ Alone(spawner[v], s)
           /\ LiveApart(k, worker[v])
           /\ FreshName(s, worker[v]) /\ FreshName(spawner[v], k),
         \A n \in trees' : \/ Accounts(s, k, n)
                           \/ n \in trees /\ ~Accounts(spawner[w], worker[w], n)
  PROVE  WorkInv'
<1>1. \A v \in Workers : spawner'[v] = (IF v = w THEN s ELSE spawner[v])
                      /\ worker'[v] = (IF v = w THEN k ELSE worker[v])
  BY DEF WorkInv
<1>2. spawner' \in [Workers -> SpawnerType] /\ worker' \in [Workers -> WorkerType]
  BY DEF WorkInv
<1>3. \A v \in Workers : SpawnSound(spawner'[v], worker'[v])
  BY <1>1 DEF WorkInv
<1>4. \A v \in Workers : Uses(spawner'[v], worker'[v]) => Used(spawner'[v], worker'[v]) \in trees'
  BY <1>1
<1>5. ASSUME NEW u \in Workers, NEW v \in Workers \ {u}
      PROVE  /\ Apart(spawner'[u], worker'[u], spawner'[v], worker'[v])
             /\ Alone(spawner'[u], spawner'[v])
             /\ LiveApart(worker'[u], worker'[v])
             /\ FreshName(spawner'[u], worker'[v])
  <2>1. CASE u = w
    BY <1>1, <2>1
  <2>2. CASE v = w
    BY <1>1, <2>2 DEF Apart, LiveApart
  <2>3. CASE u # w /\ v # w
    BY <1>1, <2>3 DEF WorkInv
  <2> QED  BY <2>1, <2>2, <2>3
<1>6. ASSUME NEW n \in trees' PROVE \E v \in Workers : Accounts(spawner'[v], worker'[v], n)
  <2>1. CASE Accounts(s, k, n)
    BY <1>1, <2>1
  <2>2. CASE n \in trees /\ ~Accounts(spawner[w], worker[w], n)
    BY <1>1, <2>2 DEF WorkInv
  <2> QED  BY <2>1, <2>2
<1> QED  BY <1>2, <1>3, <1>4, <1>5, <1>6 DEF WorkInv, SpawnSound, Uses, Used, Target, Holds,
      Early, Runs, Apart, Alone, LiveApart, FreshName, Accounts

----------------------------------------------------------------------------
(* The steps.                                                               *)

\* What is known of a worker before it moves.
LEMMA Known ==
  ASSUME WorkInv, NEW w \in Workers
  PROVE  /\ spawner[w] \in SpawnerType /\ worker[w] \in WorkerType
         /\ SpawnSound(spawner[w], worker[w])
         /\ Uses(spawner[w], worker[w]) => Used(spawner[w], worker[w]) \in trees
         /\ trees \subseteq NameSuffixes
         /\ \A v \in Workers \ {w} :
              /\ spawner[v] \in SpawnerType /\ worker[v] \in WorkerType
              /\ SpawnSound(spawner[v], worker[v])
              /\ Uses(spawner[v], worker[v]) => Used(spawner[v], worker[v]) \in trees
              /\ Apart(spawner[w], worker[w], spawner[v], worker[v])
              /\ Alone(spawner[w], spawner[v]) /\ Alone(spawner[v], spawner[w])
              /\ LiveApart(worker[w], worker[v])
              /\ FreshName(spawner[w], worker[v]) /\ FreshName(spawner[v], worker[w])
BY DEF WorkInv

LEMMA EmptyTypes ==
  /\ NoSpawner \in SpawnerType /\ NoSpawner.name = 0 /\ NoSpawner.new
  /\ \A pc \in {"idle", "over", "dead"} :
       /\ [NoSpawner EXCEPT !.pc = pc] \in SpawnerType
       /\ [NoSpawner EXCEPT !.pc = pc].pc = pc
       /\ [NoSpawner EXCEPT !.pc = pc].name = 0
       /\ [NoSpawner EXCEPT !.pc = pc].new
  /\ NoWorker \in WorkerType /\ NoWorker.name = 0 /\ NoWorker.tree = 0
  /\ ~NoWorker.tmux /\ NoWorker.rec = "none"
<1>1. 0 \in 0..MaxSuffix /\ 0 \notin NameSuffixes
  BY WorkerAssumption DEF NameSuffixes
<1>2. NoSpawner \in SpawnerType /\ NoSpawner.name = 0 /\ NoSpawner.new
  BY <1>1 DEF NoSpawner, SpawnerType
<1>3. NoWorker \in WorkerType /\ NoWorker.name = 0 /\ NoWorker.tree = 0
      /\ ~NoWorker.tmux /\ NoWorker.rec = "none"
  BY <1>1 DEF NoWorker, WorkerType
<1> HIDE DEF NoSpawner
<1>4. ASSUME NEW pc \in {"idle", "over", "dead"}
      PROVE  /\ [NoSpawner EXCEPT !.pc = pc] \in SpawnerType
             /\ [NoSpawner EXCEPT !.pc = pc].pc = pc
             /\ [NoSpawner EXCEPT !.pc = pc].name = 0
             /\ [NoSpawner EXCEPT !.pc = pc].new
  BY <1>2 DEF SpawnerType
<1> QED  BY <1>2, <1>3, <1>4

\* The spawn ends and leaves its worktree to the agent, if it has one at all.
LEMMA OverKeepsInv ==
  ASSUME WorkInv, NEW w \in Workers, Runs(spawner[w]), Over(w, "over"), UNCHANGED views,
         \/ UNCHANGED <<trees, worker>> /\ ~(Holds(spawner[w]) /\ spawner[w].new)
         \/ UNCHANGED worker /\ Holds(spawner[w]) /\ spawner[w].pc # "save" /\ spawner[w].new
              /\ trees' = trees \ {Tree(w)}
  PROVE  WorkInv'
<1> DEFINE s == [NoSpawner EXCEPT !.pc = "over"]
           k == worker[w]
<1>1. s \in SpawnerType /\ s.pc = "over" /\ s.name = 0 /\ s.new
  BY EmptyTypes
<1>2. spawner' = [spawner EXCEPT ![w] = s] /\ worker' = [worker EXCEPT ![w] = k]
  BY DEF Over, WorkInv
<1> HIDE DEF s
<1>k. /\ spawner[w] \in SpawnerType /\ k \in WorkerType
      /\ SpawnSound(spawner[w], k)
      /\ Uses(spawner[w], k) => Used(spawner[w], k) \in trees
      /\ trees \subseteq NameSuffixes
  BY Known
<1> HIDE DEF k
<1>3. SpawnSound(s, k)
  BY <1>1, <1>k DEF SpawnSound, Early, Holds, Runs
<1>4. Uses(s, k) => Used(s, k) \in trees'
  BY <1>1, <1>k DEF SpawnSound, Uses, Used, Holds, Runs, Target, k
<1>5. ASSUME NEW v \in Workers \ {w}
      PROVE  /\ Uses(spawner[v], worker[v]) => Used(spawner[v], worker[v]) \in trees'
             /\ Apart(s, k, spawner[v], worker[v])
             /\ Alone(s, spawner[v]) /\ Alone(spawner[v], s)
             /\ LiveApart(k, worker[v])
             /\ FreshName(s, worker[v]) /\ FreshName(spawner[v], k)
  BY <1>1, <1>k, Known DEF SpawnSound, Holds, Runs, Uses, Used, Target, Tree,
       Apart, Alone, LiveApart, FreshName, k
<1>6. ASSUME NEW n \in trees'
      PROVE  Accounts(s, k, n) \/ (n \in trees /\ ~Accounts(spawner[w], worker[w], n))
  <2>1. n \in trees /\ spawner[w].pc # "dead"
    BY DEF Runs
  <2>2. CASE ~(Holds(spawner[w]) /\ spawner[w].new)
    BY <2>1, <2>2 DEF Accounts, k
  <2>3. CASE Holds(spawner[w]) /\ spawner[w].new
    <3>1. n # spawner[w].name
      BY <2>3 DEF Tree
    <3> QED  BY <2>1, <3>1 DEF Accounts, k
  <2> QED  BY <2>2, <2>3
<1>7. trees' \subseteq NameSuffixes /\ UNCHANGED views
  BY <1>k
<1> QED  BY <1>1, <1>2, <1>k, <1>3, <1>4, <1>5, <1>6, <1>7, OneMoves DEF k

\* A step that takes no worktree into use, and lets none go.
LEMMA UsesNoMore ==
  ASSUME WorkInv, NEW w \in Workers, NEW s \in SpawnerType, NEW k \in WorkerType,
         spawner' = [spawner EXCEPT ![w] = s], worker' = [worker EXCEPT ![w] = k],
         UNCHANGED <<trees, views>>,
         SpawnSound(s, k),
         Uses(s, k) => Uses(spawner[w], worker[w]) /\ Used(s, k) = Used(spawner[w], worker[w]),
         Runs(s) => Runs(spawner[w]) /\ s.new = spawner[w].new,
         \A v \in Workers \ {w} :
           LiveApart(k, worker[v]) /\ FreshName(s, worker[v]) /\ FreshName(spawner[v], k),
         \A n \in trees : Accounts(spawner[w], worker[w], n) => Accounts(s, k, n)
  PROVE  WorkInv'
<1>1. Uses(s, k) => Used(s, k) \in trees'
  BY Known
<1>2. ASSUME NEW v \in Workers \ {w}
      PROVE  /\ Uses(spawner[v], worker[v]) => Used(spawner[v], worker[v]) \in trees'
             /\ Apart(s, k, spawner[v], worker[v])
             /\ Alone(s, spawner[v]) /\ Alone(spawner[v], s)
             /\ LiveApart(k, worker[v])
             /\ FreshName(s, worker[v]) /\ FreshName(spawner[v], k)
  BY Known DEF Apart, Alone
<1>3. \A n \in trees' : \/ Accounts(s, k, n)
                        \/ n \in trees /\ ~Accounts(spawner[w], worker[w], n)
  OBVIOUS
<1>4. trees' \subseteq NameSuffixes /\ UNCHANGED views
  BY Known
<1> QED  BY <1>1, <1>2, <1>3, <1>4, OneMoves

\* The same of a step of the spawner alone, before the launch.
LEMMA SpawnerMoves ==
  ASSUME WorkInv, NEW w \in Workers, NEW pc,
         \/ spawner[w].pc = "prepare" /\ pc \in {"name free", "clean up"}
         \/ spawner[w].pc = "name free" /\ pc = "clean up"
         \/ /\ spawner[w].pc = "name free" /\ pc = "launch"
            /\ spawner[w].name \notin LiveNames
         \/ spawner[w].pc = "launch" /\ pc = "clean up",
         pc = "clean up" => spawner[w].new,
         Moves(w, pc), UNCHANGED <<trees, views, worker>>
  PROVE  WorkInv'
<1> DEFINE t == spawner[w]
           s == [t EXCEPT !.pc = pc]
           k == worker[w]
<1>k. t \in SpawnerType /\ k \in WorkerType /\ SpawnSound(t, k)
  BY Known
<1>1. spawner' = [spawner EXCEPT ![w] = s] /\ worker' = [worker EXCEPT ![w] = k]
  BY DEF Moves, WorkInv
<1>m. /\ pc \in {"name free", "launch", "clean up"} /\ pc = "clean up" => t.new
      /\ t.pc \in {"prepare", "name free", "launch"}
      /\ pc = "launch" => t.name \notin LiveNames
  OBVIOUS
<1> HIDE DEF t
<1>2. s \in SpawnerType /\ s.pc = pc /\ s.name = t.name /\ s.new = t.new
  BY <1>k, <1>m DEF SpawnerType
<1> HIDE DEF s
<1> HIDE DEF k
<1>3. SpawnSound(s, k)
  BY <1>k, <1>m, <1>2 DEF SpawnSound, Early, Holds, Runs
<1>4. /\ Uses(s, k) => Uses(t, k) /\ Used(s, k) = Used(t, k)
      /\ Runs(s) => Runs(t) /\ s.new = t.new
  BY <1>m, <1>2 DEF Uses, Used, Target, Holds, Runs
<1>5. ASSUME NEW v \in Workers \ {w}
      PROVE  LiveApart(k, worker[v]) /\ FreshName(s, worker[v]) /\ FreshName(spawner[v], k)
  <2>1. LiveApart(k, worker[v]) /\ FreshName(spawner[v], k)
    BY Known DEF k
  <2>2. FreshName(s, worker[v])
    BY <1>m, <1>2 DEF FreshName, LiveNames
  <2> QED  BY <2>1, <2>2
<1>6. \A n \in trees : Accounts(t, k, n) => Accounts(s, k, n)
  BY <1>m, <1>2 DEF Accounts, Holds
<1> QED  BY <1>1, <1>2, <1>k, <1>3, <1>4, <1>5, <1>6, UsesNoMore DEF t, k

LEMMA RaisesKeepsInv ==
  ASSUME WorkInv, NEW w \in Workers, Raises(w), UNCHANGED <<trees, views, worker>>,
         spawner[w].pc \in {"prepare", "name free", "launch"}
  PROVE  WorkInv'
<1>1. CASE spawner[w].new
  BY <1>1, SpawnerMoves DEF Raises, CleansTree
<1>2. CASE ~spawner[w].new
  BY <1>2, OverKeepsInv DEF Raises, CleansTree, Runs
<1> QED  BY <1>1, <1>2

LEMMA ReadNamesKeepsInv ==
  ASSUME WorkInv, QuietUsers, NEW w \in Workers, ReadNames(w)
  PROVE  WorkInv'
<1> DEFINE t == spawner[w]
           s == [t EXCEPT !.pc = "names", !.taken = LiveNames]
           k == worker[w]
<1>k. t \in SpawnerType /\ k \in WorkerType /\ SpawnSound(t, k) /\ t.pc = "idle"
  BY Known DEF ReadNames, In
<1>1. LiveNames \subseteq NameSuffixes
  BY DEF LiveNames, WorkInv, SpawnSound
<1>2. /\ spawner' = [spawner EXCEPT ![w] = s] /\ worker' = [worker EXCEPT ![w] = k]
      /\ UNCHANGED <<trees, views>>
  BY DEF ReadNames, WorkInv
<1>q. \A v \in Workers : Runs(spawner[v]) => spawner[v].new
  BY DEF ReadNames, Spawning, Runs
<1> HIDE DEF t
<1>3. s \in SpawnerType /\ s.pc = "names" /\ s.new = t.new /\ s.name = t.name
  BY <1>k, <1>1 DEF SpawnerType
<1> HIDE DEF s, k
<1>4. SpawnSound(s, k) /\ ~Holds(s) /\ s.new
  BY <1>k, <1>3 DEF SpawnSound, Early, Holds, Runs, NoWorker
<1>5. ~Uses(s, k) /\ trees' \subseteq NameSuffixes
  <2>1. ~NoWorker.tmux
    BY EmptyTypes
  <2> QED  BY <1>k, <1>2, <1>4, <2>1, Known DEF Uses, SpawnSound, Early
<1>6. ASSUME NEW v \in Workers \ {w}
      PROVE  /\ Uses(spawner[v], worker[v]) => Used(spawner[v], worker[v]) \in trees'
             /\ Apart(s, k, spawner[v], worker[v])
             /\ Alone(s, spawner[v]) /\ Alone(spawner[v], s)
             /\ LiveApart(k, worker[v])
             /\ FreshName(s, worker[v]) /\ FreshName(spawner[v], k)
  <2>1. LiveApart(k, worker[v]) /\ FreshName(spawner[v], k)
        /\ (Uses(spawner[v], worker[v]) => Used(spawner[v], worker[v]) \in trees')
    BY Known, <1>2 DEF k
  <2>2. FreshName(s, worker[v])
    BY <1>3 DEF FreshName
  <2>3. Alone(s, spawner[v]) /\ Alone(spawner[v], s)
    BY <1>4, <1>q DEF Alone
  <2>4. Apart(s, k, spawner[v], worker[v])
    BY <1>5 DEF Apart
  <2> QED  BY <2>1, <2>2, <2>3, <2>4
<1>7. ASSUME NEW n \in trees' PROVE n \in trees /\ (Accounts(t, k, n) => Accounts(s, k, n))
  BY <1>2, <1>k, <1>3 DEF Accounts, Holds
<1> QED  BY <1>2, <1>k, <1>3, <1>4, <1>5, <1>6, <1>7, OneMoves DEF t, k

\* Of the intervals from one to the numbers of S one is least, inclusion being
\* well-founded on finite sets.
LEMMA LeastName ==
  ASSUME NEW n \in Nat, NEW S \in SUBSET (1..n), S # {}
  PROVE  \E i \in S : \A j \in S : i <= j
<1> DEFINE T == {1..i : i \in S}
<1>1. T # {} /\ \A i \in S : 1..i \in T
  OBVIOUS
<1>2. \A t \in T : \E i \in S : t = 1..i
  OBVIOUS
<1>3. T \subseteq FiniteSubsetsOf(1..n)
  <2>1. \A i \in S : 1..i \subseteq 1..n /\ IsFiniteSet(1..i)
    BY FS_Interval
  <2> QED  BY <1>2, <2>1 DEF FiniteSubsetsOf
<1> HIDE DEF T
<1>4. PICK x \in T : \A y \in T : <<y, x>> \notin StrictSubsetOrdering(1..n)
  BY <1>1, <1>3, FS_StrictSubsetOrderingWellFounded, WFMin
<1>5. PICK i \in S : x = 1..i
  BY <1>2
<1>6. ASSUME NEW j \in S, j < i PROVE FALSE
  <2>1. 1..j \subseteq 1..i /\ 1..i \subseteq 1..n /\ 1..j # 1..i
    <3>1. i \in 1..i /\ i \notin 1..j
      BY <1>6
    <3> QED  BY <1>6, <3>1
  <2>2. <<1..j, 1..i>> \in StrictSubsetOrdering(1..n)
    BY <2>1 DEF StrictSubsetOrdering
  <2> QED  BY <1>1, <1>4, <1>5, <2>2
<1> QED  BY <1>6

LEMMA NextNameKeepsInv ==
  ASSUME WorkInv, NEW w \in Workers, NextName(w)
  PROVE  WorkInv'
<1> DEFINE free == {n \in NameSuffixes : Free(n, spawner[w].taken)}
<1>1. CASE free = {}
  BY <1>1, OverKeepsInv DEF NextName, In, Runs, Holds
<1>2. CASE free # {}
  <2> DEFINE t == spawner[w]
             name == LeastOf(free)
  <2>1. name \in NameSuffixes
    <3>1. \E n \in free : \A k \in free : n <= k
      BY <1>2, WorkerAssumption, LeastName DEF NameSuffixes
    <3> QED  BY <3>1 DEF LeastOf
  <2> DEFINE s == [t EXCEPT !.pc = "create", !.taken = {}, !.name = name]
             k == worker[w]
  <2>2. /\ spawner' = [spawner EXCEPT ![w] = s] /\ worker' = [worker EXCEPT ![w] = k]
        /\ UNCHANGED <<trees, views>>
    BY <1>2 DEF NextName, WorkInv
  <2>k. t \in SpawnerType /\ k \in WorkerType /\ SpawnSound(t, k) /\ t.pc = "names"
        /\ name \in NameSuffixes
    BY <2>1, Known DEF NextName, In
  <2> HIDE DEF t, name
  <2>3. s \in SpawnerType /\ s.pc = "create" /\ s.new = t.new /\ s.name \in NameSuffixes
    <3> DEFINE none == {}
    <3>1. name \in 0..MaxSuffix /\ none \in SUBSET NameSuffixes
      BY <2>k, WorkerAssumption DEF NameSuffixes
    <3>2. s = [t EXCEPT !.pc = "create", !.taken = none, !.name = name]
      OBVIOUS
    <3> HIDE DEF none, s
    <3> QED  BY <2>k, <3>1, <3>2 DEF SpawnerType
  <2> HIDE DEF s, k
  <2>4. SpawnSound(s, k)
    BY <2>k, <2>3 DEF SpawnSound, Early, Holds, Runs
  <2>5. /\ Uses(s, k) => Uses(t, k) /\ Used(s, k) = Used(t, k)
        /\ Runs(s) => Runs(t) /\ s.new = t.new
    BY <2>k, <2>3 DEF Uses, Used, Holds, Runs
  <2>6. \A v \in Workers \ {w} :
          LiveApart(k, worker[v]) /\ FreshName(s, worker[v]) /\ FreshName(spawner[v], k)
    BY <2>3, Known DEF FreshName, k
  <2>7. \A n \in trees : Accounts(t, k, n) => Accounts(s, k, n)
    BY <2>k, <2>3 DEF Accounts, Holds
  <2> QED  BY <2>2, <2>k, <2>3, <2>4, <2>5, <2>6, <2>7, UsesNoMore DEF t, k
<1> QED  BY <1>1, <1>2

\* A worktree that git makes was nobody's.
LEMMA CreateTreeKeepsInv ==
  ASSUME WorkInv, NEW w \in Workers, CreateTree(w)
  PROVE  WorkInv'
<1> DEFINE t == spawner[w]
           s == [t EXCEPT !.pc = "prepare"]
           k == worker[w]
<1>k. t \in SpawnerType /\ k \in WorkerType /\ SpawnSound(t, k) /\ t.pc = "create"
  BY Known DEF CreateTree, In
<1>1. CASE Over(w, "over") /\ UNCHANGED trees
  BY <1>1, <1>k, OverKeepsInv DEF CreateTree, Runs, Holds
<1>2. CASE t.name \notin trees /\ trees' = trees \cup {t.name} /\ Moves(w, "prepare")
  <2>1. /\ spawner' = [spawner EXCEPT ![w] = s] /\ worker' = [worker EXCEPT ![w] = k]
        /\ UNCHANGED views
    BY <1>2 DEF CreateTree, Moves, WorkInv
  <2>n. t.name \notin trees /\ trees' = trees \cup {t.name}
    BY <1>2
  <2> HIDE DEF t
  <2>2. s \in SpawnerType /\ s.pc = "prepare" /\ s.name = t.name /\ s.new = t.new
    BY <1>k DEF SpawnerType
  <2> HIDE DEF s, k
  <2>3. ~k.tmux /\ k.tree = 0 /\ k.rec = "none" /\ t.new /\ t.name \in NameSuffixes
    BY <1>k, EmptyTypes DEF SpawnSound, Early
  <2>4. SpawnSound(s, k)
    BY <2>2, <2>3 DEF SpawnSound, Early, Holds, Runs
  <2>5. Used(s, k) = t.name
    BY <2>2, <2>3 DEF Used, Target, Holds
  <2>6. ASSUME NEW v \in Workers \ {w}
        PROVE  /\ Uses(spawner[v], worker[v]) => Used(spawner[v], worker[v]) \in trees'
               /\ Apart(s, k, spawner[v], worker[v])
               /\ Alone(s, spawner[v]) /\ Alone(spawner[v], s)
               /\ LiveApart(k, worker[v])
               /\ FreshName(s, worker[v]) /\ FreshName(spawner[v], k)
    <3>1. Uses(spawner[v], worker[v]) => Used(spawner[v], worker[v]) \in trees
      BY Known
    <3>2. Alone(t, spawner[v]) /\ Alone(spawner[v], t) /\ LiveApart(k, worker[v])
      BY Known DEF t, k
    <3>3. FreshName(s, worker[v]) /\ FreshName(spawner[v], k)
      BY <2>2, <2>3 DEF FreshName
    <3>4. Alone(s, spawner[v]) /\ Alone(spawner[v], s)
      BY <1>k, <2>2, <3>2 DEF Alone, Runs
    <3>5. Apart(s, k, spawner[v], worker[v])
      BY <2>n, <2>5, <3>1 DEF Apart
    <3> QED  BY <2>n, <3>1, <3>2, <3>3, <3>4, <3>5
  <2>7. ASSUME NEW n \in trees'
        PROVE  Accounts(s, k, n) \/ (n \in trees /\ ~Accounts(t, k, n))
    BY <1>k, <2>n, <2>2, <2>3 DEF Accounts, Holds
  <2>8. trees' \subseteq NameSuffixes
    BY <2>n, <2>3, Known
  <2> QED  BY <1>k, <2>n, <2>1, <2>2, <2>4, <2>5, <2>6, <2>7, <2>8, OneMoves DEF t, k
<1> QED  BY <1>1, <1>2, <1>k DEF CreateTree, t

\* A worktree that is used again is nobody's at the time.
LEMMA ResumeKeepsInv ==
  ASSUME WorkInv, QuietUsers, ResumesVacant,
         NEW w \in Workers, NEW old \in Workers, ResumeWorker(w, old)
  PROVE  WorkInv'
<1> DEFINE t == spawner[w]
           before == worker[old]
           s == [NoSpawner EXCEPT !.pc = "prepare", !.name = before.name, !.new = FALSE]
           k == [worker[w] EXCEPT !.tree = before.tree]
<1>k. t.pc = "idle" /\ worker[w] = NoWorker /\ worker[w] \in WorkerType
  BY Known DEF ResumeWorker, In, SpawnSound, Early
<1>o. /\ before.name \in NameSuffixes /\ before.tree \in trees
      /\ trees \subseteq NameSuffixes
  BY Known DEF ResumeWorker, SpawnSound
<1>v. \A v \in Workers : ~Runs(spawner[v]) /\ (worker[v].tmux => worker[v].tree # before.tree)
  BY DEF ResumeWorker, NoSpawn, Spawning, Runs
<1>1. /\ spawner' = [spawner EXCEPT ![w] = s] /\ worker' = [worker EXCEPT ![w] = k]
      /\ UNCHANGED <<trees, views>>
  BY DEF ResumeWorker, WorkInv
<1> HIDE DEF before
<1>2. s \in SpawnerType /\ s.pc = "prepare" /\ s.name = before.name /\ ~s.new
  <2>1. NoSpawner \in SpawnerType /\ before.name \in 0..MaxSuffix
    BY <1>o, EmptyTypes, WorkerAssumption DEF NameSuffixes
  <2> QED  BY <2>1 DEF SpawnerType
<1>3. k \in WorkerType /\ k.tree = before.tree /\ ~k.tmux /\ k.rec = "none"
  <2>0. before.tree \in NameSuffixes
    BY <1>o
  <2>1. before.tree \in 0..MaxSuffix
    BY <2>0, WorkerAssumption DEF NameSuffixes
  <2>2. k \in WorkerType /\ k.tree = before.tree /\ k.tmux = worker[w].tmux /\ k.rec = worker[w].rec
    BY <1>k, <2>1 DEF WorkerType
  <2> QED  BY <1>k, <2>2, EmptyTypes
<1> HIDE DEF s, k
<1>4. SpawnSound(s, k) /\ Used(s, k) = before.tree
  BY <1>2, <1>3, <1>o DEF SpawnSound, Early, Holds, Runs, Used, Target
<1>5. ASSUME NEW v \in Workers \ {w}
      PROVE  /\ Uses(spawner[v], worker[v]) => Used(spawner[v], worker[v]) \in trees'
             /\ Apart(s, k, spawner[v], worker[v])
             /\ Alone(s, spawner[v]) /\ Alone(spawner[v], s)
             /\ LiveApart(k, worker[v])
             /\ FreshName(s, worker[v]) /\ FreshName(spawner[v], k)
  <2>1. Uses(spawner[v], worker[v]) => Used(spawner[v], worker[v]) \in trees'
    BY <1>1, Known
  <2>2. Apart(s, k, spawner[v], worker[v])
    BY <1>4, <1>v DEF Apart, Uses, Used, Holds, Runs
  <2>3. Alone(s, spawner[v]) /\ Alone(spawner[v], s)
    BY <1>v DEF Alone
  <2>4. LiveApart(k, worker[v]) /\ FreshName(s, worker[v]) /\ FreshName(spawner[v], k)
    BY <1>2, <1>3 DEF LiveApart, FreshName
  <2> QED  BY <2>1, <2>2, <2>3, <2>4
<1>6. ASSUME NEW n \in trees' PROVE n \in trees /\ ~Accounts(t, worker[w], n)
  <2>1. NoWorker.tree = 0 /\ n # 0 /\ n \in trees
    BY <1>1, <1>o, EmptyTypes DEF NameSuffixes
  <2> QED  BY <1>k, <2>1 DEF Accounts, Holds
<1> QED  BY <1>1, <1>2, <1>3, <1>o, <1>4, <1>5, <1>6, OneMoves DEF t

LEMMA PrepareKeepsInv ==
  ASSUME WorkInv, NEW w \in Workers, Prepare(w) \/ RequireNameFree(w)
  PROVE  WorkInv'
<1>1. CASE Prepare(w)
  BY <1>1, SpawnerMoves, RaisesKeepsInv DEF Prepare, In
<1>2. CASE RequireNameFree(w)
  BY <1>2, SpawnerMoves, RaisesKeepsInv DEF RequireNameFree, In, NameTaken
<1> QED  BY <1>1, <1>2

\* The agent takes over the worktree and the name of its spawn.
LEMMA LaunchKeepsInv ==
  ASSUME WorkInv, NEW w \in Workers, LaunchWorker(w)
  PROVE  WorkInv'
<1> DEFINE t == spawner[w]
           j == worker[w]
           s == [t EXCEPT !.pc = "save"]
           k == [j EXCEPT !.name = t.name, !.tree = Target(t, j), !.tmux = TRUE]
<1>k. /\ t \in SpawnerType /\ j \in WorkerType /\ SpawnSound(t, j) /\ t.pc = "launch"
      /\ Used(t, j) \in trees /\ trees \subseteq NameSuffixes
  BY Known DEF LaunchWorker, In, Uses, Holds
<1>1. CASE Raises(w) /\ UNCHANGED worker
  BY <1>1, <1>k, RaisesKeepsInv DEF LaunchWorker
<1>2. CASE ~(Raises(w) /\ UNCHANGED worker)
  <2>1. /\ spawner' = [spawner EXCEPT ![w] = s] /\ worker' = [worker EXCEPT ![w] = k]
        /\ UNCHANGED <<trees, views>>
    BY <1>2 DEF LaunchWorker, Moves, Tree, Target, WorkInv
  <2>f. \A v \in Workers \ {w} : FreshName(t, worker[v]) /\ FreshName(spawner[v], j)
    BY Known
  <2> HIDE DEF t, j
  <2>2. s \in SpawnerType /\ s.pc = "save" /\ s.name = t.name /\ s.new = t.new
    BY <1>k DEF SpawnerType
  <2>t. Target(t, j) = Used(t, j) /\ Target(t, j) \in NameSuffixes /\ t.name \in NameSuffixes
    BY <1>k DEF Used, Holds, SpawnSound
  <2>3. k \in WorkerType /\ k.name = t.name /\ k.tree = Target(t, j) /\ k.tmux /\ k.rec = j.rec
    <3>1. t.name \in 0..MaxSuffix /\ Target(t, j) \in 0..MaxSuffix
      BY <2>t, WorkerAssumption DEF NameSuffixes
    <3> QED  BY <1>k, <3>1 DEF WorkerType
  <2> HIDE DEF s, k
  <2>4. SpawnSound(s, k) /\ j.rec = "none"
    BY <1>k, <2>2, <2>3, <2>t DEF SpawnSound, Early, Holds, Runs, Target
  <2>5. /\ Uses(t, j) /\ Used(s, k) = Used(t, j)
        /\ Runs(t) /\ s.new = t.new
    BY <1>k, <2>2, <2>3, <2>t DEF Uses, Used, Target, Holds, Runs
  <2>6. ASSUME NEW v \in Workers \ {w}
        PROVE  LiveApart(k, worker[v]) /\ FreshName(s, worker[v]) /\ FreshName(spawner[v], k)
    BY <1>k, <2>f, <2>2, <2>3, <2>4 DEF LiveApart, FreshName
  <2>7. ASSUME NEW n \in trees, Accounts(t, j, n) PROVE Accounts(s, k, n)
    <3>1. CASE s.new /\ s.name = n
      BY <2>2, <3>1 DEF Accounts, Holds
    <3>2. CASE j.tree = n
      <4>1. n # 0
        BY <1>k DEF NameSuffixes
      <4>2. ~t.new /\ k.tree = n
        BY <1>k, <2>3, <3>2, <4>1 DEF SpawnSound, Holds, Target
      <4> QED  BY <4>2 DEF Accounts
    <3> QED  BY <2>2, <2>7, <3>1, <3>2 DEF Accounts
  <2> QED  BY <2>1, <1>k, <2>2, <2>3, <2>4, <2>5, <2>6, <2>7, UsesNoMore DEF t, j
<1> QED  BY <1>1, <1>2

\* The session is recorded: no other spawn about to be has its name.
LEMMA SaveKeepsInv ==
  ASSUME WorkInv, ~LateFailures, NEW w \in Workers, SaveWorker(w)
  PROVE  WorkInv'
<1> DEFINE t == spawner[w]
           j == worker[w]
           s == [NoSpawner EXCEPT !.pc = "over"]
           k == [j EXCEPT !.rec = "live"]
<1>k. t \in SpawnerType /\ j \in WorkerType /\ SpawnSound(t, j) /\ t.pc = "save"
  BY Known DEF SaveWorker, In
<1>1. /\ spawner' = [spawner EXCEPT ![w] = s] /\ worker' = [worker EXCEPT ![w] = k]
      /\ UNCHANGED <<trees, views>>
  BY DEF SaveWorker, Over, WorkInv
<1>v. \A v \in Workers \ {w} :
        /\ spawner[v] \in SpawnerType /\ SpawnSound(spawner[v], worker[v])
        /\ Apart(t, j, spawner[v], worker[v])
        /\ Alone(t, spawner[v]) /\ Alone(spawner[v], t)
        /\ FreshName(t, worker[v])
  BY Known
<1> HIDE DEF t, j
<1>2. s \in SpawnerType /\ s.pc = "over"
  BY EmptyTypes
<1>3. k \in WorkerType /\ k.name = t.name /\ k.tree = Target(t, j) /\ k.tmux = j.tmux /\ k.rec = "live"
      /\ k.name \in NameSuffixes
  BY <1>k DEF WorkerType, SpawnSound, Holds
<1> HIDE DEF s, k
<1>4. SpawnSound(s, k)
  BY <1>2, <1>3 DEF SpawnSound, Early, Holds, Runs
<1>5. (Uses(s, k) => Uses(t, j) /\ Used(s, k) = Used(t, j)) /\ ~Runs(s)
  BY <1>k, <1>2, <1>3 DEF Uses, Used, Holds, Runs
<1>6. ASSUME NEW v \in Workers \ {w}
      PROVE  LiveApart(k, worker[v]) /\ FreshName(s, worker[v]) /\ FreshName(spawner[v], k)
  <2>1. LiveApart(k, worker[v]) /\ FreshName(s, worker[v])
    BY <1>k, <1>v, <1>2, <1>3 DEF LiveApart, FreshName
  <2>2. ASSUME spawner[v].pc \in {"launch", "save"} PROVE spawner[v].name # t.name
    <3>1. t.new /\ spawner[v].new
      BY <1>k, <1>v, <2>2 DEF Alone, Runs, SpawnerType
    <3> QED  BY <1>k, <1>v, <2>2, <3>1 DEF Apart, Uses, Used, Target, Holds
  <2> QED  BY <1>3, <2>1, <2>2 DEF FreshName
<1>7. ASSUME NEW n \in trees, Accounts(t, j, n) PROVE Accounts(s, k, n)
  BY <1>k, <1>3, <1>7 DEF Accounts, SpawnSound, Target
<1> QED  BY <1>1, <1>k, <1>2, <1>3, <1>4, <1>5, <1>6, <1>7, UsesNoMore DEF t, j

LEMMA CleanUpKeepsInv ==
  ASSUME WorkInv, NEW w \in Workers, CleanUp(w)
  PROVE  WorkInv'
<1>1. spawner[w].pc = "clean up" /\ spawner[w].new
  BY Known DEF CleanUp, In, SpawnSound
<1> QED  BY <1>1, OverKeepsInv DEF CleanUp, Runs, Holds

\* A session changes, its spawn does not.
LEMMA SessionKeepsInv ==
  ASSUME WorkInv, QuietUsers, NEW w \in Workers,
         WorkerEnds(w) \/ \E n \in NameSuffixes : RenameWorker(w, n)
  PROVE  WorkInv'
<1> DEFINE t == spawner[w]
           j == worker[w]
<1>k. t \in SpawnerType /\ j \in WorkerType /\ SpawnSound(t, j)
  BY Known
<1>t. spawner' = [spawner EXCEPT ![w] = t] /\ UNCHANGED <<trees, views>>
  BY DEF WorkerEnds, RenameWorker, WorkInv
<1>v. \A v \in Workers \ {w} :
        LiveApart(j, worker[v]) /\ FreshName(t, worker[v]) /\ FreshName(spawner[v], j)
  BY Known
<1>1. CASE WorkerEnds(w)
  <2> DEFINE end == IF j.rec = "live" THEN "ended" ELSE j.rec
             k == [j EXCEPT !.tmux = FALSE, !.rec = end]
  <2>1. worker' = [worker EXCEPT ![w] = k] /\ j.tmux
    BY <1>1 DEF WorkerEnds, WorkInv
  <2> HIDE DEF t, j
  <2>2. k \in WorkerType /\ k.name = j.name /\ k.tree = j.tree /\ ~k.tmux /\ k.rec = end
    BY <1>k DEF WorkerType
  <2> HIDE DEF k
  <2>3. SpawnSound(t, k)
    BY <1>k, <2>1, <2>2, EmptyTypes DEF SpawnSound, Target, Early, Runs
  <2>4. Uses(t, k) => Uses(t, j) /\ Used(t, k) = Used(t, j)
    BY <2>1, <2>2 DEF Uses, Used, Target
  <2>5. \A v \in Workers \ {w} :
          LiveApart(k, worker[v]) /\ FreshName(t, worker[v]) /\ FreshName(spawner[v], k)
    BY <1>v, <2>2 DEF LiveApart, FreshName
  <2>6. \A n \in trees : Accounts(t, j, n) => Accounts(t, k, n)
    BY <2>2 DEF Accounts
  <2> QED  BY <1>k, <1>t, <2>1, <2>2, <2>3, <2>4, <2>5, <2>6, UsesNoMore DEF t, j
<1>2. CASE \E n \in NameSuffixes : RenameWorker(w, n)
  <2>n. PICK n \in NameSuffixes : RenameWorker(w, n)
    BY <1>2
  <2> DEFINE k == [j EXCEPT !.name = n]
  <2>1. worker' = [worker EXCEPT ![w] = k] /\ j.rec = "live" /\ n \notin LiveNames
    BY <2>n DEF RenameWorker, NameTaken
  <2>q. \A v \in Workers : ~Runs(spawner[v])
    BY <2>n DEF RenameWorker, NoSpawn, Spawning, Runs
  <2>r. ~Runs(t)
    BY <2>q
  <2> HIDE DEF t, j
  <2>2. k \in WorkerType /\ k.name = n /\ k.tree = j.tree /\ k.tmux = j.tmux /\ k.rec = j.rec
    <3>1. n \in 0..MaxSuffix
      BY WorkerAssumption DEF NameSuffixes
    <3> QED  BY <1>k, <3>1 DEF WorkerType
  <2> HIDE DEF k
  <2>3. SpawnSound(t, k)
    BY <1>k, <2>1, <2>2, <2>r, EmptyTypes DEF SpawnSound, Early, Runs, Holds
  <2>4. Uses(t, k) => Uses(t, j) /\ Used(t, k) = Used(t, j)
    BY <2>2 DEF Uses, Used, Target
  <2>5. \A v \in Workers \ {w} :
          LiveApart(k, worker[v]) /\ FreshName(t, worker[v]) /\ FreshName(spawner[v], k)
    BY <1>v, <2>1, <2>2, <2>q DEF LiveApart, FreshName, LiveNames, Runs
  <2>6. \A m \in trees : Accounts(t, j, m) => Accounts(t, k, m)
    BY <2>2 DEF Accounts
  <2> QED  BY <1>k, <1>t, <2>1, <2>2, <2>3, <2>4, <2>5, <2>6, UsesNoMore DEF t, j
<1> QED  BY <1>1, <1>2

LEMMA PruneKeepsInv ==
  ASSUME WorkInv, NEW w \in Workers, PruneTree(w)
  PROVE  WorkInv'
<1> DEFINE s == spawner[w]
           k == worker[w]
<1>1. /\ spawner' = [spawner EXCEPT ![w] = s] /\ worker' = [worker EXCEPT ![w] = k]
      /\ UNCHANGED views /\ trees' = trees \ {k.tree}
  BY DEF PruneTree, WorkInv
<1>2. s \in SpawnerType /\ k \in WorkerType /\ SpawnSound(s, k) /\ trees \subseteq NameSuffixes
  BY Known
<1>3. ASSUME NEW v \in Workers, Uses(spawner[v], worker[v])
      PROVE  Used(spawner[v], worker[v]) \in trees'
  <2>1. worker[v].tmux \/ Spawning(v)
    BY <1>3 DEF Uses, Holds, Spawning
  <2>2. k.tree \notin {worker[v].tree, Tree(v)}
    BY <2>1 DEF PruneTree
  <2>3. Used(spawner[v], worker[v]) \in trees
    BY <1>3 DEF WorkInv
  <2> QED  BY <1>1, <2>2, <2>3 DEF Used, Target, Tree
<1>4. ASSUME NEW v \in Workers \ {w}
      PROVE  /\ Apart(s, k, spawner[v], worker[v])
             /\ Alone(s, spawner[v]) /\ Alone(spawner[v], s)
             /\ LiveApart(k, worker[v])
             /\ FreshName(s, worker[v]) /\ FreshName(spawner[v], k)
  BY Known
<1>5. ASSUME NEW n \in trees'
      PROVE  Accounts(s, k, n) \/ (n \in trees /\ ~Accounts(s, k, n))
  BY <1>1
<1>6. trees' \subseteq NameSuffixes
  BY <1>1, <1>2
<1> HIDE DEF s, k
<1> QED  BY <1>1, <1>2, <1>3, <1>4, <1>5, <1>6, OneMoves DEF s, k

\* A worktree whose spawn has died stays, and stays its own.
LEMMA SpawnerDiesKeepsInv ==
  ASSUME WorkInv, ~LateFailures, NEW w \in Workers, SpawnerDies(w)
  PROVE  WorkInv'
<1> DEFINE t == spawner[w]
           none == {}
           s == [t EXCEPT !.pc = "dead", !.taken = none]
           k == worker[w]
<1>k. /\ t \in SpawnerType /\ k \in WorkerType /\ SpawnSound(t, k)
      /\ Runs(t) /\ t.pc # "save"
  BY Known DEF SpawnerDies, In, Spawning, Runs
<1>1. /\ spawner' = [spawner EXCEPT ![w] = s] /\ worker' = [worker EXCEPT ![w] = k]
      /\ UNCHANGED <<trees, views>>
  BY DEF SpawnerDies, WorkInv
<1>v. \A v \in Workers \ {w} : LiveApart(k, worker[v]) /\ FreshName(spawner[v], k)
  BY Known
<1> HIDE DEF t
<1>2. s \in SpawnerType /\ s.pc = "dead" /\ s.name = t.name /\ s.new = t.new
  <2>1. none \in SUBSET NameSuffixes
    OBVIOUS
  <2> HIDE DEF none
  <2> QED  BY <1>k, <2>1 DEF SpawnerType
<1> HIDE DEF s, k
<1>3. SpawnSound(s, k)
  BY <1>k, <1>2 DEF SpawnSound, Early, Holds, Runs
<1>4. ~Uses(s, k) /\ ~Runs(s)
  BY <1>k, <1>2, EmptyTypes DEF Uses, Holds, SpawnSound, Early, Runs, SpawnerType
<1>5. \A v \in Workers \ {w} :
        LiveApart(k, worker[v]) /\ FreshName(s, worker[v]) /\ FreshName(spawner[v], k)
  BY <1>v, <1>2 DEF FreshName
<1>6. \A n \in trees : Accounts(t, k, n) => Accounts(s, k, n)
  BY <1>2 DEF Accounts
<1> QED  BY <1>1, <1>k, <1>2, <1>3, <1>4, <1>5, <1>6, UsesNoMore DEF t, k

LEMMA WorkNextKeepsInv ==
  ASSUME QuietUsers, ResumesVacant, ~LateFailures, WorkInv, [WorkNext]_wVars
  PROVE  WorkInv'
<1>1. CASE UNCHANGED wVars
  BY <1>1 DEF wVars, WorkInv
<1>2. CASE WorkNext
  BY <1>2, ReadNamesKeepsInv, NextNameKeepsInv, CreateTreeKeepsInv, ResumeKeepsInv,
     PrepareKeepsInv, LaunchKeepsInv, SaveKeepsInv, CleanUpKeepsInv, SessionKeepsInv,
     PruneKeepsInv, SpawnerDiesKeepsInv DEF WorkNext
<1> QED  BY <1>1, <1>2

LEMMA WorkInvHolds ==
  ASSUME QuietUsers, ResumesVacant, ~LateFailures
  PROVE  WorkSpec => []WorkInv
<1>1. WorkInv /\ [WorkNext]_wVars => WorkInv'
  BY WorkNextKeepsInv
<1> QED  BY <1>1, InitWorkInv, PTL DEF WorkSpec

----------------------------------------------------------------------------
(* What follows of every state.                                             *)

\* Where a session is resumed only while its worktree is vacant, nobody resumes or
\* renames beside a spawn, and no spawn fails after its launch, workers keep apart: an
\* agent has a checkout to itself as long as it runs, no checkout is without an owner,
\* no two live workers have one name (service.py:101-146, worktree.py:113-121).
THEOREM WorkersAreApart ==
  ASSUME QuietUsers, ResumesVacant, ~LateFailures
  PROVE  WorkSpec => []WorkersKeepApart
<1>1. WorkInv => OneAgentPerCheckout /\ CheckoutOutlivesAgent
  <2> SUFFICES ASSUME WorkInv PROVE OneAgentPerCheckout /\ CheckoutOutlivesAgent
    OBVIOUS
  <2>1. ASSUME NEW w \in Workers, worker[w].tmux
        PROVE  Uses(spawner[w], worker[w]) /\ Used(spawner[w], worker[w]) = worker[w].tree
    BY <2>1, Known DEF Uses, Used, SpawnSound
  <2>2. OneAgentPerCheckout
    BY <2>1 DEF WorkInv, Apart, OneAgentPerCheckout
  <2>3. CheckoutOutlivesAgent
    BY <2>1 DEF WorkInv, CheckoutOutlivesAgent
  <2> QED  BY <2>2, <2>3
<1>2. WorkInv => NoStrayTree
  BY DEF WorkInv, Accounts, Holds, NoStrayTree
<1>3. WorkInv => WorkerNamesUnique
  BY DEF WorkInv, LiveApart, WorkerNamesUnique
<1>4. WorkInv => WorkersKeepApart
  BY <1>1, <1>2, <1>3 DEF WorkersKeepApart
<1> QED  BY <1>4, WorkInvHolds, PTL

----------------------------------------------------------------------------
(***************************************************************************)
(* HomeSync.  Of the sync s of home h, where d is what the places hold.     *)
(***************************************************************************)

SyncType == [pc: {"idle", "get", "verdict", "put", "write", "ended"},
             push: BOOLEAN, at: 0..Len(Keys) + 1,
             got: Value \cup {Absent, Torn}, clean: BOOLEAN]

From(h, s) == IF s.push THEN h ELSE Remote
Into(h, s) == IF s.push THEN Remote ELSE h

Carries(s) == s.pc \in {"verdict", "put", "write"}
Overwrites(s) == s.pc \in {"put", "write"}

\* The sync is through with key k, and has lost nothing of it.
Done(h, s, d, k) ==
    LET from == d[From(h, s)][k]  to == d[Into(h, s)][k]
    IN  from = Absent \/ to = from \/ (k \in SyncedRecords /\ to.clock > from.clock)

\* What is to be overwritten is not newer; a sync that nobody disturbed is through
\* with the keys it has passed, carries what the source holds, and overwrites no key
\* it has passed.
SyncSound(h, s, d) ==
    /\ s.pc # "idle" => s.at \in 1..Len(Keys) + 1
    /\ Carries(s) => s.at \in DOMAIN Keys
    /\ s.pc = "ended" => s.clean /\ s.at = Len(Keys) + 1
    /\ s.got # Absent <=> Carries(s)
    /\ s.pc = "put" /\ Keys[s.at] \in SyncedRecords =>
         d[Into(h, s)][Keys[s.at]].clock <= s.got.clock
    /\ s.clean /\ s.pc # "idle" =>
         \A n \in DOMAIN Keys : n < s.at => Done(h, s, d, Keys[n])
    /\ s.clean /\ Carries(s) => s.got = d[From(h, s)][Keys[s.at]]
    /\ s.clean /\ Overwrites(s) => \A n \in DOMAIN Keys : n < s.at => Keys[n] # Keys[s.at]

\* Two syncs never overwrite the same key of the same place.
SyncsApart(h, s, g, t) ==
    Overwrites(s) /\ Overwrites(t) => Into(h, s) # Into(g, t) \/ Keys[s.at] # Keys[t.at]

SyncInv ==
    /\ data \in [Places -> [KeySet -> Value \cup {Absent, Torn}]]
    /\ sync \in [Homes -> SyncType] /\ edits \in 0..MaxEdits
    /\ \A h \in Homes : SyncSound(h, sync[h], data)
    /\ \A h \in Homes : \A g \in Homes \ {h} : SyncsApart(h, sync[h], g, sync[g])

LEMMA SyncFacts ==
  /\ Len(Keys) \in Nat /\ DOMAIN Keys = 1..Len(Keys)
  /\ \A n \in DOMAIN Keys : Keys[n] \in KeySet
  /\ SyncedRecords \subseteq KeySet
  /\ \A h \in Homes : h # Remote /\ h \in Places /\ Remote \in Places
  /\ NoSync \in SyncType /\ NoSync.pc = "idle" /\ NoSync.got = Absent
  /\ Torn \notin Value /\ Absent \notin Value /\ Torn # Absent
  /\ Torn.clock = 0 /\ Absent.clock = 0
  /\ \A v \in Value \cup {Absent, Torn} : v.clock \in 0..MaxClock
<1> USE SyncAssumption
<1>1. Len(Keys) \in Nat /\ DOMAIN Keys = 1..Len(Keys)
  OBVIOUS
<1>2. \A n \in DOMAIN Keys : Keys[n] \in KeySet
  BY DEF KeySet
<1>3. SyncedRecords \subseteq KeySet
  BY DEF KeySet
<1>4. \A h \in Homes : h # Remote /\ h \in Places /\ Remote \in Places
  BY DEF Places
<1>5. NoSync \in SyncType /\ NoSync.pc = "idle" /\ NoSync.got = Absent
  BY <1>1 DEF NoSync, SyncType
<1>6. Torn \notin Value /\ Absent \notin Value /\ Torn # Absent /\ Torn.clock = 0 /\ Absent.clock = 0
  BY DEF Torn, Absent, Value
<1>7. \A v \in Value \cup {Absent, Torn} : v.clock \in 0..MaxClock
  BY <1>6 DEF Value
<1> QED  BY <1>1, <1>2, <1>3, <1>4, <1>5, <1>6, <1>7

LEMMA NoSyncIsSound == \A h, d : SyncSound(h, NoSync, d)
BY SyncFacts DEF SyncSound, Carries, Overwrites

\* A step of the sync of h alone, with the data left as it is.
LEMMA SyncMoves ==
  ASSUME SyncInv, NEW h \in Homes, NEW s \in SyncType, sync' = [sync EXCEPT ![h] = s],
         UNCHANGED <<data, edits>>, SyncSound(h, s, data),
         \A g \in Homes \ {h} : SyncsApart(h, s, g, sync[g])
  PROVE  SyncInv'
<1>1. \A g \in Homes : sync'[g] = IF g = h THEN s ELSE sync[g]
  BY DEF SyncInv
<1>2. sync' \in [Homes -> SyncType]
  BY DEF SyncInv
<1>3. \A g \in Homes : SyncSound(g, sync'[g], data')
  BY <1>1 DEF SyncInv
<1>4. ASSUME NEW f \in Homes, NEW g \in Homes \ {f} PROVE SyncsApart(f, sync'[f], g, sync'[g])
  <2>1. CASE f = h
    BY <1>1, <2>1
  <2>2. CASE g = h
    BY <1>1, <2>2 DEF SyncsApart
  <2>3. CASE f # h /\ g # h
    BY <1>1, <2>3 DEF SyncInv
  <2> QED  BY <2>1, <2>2, <2>3
<1>5. data' = data /\ edits' = edits
  OBVIOUS
<1> QED  BY <1>2, <1>3, <1>4, <1>5 DEF SyncInv, SyncSound, SyncsApart, Done, From, Into, Carries, Overwrites

\* A change of key k of place p leaves sound what it soils or does not touch.
LEMMA SoiledStaysSound ==
  ASSUME SyncInv, NEW h \in Homes, NEW p \in Places, NEW k \in KeySet,
         NEW v \in Value \cup {Absent, Torn}, data' = [data EXCEPT ![p][k] = v],
         ~(Overwrites(sync[h]) /\ Into(h, sync[h]) = p /\ Keys[sync[h].at] = k)
  PROVE  /\ Soiled(p)[h] \in SyncType
         /\ SyncSound(h, Soiled(p)[h], data')
         /\ \A g \in Homes \ {h}, t \in SyncType :
              SyncsApart(h, sync[h], g, t) => SyncsApart(h, Soiled(p)[h], g, t)
         /\ Soiled(p)[h] \in {sync[h], NoSync, [sync[h] EXCEPT !.clean = FALSE]}
<1>1. sync[h] \in SyncType /\ SyncSound(h, sync[h], data)
  BY DEF SyncInv
<1>2. \A q \in Places, j \in KeySet : data'[q][j] = IF q = p /\ j = k THEN v ELSE data[q][j]
  BY DEF SyncInv
<1>3. CASE p \notin {h, Remote} \/ sync[h].pc = "idle"
  <2>1. Soiled(p)[h] = sync[h]
    BY <1>3 DEF Soiled
  <2>2. CASE sync[h].pc = "idle"
    BY <1>1, <2>1, <2>2 DEF SyncSound, Carries, Overwrites, SyncType
  <2>3. CASE p \notin {h, Remote}
    <3>1. \A j \in KeySet : /\ data'[From(h, sync[h])][j] = data[From(h, sync[h])][j]
                            /\ data'[Into(h, sync[h])][j] = data[Into(h, sync[h])][j]
      BY <1>2, <2>3, SyncFacts DEF From, Into
    <3>2. SyncSound(h, sync[h], data')
      BY <1>1, <3>1, SyncFacts DEF SyncSound, Done, Carries
    <3> QED  BY <1>1, <2>1, <3>2
  <2> QED  BY <1>3, <2>2, <2>3
<1>4. CASE ~(p \notin {h, Remote} \/ sync[h].pc = "idle") /\ sync[h].pc = "ended"
  <2>1. Soiled(p)[h] = NoSync
    BY <1>4 DEF Soiled
  <2> QED  BY <2>1, SyncFacts, NoSyncIsSound DEF SyncsApart, Overwrites
<1>5. CASE ~(p \notin {h, Remote} \/ sync[h].pc = "idle") /\ sync[h].pc # "ended"
  <2> DEFINE s == [sync[h] EXCEPT !.clean = FALSE]
  <2>1. Soiled(p)[h] = s
    BY <1>5 DEF Soiled
  <2>2. /\ s \in SyncType /\ s.pc = sync[h].pc /\ s.at = sync[h].at /\ s.push = sync[h].push
        /\ s.got = sync[h].got /\ ~s.clean
    BY <1>1 DEF SyncType
  <2> HIDE DEF s
  <2>3. s.pc = "put" /\ Keys[s.at] \in SyncedRecords =>
          data'[Into(h, s)][Keys[s.at]].clock <= s.got.clock
    BY <1>1, <1>2, <2>2, SyncFacts DEF SyncSound, Carries, Overwrites, Into
  <2>4. SyncSound(h, s, data')
    BY <1>1, <1>5, <2>2, <2>3 DEF SyncSound, Carries
  <2>5. \A g \in Homes \ {h}, t \in SyncType :
          SyncsApart(h, sync[h], g, t) => SyncsApart(h, s, g, t)
    BY <2>2 DEF SyncsApart, Overwrites, Into
  <2> QED  BY <2>1, <2>2, <2>4, <2>5 DEF s
<1> QED  BY <1>3, <1>4, <1>5

\* The same of every sync but that of h, when it is s that h is left with.
LEMMA PlaceChanges ==
  ASSUME SyncInv, NEW h \in Homes, NEW p \in Places, NEW k \in KeySet,
         NEW v \in Value \cup {Absent, Torn}, data' = [data EXCEPT ![p][k] = v],
         \A g \in Homes \ {h} :
           ~(Overwrites(sync[g]) /\ Into(g, sync[g]) = p /\ Keys[sync[g].at] = k),
         NEW s \in SyncType, sync' = [Soiled(p) EXCEPT ![h] = s], edits' \in 0..MaxEdits,
         SyncSound(h, s, data'),
         \A g \in Homes \ {h} : SyncsApart(h, s, g, sync[g])
  PROVE  SyncInv'
<1>1. \A g \in Homes : sync'[g] = IF g = h THEN s ELSE Soiled(p)[g]
  BY DEF Soiled
<1>2. data' \in [Places -> [KeySet -> Value \cup {Absent, Torn}]]
  BY DEF SyncInv
<1>3. \A g \in Homes \ {h} : Soiled(p)[g] \in SyncType /\ SyncSound(g, Soiled(p)[g], data')
  BY SoiledStaysSound
<1>4. sync' \in [Homes -> SyncType]
  BY <1>1, <1>3 DEF Soiled
<1>5. \A g \in Homes : SyncSound(g, sync'[g], data')
  BY <1>1, <1>3
<1>6. ASSUME NEW f \in Homes \ {h}, NEW g \in Homes \ {f} PROVE SyncsApart(f, sync'[f], g, sync'[g])
  <2>1. \A t \in SyncType : SyncsApart(f, sync[f], g, t) => SyncsApart(f, Soiled(p)[f], g, t)
    BY SoiledStaysSound
  <2>2. CASE g = h
    <3>1. SyncsApart(f, sync[f], h, s)
      BY <2>2 DEF SyncsApart
    <3> QED  BY <1>1, <2>1, <2>2, <3>1
  <2>3. CASE g # h
    <3>1. Overwrites(Soiled(p)[g]) => /\ Overwrites(sync[g])
                                      /\ Into(g, Soiled(p)[g]) = Into(g, sync[g])
                                      /\ Soiled(p)[g].at = sync[g].at
      <4>1. Soiled(p)[g] \in {sync[g], NoSync, [sync[g] EXCEPT !.clean = FALSE]}
        BY <2>3, SoiledStaysSound
      <4>2. sync[g] \in SyncType
        BY DEF SyncInv
      <4> QED  BY <4>1, <4>2, SyncFacts DEF Overwrites, Into, SyncType
    <3>2. SyncsApart(f, sync[f], g, sync[g]) /\ sync[g] \in SyncType
      BY DEF SyncInv
    <3>3. SyncsApart(f, Soiled(p)[f], g, sync[g])
      BY <2>1, <3>2
    <3>4. SyncsApart(f, Soiled(p)[f], g, Soiled(p)[g])
      BY <3>1, <3>3 DEF SyncsApart
    <3> QED  BY <1>1, <2>3, <3>4
  <2> QED  BY <2>2, <2>3
<1>7. ASSUME NEW g \in Homes \ {h} PROVE SyncsApart(h, sync'[h], g, sync'[g])
  <2>1. SyncsApart(g, sync[g], h, s)
    BY DEF SyncsApart
  <2>2. SyncsApart(g, Soiled(p)[g], h, s)
    BY <2>1, SoiledStaysSound
  <2> QED  BY <1>1, <2>2 DEF SyncsApart
<1> QED  BY <1>2, <1>4, <1>5, <1>6, <1>7 DEF SyncInv, SyncSound, SyncsApart, Done, From, Into, Carries, Overwrites

----------------------------------------------------------------------------
(* The steps.                                                               *)

LEMMA InitSyncInv == SyncInit => SyncInv
<1> SUFFICES ASSUME SyncInit PROVE SyncInv
  OBVIOUS
<1>1. \A h \in Homes : sync[h] = NoSync
  BY DEF SyncInit
<1>2. /\ data \in [Places -> [KeySet -> Value \cup {Absent, Torn}]]
      /\ sync \in [Homes -> SyncType] /\ edits \in 0..MaxEdits
  BY SyncFacts, SyncAssumption DEF SyncInit
<1>3. \A h \in Homes : \A g \in Homes \ {h} : SyncsApart(h, sync[h], g, sync[g])
  BY <1>1, SyncFacts DEF SyncsApart, Overwrites
<1>4. \A h \in Homes : SyncSound(h, sync[h], data)
  BY <1>1, NoSyncIsSound
<1> QED  BY <1>2, <1>3, <1>4 DEF SyncInv

\* What is known of a sync before it moves.
LEMMA SyncKnown ==
  ASSUME SyncInv, NEW h \in Homes
  PROVE  /\ sync[h] \in SyncType /\ SyncSound(h, sync[h], data)
         /\ Source(h) = From(h, sync[h]) /\ Destination(h) = Into(h, sync[h])
         /\ From(h, sync[h]) \in Places /\ Into(h, sync[h]) \in Places
         /\ From(h, sync[h]) # Into(h, sync[h])
         /\ Carries(sync[h]) => Key(h) = Keys[sync[h].at] /\ Key(h) \in KeySet
         /\ \A p \in Places, k \in KeySet : data[p][k] \in Value \cup {Absent, Torn}
         /\ \A g \in Homes \ {h} : SyncsApart(h, sync[h], g, sync[g])
         /\ edits \in 0..MaxEdits
BY SyncFacts DEF SyncInv, SyncSound, Source, Destination, From, Into, Key

LEMMA EditKeepsInv ==
  ASSUME Calm, SyncInv, NEW h \in Homes, NEW k \in KeySet, Touch(h, k) \/ Relabel(h, k)
  PROVE  SyncInv'
<1>1. Edit(h, k) /\ edits' \in 0..MaxEdits
  BY SyncAssumption DEF Touch, Relabel, Edit, SyncInv
<1>2. h \in Places /\ data[h][k] \in Value \cup {Absent, Torn}
  BY SyncFacts, SyncKnown
<1>3. \A g \in Homes : ~(Overwrites(sync[g]) /\ Into(g, sync[g]) = h /\ Keys[sync[g].at] = k)
  BY <1>1 DEF Edit, Decided, Overwrites, Into, Destination, Key
<1>4. PICK v \in Value : data' = [data EXCEPT ![h][k] = v]
  <2>1. CASE Touch(h, k)
    <3>1. [clock |-> data[h][k].clock + 1, text |-> "a"] \in Value
      BY <1>2, <2>1, SyncFacts, SyncAssumption DEF Touch, Value
    <3> QED  BY <2>1, <3>1 DEF Touch
  <2>2. CASE Relabel(h, k)
    <3> DEFINE v == [data[h][k] EXCEPT !.text = IF @ = "a" THEN "b" ELSE "a"]
    <3>1. v \in Value
      BY <2>2 DEF Relabel, Value
    <3>2. data' = [data EXCEPT ![h][k] = v]
      BY <2>2 DEF Relabel
    <3> QED  BY <3>1, <3>2
  <2> QED  BY <2>1, <2>2
<1>5. Soiled(h)[h] \in SyncType /\ SyncSound(h, Soiled(h)[h], data')
  BY <1>2, <1>3, <1>4, SoiledStaysSound
<1>6. sync' = [Soiled(h) EXCEPT ![h] = Soiled(h)[h]]
  BY <1>1 DEF Edit, Soiled
<1>7. ASSUME NEW g \in Homes \ {h} PROVE SyncsApart(h, Soiled(h)[h], g, sync[g])
  <2>1. sync[g] \in SyncType /\ SyncsApart(h, sync[h], g, sync[g])
    BY SyncKnown
  <2> QED  BY <1>2, <1>3, <1>4, <2>1, SoiledStaysSound
<1> QED  BY <1>1, <1>2, <1>3, <1>4, <1>5, <1>6, <1>7, PlaceChanges

LEMMA BeginSyncKeepsInv ==
  ASSUME SyncInv, NEW h \in Homes, NEW push \in BOOLEAN, BeginSync(h, push)
  PROVE  SyncInv'
<1> DEFINE s == [NoSync EXCEPT !.pc = "get", !.push = push, !.at = 1]
<1>1. s \in SyncType /\ s.pc = "get" /\ s.at = 1 /\ s.got = Absent
  <2>1. 1 \in 0..Len(Keys) + 1
    BY SyncFacts
  <2> QED  BY <2>1, SyncFacts DEF SyncType
<1>2. sync' = [sync EXCEPT ![h] = s] /\ UNCHANGED <<data, edits>>
  BY DEF BeginSync
<1> HIDE DEF s
<1>3. SyncSound(h, s, data)
  BY <1>1, SyncFacts DEF SyncSound, Carries, Overwrites
<1>4. \A g \in Homes \ {h} : SyncsApart(h, s, g, sync[g])
  BY <1>1 DEF SyncsApart, Overwrites
<1> QED  BY <1>1, <1>2, <1>3, <1>4, SyncMoves

\* A sync that passes a key it is done with.
LEMMA AdvanceIsSound ==
  ASSUME SyncInv, NEW h \in Homes, NEW d, sync[h].at \in DOMAIN Keys,
         sync[h].pc \in {"get", "verdict", "write"},
         sync[h].clean => \A n \in DOMAIN Keys : n <= sync[h].at => Done(h, sync[h], d, Keys[n])
  PROVE  /\ Advance(h) \in SyncType /\ Advance(h).pc = "get" /\ SyncSound(h, Advance(h), d)
<1> DEFINE s == Advance(h)
<1>1. sync[h] \in SyncType
  BY SyncKnown
<1>2. /\ s \in SyncType /\ s.pc = "get" /\ s.push = sync[h].push /\ s.clean = sync[h].clean
      /\ s.at = sync[h].at + 1 /\ s.got = Absent
  <2>1. sync[h].at + 1 \in 0..Len(Keys) + 1
    BY SyncFacts
  <2> QED  BY <1>1, <2>1 DEF SyncType, Advance
<1> HIDE DEF s
<1>3. \A n \in DOMAIN Keys : n < s.at => n <= sync[h].at
  BY <1>1, <1>2, SyncFacts
<1>4. s.clean => \A n \in DOMAIN Keys : n < s.at => Done(h, s, d, Keys[n])
  BY <1>2, <1>3 DEF Done, From, Into
<1>5. SyncSound(h, s, d)
  BY <1>1, <1>2, <1>4, SyncFacts DEF SyncSound, Carries, Overwrites
<1> QED  BY <1>2, <1>5 DEF s

LEMMA GetKeepsInv ==
  ASSUME SyncInv, NEW h \in Homes, Get(h)
  PROVE  SyncInv'
<1>k. /\ sync[h] \in SyncType /\ SyncSound(h, sync[h], data) /\ sync[h].pc = "get"
      /\ UNCHANGED <<data, edits>>
  BY SyncKnown DEF Get
<1>1. CASE sync[h].at > Len(Keys)
  <2> DEFINE s == IF sync[h].clean THEN [sync[h] EXCEPT !.pc = "ended"] ELSE NoSync
  <2>1. sync' = [sync EXCEPT ![h] = s]
    BY <1>1 DEF Get
  <2>2. CASE sync[h].clean
    <3> DEFINE e == [sync[h] EXCEPT !.pc = "ended"]
    <3>1. /\ e \in SyncType /\ e.pc = "ended" /\ e.at = sync[h].at /\ e.push = sync[h].push
          /\ e.got = sync[h].got /\ e.clean
      BY <1>k, <2>2 DEF SyncType
    <3>2. s = e
      BY <2>2
    <3> HIDE DEF e
    <3>3. SyncSound(h, e, data)
      BY <1>k, <1>1, <2>2, <3>1, SyncFacts DEF SyncSound, Carries, Overwrites, Done, From, Into
    <3>4. \A g \in Homes \ {h} : SyncsApart(h, e, g, sync[g])
      BY <3>1 DEF SyncsApart, Overwrites
    <3> QED  BY <1>k, <2>1, <3>1, <3>2, <3>3, <3>4, SyncMoves
  <2>3. CASE ~sync[h].clean
    <3>1. \A g \in Homes \ {h} : SyncsApart(h, NoSync, g, sync[g])
      BY SyncFacts DEF SyncsApart, Overwrites
    <3> QED  BY <1>k, <2>1, <2>3, <3>1, NoSyncIsSound, SyncFacts, SyncMoves
  <2> QED  BY <2>2, <2>3
<1>2. CASE ~(sync[h].at > Len(Keys))
  <2>1. sync[h].at \in DOMAIN Keys /\ Key(h) = Keys[sync[h].at] /\ Key(h) \in KeySet
    BY <1>k, <1>2, SyncFacts DEF SyncSound, Key, SyncType
  <2>2. CASE data[Source(h)][Key(h)] = Absent
    <3>1. sync' = [sync EXCEPT ![h] = Advance(h)]
      BY <1>2, <2>2 DEF Get
    <3>2. \A n \in DOMAIN Keys : n <= sync[h].at => n = sync[h].at \/ n < sync[h].at
      BY <2>1, SyncFacts
    <3>3. Done(h, sync[h], data, Keys[sync[h].at])
      BY <2>1, <2>2, SyncKnown DEF Done
    <3>4. sync[h].clean => \A n \in DOMAIN Keys : n <= sync[h].at => Done(h, sync[h], data, Keys[n])
      BY <1>k, <3>2, <3>3 DEF SyncSound
    <3>5. Advance(h) \in SyncType /\ Advance(h).pc = "get" /\ SyncSound(h, Advance(h), data)
      BY <1>k, <2>1, <3>4, AdvanceIsSound
    <3>6. \A g \in Homes \ {h} : SyncsApart(h, Advance(h), g, sync[g])
      BY <3>5 DEF SyncsApart, Overwrites
    <3> QED  BY <1>k, <3>1, <3>5, <3>6, SyncMoves
  <2>3. CASE data[Source(h)][Key(h)] # Absent
    <3> DEFINE v == data[Source(h)][Key(h)]
               s == [sync[h] EXCEPT !.pc = "verdict", !.got = v]
    <3>1. sync' = [sync EXCEPT ![h] = s]
      BY <1>2, <2>3 DEF Get
    <3>2. v \in Value \cup {Absent, Torn} /\ v = data[From(h, sync[h])][Keys[sync[h].at]]
      BY <2>1, SyncKnown
    <3>3. v # Absent
      BY <2>3
    <3> HIDE DEF v
    <3>4. /\ s \in SyncType /\ s.pc = "verdict" /\ s.at = sync[h].at /\ s.push = sync[h].push
          /\ s.got = v /\ s.clean = sync[h].clean
      BY <1>k, <3>2 DEF SyncType
    <3> HIDE DEF s
    <3>5. SyncSound(h, s, data)
      BY <1>k, <2>1, <3>2, <3>3, <3>4 DEF SyncSound, Carries, Overwrites, Done, From, Into
    <3>6. \A g \in Homes \ {h} : SyncsApart(h, s, g, sync[g])
      BY <3>4 DEF SyncsApart, Overwrites
    <3> QED  BY <1>k, <3>1, <3>4, <3>5, <3>6, SyncMoves
  <2> QED  BY <2>2, <2>3
<1> QED  BY <1>1, <1>2

LEMMA DecideKeepsInv ==
  ASSUME Calm, SyncInv, NEW h \in Homes, Decide(h)
  PROVE  SyncInv'
<1> DEFINE old == data[Destination(h)][Key(h)]
           verdict == Verdict(Key(h), sync[h].got, old)
<1>k. /\ sync[h] \in SyncType /\ SyncSound(h, sync[h], data) /\ sync[h].pc = "verdict"
      /\ UNCHANGED <<data, edits>> /\ ~Decided(Destination(h), Key(h))
      /\ sync[h].at \in DOMAIN Keys /\ Key(h) = Keys[sync[h].at] /\ Key(h) \in KeySet
      /\ Destination(h) = Into(h, sync[h]) /\ Source(h) = From(h, sync[h])
      /\ sync[h].got # Absent
  BY SyncKnown DEF Decide, SyncSound, Carries
<1>o. /\ old \in Value \cup {Absent, Torn} /\ old.clock \in Nat
      /\ sync[h].got \in Value \cup {Absent, Torn} /\ sync[h].got.clock \in Nat
  BY <1>k, SyncKnown, SyncFacts, SyncAssumption DEF SyncType
<1>1. CASE verdict \in {"add", "update"}
  <2> DEFINE s == [sync[h] EXCEPT !.pc = "put"]
  <2>1. sync' = [sync EXCEPT ![h] = s]
    BY <1>1 DEF Decide
  <2>2. /\ s \in SyncType /\ s.pc = "put" /\ s.at = sync[h].at /\ s.push = sync[h].push
        /\ s.got = sync[h].got /\ s.clean = sync[h].clean
    BY <1>k DEF SyncType
  <2> HIDE DEF s
  <2>3. Key(h) \in SyncedRecords => old.clock <= sync[h].got.clock
    BY <1>1, <1>o, SyncFacts DEF Verdict
  <2>4. ~(old = sync[h].got \/ (Key(h) \in SyncedRecords /\ old.clock > sync[h].got.clock))
    BY <1>1, <1>k, <1>o, <2>3 DEF Verdict
  <2>5. s.clean => \A n \in DOMAIN Keys : n < s.at => Keys[n] # Keys[s.at]
    BY <1>k, <2>2, <2>4 DEF SyncSound, Done, Carries
  <2>6. SyncSound(h, s, data)
    BY <1>k, <2>2, <2>3, <2>5 DEF SyncSound, Carries, Overwrites, Done, From, Into
  <2>7. \A g \in Homes \ {h} : SyncsApart(h, s, g, sync[g])
    BY <1>k, <2>2 DEF SyncsApart, Decided, Overwrites, Into, Destination, Key
  <2> QED  BY <1>k, <2>1, <2>2, <2>6, <2>7, SyncMoves
<1>2. CASE verdict = "raise"
  <2>1. sync' = [sync EXCEPT ![h] = NoSync]
    BY <1>2 DEF Decide
  <2>2. \A g \in Homes \ {h} : SyncsApart(h, NoSync, g, sync[g])
    BY SyncFacts DEF SyncsApart, Overwrites
  <2> QED  BY <1>k, <2>1, <2>2, NoSyncIsSound, SyncFacts, SyncMoves
<1>3. CASE verdict \notin {"add", "update", "raise"}
  <2>1. sync' = [sync EXCEPT ![h] = Advance(h)]
    BY <1>3 DEF Decide
  <2>2. old = sync[h].got \/ (Key(h) \in SyncedRecords /\ old.clock > sync[h].got.clock)
    BY <1>3, <1>o DEF Verdict
  <2>3. sync[h].clean => Done(h, sync[h], data, Keys[sync[h].at])
    BY <1>k, <2>2 DEF Done, SyncSound, Carries
  <2>4. \A n \in DOMAIN Keys : n <= sync[h].at => n = sync[h].at \/ n < sync[h].at
    BY <1>k, SyncFacts
  <2>5. sync[h].clean => \A n \in DOMAIN Keys : n <= sync[h].at => Done(h, sync[h], data, Keys[n])
    BY <1>k, <2>3, <2>4 DEF SyncSound
  <2>6. Advance(h) \in SyncType /\ Advance(h).pc = "get" /\ SyncSound(h, Advance(h), data)
    BY <1>k, <2>5, AdvanceIsSound
  <2>7. \A g \in Homes \ {h} : SyncsApart(h, Advance(h), g, sync[g])
    BY <2>6 DEF SyncsApart, Overwrites
  <2> QED  BY <1>k, <2>1, <2>6, <2>7, SyncMoves
<1> QED  BY <1>1, <1>2, <1>3

LEMMA PutKeepsInv ==
  ASSUME SyncInv, NEW h \in Homes, Put(h) \/ Write(h)
  PROVE  SyncInv'
<1> DEFINE p == Destination(h)
           k == Key(h)
<1>k. /\ sync[h] \in SyncType /\ SyncSound(h, sync[h], data) /\ Overwrites(sync[h])
      /\ sync[h].at \in DOMAIN Keys /\ k = Keys[sync[h].at] /\ k \in KeySet
      /\ p = Into(h, sync[h]) /\ p \in Places /\ From(h, sync[h]) # p
      /\ edits' \in 0..MaxEdits /\ sync[h].got \in Value \cup {Absent, Torn}
  BY SyncKnown DEF Put, Write, SyncSound, Carries, Overwrites, SyncType
<1>1. \A g \in Homes \ {h} :
        ~(Overwrites(sync[g]) /\ Into(g, sync[g]) = p /\ Keys[sync[g].at] = k)
  BY <1>k, SyncKnown DEF SyncsApart
<1>d. \A v, q \in Places, j \in KeySet :
        data' = [data EXCEPT ![p][k] = v] =>
          data'[q][j] = IF q = p /\ j = k THEN v ELSE data[q][j]
  BY DEF SyncInv
<1> HIDE DEF p, k
\* What the sync has passed is not the key it writes.
<1>2. ASSUME NEW v, data' = [data EXCEPT ![p][k] = v], sync[h].clean, NEW n \in DOMAIN Keys,
             n < sync[h].at
      PROVE  Done(h, sync[h], data', Keys[n])
  <2>1. Keys[n] # k /\ Keys[n] \in KeySet /\ From(h, sync[h]) \in Places
    BY <1>k, <1>2, SyncFacts, SyncKnown DEF SyncSound
  <2>2. Done(h, sync[h], data, Keys[n])
    BY <1>k, <1>2 DEF SyncSound, Overwrites
  <2> QED  BY <1>k, <1>d, <1>2, <2>1, <2>2 DEF Done
<1>3. CASE Put(h)
  <2> DEFINE s == [sync[h] EXCEPT !.pc = "write"]
  <2>1. /\ data' = [data EXCEPT ![p][k] = Torn] /\ sync' = [Soiled(p) EXCEPT ![h] = s]
    BY <1>3 DEF Put, p, k
  <2>2. /\ s \in SyncType /\ s.pc = "write" /\ s.at = sync[h].at /\ s.push = sync[h].push
        /\ s.got = sync[h].got /\ s.clean = sync[h].clean
    BY <1>k DEF SyncType
  <2> HIDE DEF s
  <2>3. s.clean => \A n \in DOMAIN Keys : n < s.at => Done(h, s, data', Keys[n])
    BY <1>2, <2>1, <2>2 DEF Done, From, Into
  <2>4. data'[From(h, s)][k] = data[From(h, s)][k]
    BY <1>k, <1>d, <2>1, <2>2, SyncKnown DEF From
  <2>5. SyncSound(h, s, data')
    BY <1>k, <2>2, <2>3, <2>4 DEF SyncSound, Carries, Overwrites, From
  <2>6. \A g \in Homes \ {h} : SyncsApart(h, s, g, sync[g])
    BY <1>k, <1>1, <2>2 DEF SyncsApart, Overwrites, Into
  <2> QED  BY <1>k, <1>1, <2>1, <2>2, <2>5, <2>6, PlaceChanges
<1>4. CASE Write(h)
  <2> DEFINE v == sync[h].got
  <2>1. /\ data' = [data EXCEPT ![p][k] = v] /\ sync' = [Soiled(p) EXCEPT ![h] = Advance(h)]
        /\ sync[h].pc = "write"
    BY <1>4 DEF Write, p, k
  <2>2. sync[h].clean => Done(h, sync[h], data', k)
    <3>1. data \in [Places -> [KeySet -> Value \cup {Absent, Torn}]]
          /\ From(h, sync[h]) \in Places
      BY SyncKnown DEF SyncInv
    <3>2. data'[p][k] = v /\ data'[From(h, sync[h])][k] = data[From(h, sync[h])][k]
      BY <1>k, <2>1, <3>1
    <3> QED  BY <1>k, <3>2 DEF Done, SyncSound, Carries, Overwrites
  <2>3. \A n \in DOMAIN Keys : n <= sync[h].at => n = sync[h].at \/ n < sync[h].at
    BY <1>k, SyncFacts
  <2>4. sync[h].clean => \A n \in DOMAIN Keys : n <= sync[h].at => Done(h, sync[h], data', Keys[n])
    BY <1>k, <1>2, <2>1, <2>2, <2>3
  <2>5. Advance(h) \in SyncType /\ Advance(h).pc = "get" /\ SyncSound(h, Advance(h), data')
    BY <1>k, <2>1, <2>4, AdvanceIsSound
  <2>6. \A g \in Homes \ {h} : SyncsApart(h, Advance(h), g, sync[g])
    BY <2>5 DEF SyncsApart, Overwrites
  <2> QED  BY <1>k, <1>1, <2>1, <2>5, <2>6, PlaceChanges
<1> QED  BY <1>3, <1>4

LEMMA SyncDiesKeepsInv ==
  ASSUME SyncInv, NEW h \in Homes, SyncDies(h)
  PROVE  SyncInv'
<1>1. \A g \in Homes \ {h} : SyncsApart(h, NoSync, g, sync[g])
  BY SyncFacts DEF SyncsApart, Overwrites
<1> QED  BY <1>1, NoSyncIsSound, SyncFacts, SyncMoves DEF SyncDies

LEMMA SyncNextKeepsInv == ASSUME Calm, SyncInv, [SyncNext]_sVars PROVE SyncInv'
<1>1. CASE UNCHANGED sVars
  BY <1>1 DEF sVars, SyncInv, SyncSound, SyncsApart, Done, From, Into, Carries, Overwrites
<1>2. CASE SyncNext
  BY <1>2, EditKeepsInv, BeginSyncKeepsInv, GetKeepsInv, DecideKeepsInv, PutKeepsInv,
     SyncDiesKeepsInv DEF SyncNext, SyncStep
<1> QED  BY <1>1, <1>2

\* As long as nobody else writes a key between the verdict of a sync on it and its
\* put, a sync overwrites no record that is newer than the incoming one, and one that
\* ran to its end with nobody writing either side has brought every key over, but for
\* records the destination holds a newer copy of (sync.py:9-12, 89-102).
THEOREM SyncsLoseNothing == ASSUME Calm PROVE SyncSpec => SyncsKeepWork
<1>1. SyncInv => SyncIsComplete
  <2> SUFFICES ASSUME SyncInv, NEW h \in Homes, sync[h].pc = "ended", NEW k \in KeySet
               PROVE  Done(h, sync[h], data, k)
    BY SyncKnown DEF SyncIsComplete, Done
  <2>1. /\ sync[h].at = Len(Keys) + 1 /\ sync[h].clean
        /\ \A n \in DOMAIN Keys : n < sync[h].at => Done(h, sync[h], data, Keys[n])
    BY SyncKnown DEF SyncSound
  <2>2. PICK n \in DOMAIN Keys : k = Keys[n]
    BY DEF KeySet
  <2>3. n < sync[h].at
    BY <2>1, SyncFacts
  <2> QED  BY <2>1, <2>2, <2>3
<1>2. SyncInv /\ [SyncNext]_sVars =>
        [\A h \in Homes :
           sync[h].pc = "put" /\ sync'[h].pc = "write" /\ Key(h) \in SyncedRecords =>
             data[Destination(h)][Key(h)].clock <= sync[h].got.clock]_sVars
  <2> SUFFICES ASSUME SyncInv, NEW h \in Homes, sync[h].pc = "put", Key(h) \in SyncedRecords
               PROVE  data[Destination(h)][Key(h)].clock <= sync[h].got.clock
    OBVIOUS
  <2> QED  BY SyncKnown DEF SyncSound, Carries
<1> QED  BY <1>1, <1>2, InitSyncInv, SyncNextKeepsInv, PTL
     DEF SyncSpec, SyncsKeepWork, NewerRecordSurvives

----------------------------------------------------------------------------
(***************************************************************************)
(* ChatCapture.  The heart of it is that of the windows between a load and  *)
(* a save of one record no two are open at once, so what a writer saves is  *)
(* the record as it is, changed; that a hook fills in an id no record has;  *)
(* and that while hooks report home a chat that is not recorded yet is      *)
(* awaited, by an operation that has yet to record or by a reference.       *)
(***************************************************************************)

Copies == Seq(Refs) \cup {None}
AgentType == [chat : Chats \cup {None}, lazy : Chats \cup {None}, heard : BOOLEAN, strayed : BOOLEAN]
HookType == [pc : {"idle", "load", "scan", "fill", "state load", "state save"},
             event : {"none", "session-start", "prompt-submit", "stop"}, id : Chats \cup {None},
             to : Sessions \cup {None}, copy : Copies, after : BOOLEAN]
OpType == [pc : {"idle", "launch", "record", "load", "save", "over"}, kind : Kinds,
           src : Sessions \cup {None}, dst : Sessions \cup {None}, chat : Chats \cup {None},
           copy : Copies, hasty : BOOLEAN]

CaptureType ==
    /\ rec \in [Sessions -> Copies] /\ agent \in [Sessions -> AgentType]
    /\ hook \in [Sessions -> HookType] /\ op \in [Ops -> OpType]

\* The chats of one record, and those of all.
IdsOf(s) == IF rec[s] = None THEN {} ELSE Ids(rec[s])
AllIds == {c \in Chats : \E s \in Sessions : c \in IdsOf(s)}

\* An operation between its launch and the save of its reference.
Recording == {"record", "load", "save"}

OpFits(o) ==
    /\ op[o].pc = "idle" => op[o] = NoOp
    /\ op[o].pc # "idle" => op[o].dst \in Sessions
    /\ op[o].pc \in {"launch", "record"} /\ op[o].kind # "rollover" => rec[op[o].dst] = None
    /\ op[o].pc = "record" => op[o].kind # "rollover"
    /\ op[o].pc \in {"load", "save", "over"} => rec[op[o].dst] # None
    /\ op[o].pc # "idle" /\ op[o].kind = "rollover" =>
         rec[op[o].dst] # None /\ op[o].chat \in IdsOf(op[o].dst)
    /\ op[o].pc \in {"load", "save"} /\ op[o].kind # "rollover" => rec[op[o].dst] = <<>>
    /\ op[o].pc = "load" => op[o].kind \notin {"original", "resume"}
    /\ op[o].pc = "save" => op[o].kind # "original" /\ op[o].copy = rec[op[o].dst]
    /\ op[o].pc # "idle" /\ op[o].kind # "original" => op[o].chat \in AllIds
    /\ op[o].kind = "resume" /\ op[o].pc \in {"record", "save"} => agent[op[o].dst].chat = op[o].chat

\* Only rollovers act on a session that another operation made.
OpsApart == \A o, p \in Ops : o # p /\ op[o].dst = op[p].dst /\ op[o].dst # None =>
              "rollover" \in {op[o].kind, op[p].kind}

OpWriter(o, s) ==
    op[o].dst = s /\ (op[o].pc = "save" \/ (op[o].pc = "record" /\ op[o].kind = "resume"))
HookWriter(h, s) == hook[h].to = s /\ hook[h].pc \in {"scan", "fill", "state save"}

WritersApart ==
    /\ \A s \in Sessions : \A o, p \in Ops : OpWriter(o, s) /\ OpWriter(p, s) => o = p
    /\ \A s, h, k \in Sessions : HookWriter(h, s) /\ HookWriter(k, s) => h = k
    /\ \A s, h \in Sessions : \A o \in Ops : ~(HookWriter(h, s) /\ OpWriter(o, s))
    /\ \A h, k \in Sessions : hook[h].pc = "fill" /\ hook[k].pc = "fill" => h = k

HookFits(h) ==
    hook[h].pc # "idle" =>
    /\ hook[h].to \in Sessions /\ hook[h].id # None
    /\ hook[h].id = agent[h].chat \/ hook[h].id \in AllIds
    /\ ~agent[h].strayed => hook[h].to = h
    /\ hook[h].pc # "load" => rec[hook[h].to] # None
    /\ hook[h].pc \in {"scan", "fill", "state save"} => hook[h].copy = rec[hook[h].to]
    /\ hook[h].pc \in {"scan", "fill"} => Fills(rec[hook[h].to], hook[h].id)
    /\ hook[h].pc = "fill" => hook[h].id \notin AllIds
    /\ hook[h].after => hook[h].to = h /\ \A o \in Ops : op[o].dst = h => op[o].pc \notin Recording

\* Agents that report one chat have it from a record.
AgentsFit ==
    /\ \A s \in Sessions : agent[s].lazy \in AllIds \cup {None}
    /\ \A s, t \in Sessions : s # t /\ agent[s].chat = agent[t].chat => agent[s].chat \in AllIds \cup {None}

OpsFit == \A o \in Ops : OpFits(o)
HooksFit == \A h \in Sessions : HookFits(h)
WindowsInv == CaptureType /\ OpsFit /\ OpsApart /\ WritersApart /\ HooksFit /\ AgentsFit

RefFits(chats, i) ==
    /\ chats[i].origin \in AllIds \cup {None}
    /\ chats[i].role \in {"fork", "rollover"} => chats[i].origin # None
    /\ chats[i].role = "fork" => chats[i].id # chats[i].origin
    /\ chats[i].role = "rollover" =>
         \E j \in 1..(i - 1) : chats[j].id = chats[i].origin /\ chats[j].ended
RecordsFit == \A s \in Sessions : rec[s] # None => \A i \in DOMAIN rec[s] : RefFits(rec[s], i)

\* No rollover of s was begun before the operations on s were through.
Patient(s) == \A o \in Ops : op[o].dst = s => ~op[o].hasty
PendingFits(s) ==
    Patient(s) =>
    /\ rec[s] # None => \A i, j \in PendingAt(rec[s]) : i = j
    /\ \A o, p \in Ops : op[o].dst = s /\ op[p].dst = s /\ op[o].pc # "over" /\ op[p].pc # "over" => o = p
    /\ \A o \in Ops : op[o].dst = s /\ op[o].kind = "rollover" /\ op[o].pc # "over" => PendingAt(rec[s]) = {}

NoneStrays == \A s \in Sessions : ~agent[s].strayed
Awaited(s) ==
    agent[s].chat # None /\ agent[s].chat \notin IdsOf(s) =>
    /\ \/ \E o \in Ops : op[o].dst = s /\ op[o].pc \in Recording
       \/ rec[s] # None /\ PendingAt(rec[s]) # {}
    /\ \/ \E o \in Ops : op[o].dst = s /\ op[o].pc \in Recording /\ op[o].kind = "resume"
       \/ agent[s].chat \notin AllIds
\* A hook whose prompt will count as heard has captured its chat.
HeardOf(s) == hook[s].pc \in {"state load", "state save"} /\ hook[s].event = "prompt-submit"
                /\ hook[s].after /\ hook[s].id = agent[s].chat
Heard(s) == agent[s].heard \/ HeardOf(s) => agent[s].chat \in IdsOf(s)

CaptureInv ==
    /\ WindowsInv /\ RecordsFit /\ OneOwner
    /\ \A s \in Sessions : PendingFits(s)
    /\ NoneStrays => \A s \in Sessions : Awaited(s) /\ Heard(s)

----------------------------------------------------------------------------
(* Lists of chats.                                                          *)

LEMMA LatestIsOne ==
  ASSUME NEW chats \in Seq(Refs), NEW S, S \subseteq DOMAIN chats, S # {}
  PROVE  Latest(S) \in S
<1>1. S \in SUBSET (1..Len(chats)) /\ Len(chats) \in Nat
  BY LenProperties
<1>2. \E i \in S : \A j \in S : j <= i
  BY <1>1, GreatestExists
<1> QED  BY <1>2 DEF Latest

LEMMA ActiveIsRecorded ==
  ASSUME NEW chats \in Seq(Refs), ActiveChat(chats) # None
  PROVE  ActiveChat(chats) \in Ids(chats) /\ ActiveChat(chats) \in Chats
<1> DEFINE real == {i \in DOMAIN chats : chats[i].id # None}
           open == {i \in real : ~chats[i].ended}
           S == IF open = {} THEN real ELSE open
<1>1. real # {}
  BY DEF ActiveChat
<1>2. S \subseteq DOMAIN chats /\ S # {} /\ S \subseteq real
  BY <1>1
<1>3. ActiveChat(chats) = chats[Latest(S)].id
  BY <1>1 DEF ActiveChat
<1> HIDE DEF S
<1>4. Latest(S) \in S
  BY <1>2, LatestIsOne
<1>5. PICK i \in real : i = Latest(S)
  BY <1>2, <1>4
<1>6. chats[i] \in Refs
  BY <1>5, LenProperties
<1> QED  BY <1>3, <1>5, <1>6 DEF Ids, Refs

LEMMA AppendRef ==
  ASSUME NEW chats \in Seq(Refs), NEW ref \in Refs
  PROVE  LET new == Append(chats, ref) IN
         /\ new \in Seq(Refs) /\ Len(chats) \in Nat
         /\ DOMAIN chats = 1..Len(chats) /\ DOMAIN new = 1..(Len(chats) + 1)
         /\ \A i \in 1..Len(chats) : new[i] = chats[i]
         /\ new[Len(chats) + 1] = ref
         /\ Ids(new) = Ids(chats) \cup ({ref.id} \ {None})
         /\ ref.id = None => PendingAt(new) = PendingAt(chats) \cup {Len(chats) + 1}
<1> DEFINE new == Append(chats, ref)
           n == Len(chats)
<1>1. /\ new \in Seq(Refs) /\ n \in Nat /\ DOMAIN chats = 1..n /\ DOMAIN new = 1..(n + 1)
      /\ (\A i \in 1..n : new[i] = chats[i]) /\ new[n + 1] = ref
  BY LenProperties
<1> HIDE DEF new, n
<1>2. 1..(n + 1) = (1..n) \cup {n + 1}
  BY <1>1
<1>3. Ids(new) = Ids(chats) \cup ({ref.id} \ {None})
  BY <1>1, <1>2 DEF Ids
<1>4. ref.id = None => PendingAt(new) = PendingAt(chats) \cup {n + 1}
  BY <1>1, <1>2 DEF PendingAt
<1> QED  BY <1>1, <1>3, <1>4 DEF new, n

LEMMA ClosedRefs ==
  ASSUME NEW chats \in Seq(Refs), NEW chat
  PROVE  LET new == Closed(chats, chat) IN
         /\ new \in Seq(Refs) /\ DOMAIN new = DOMAIN chats
         /\ \A i \in DOMAIN chats :
              /\ new[i].id = chats[i].id /\ new[i].role = chats[i].role
              /\ new[i].origin = chats[i].origin
              /\ new[i].ended <=> (chats[i].ended \/ chats[i].id = chat)
         /\ Ids(new) = Ids(chats) /\ PendingAt(new) = PendingAt(chats)
<1> DEFINE new == Closed(chats, chat)
           n == Len(chats)
<1>1. n \in Nat /\ DOMAIN chats = 1..n /\ \A i \in 1..n : chats[i] \in Refs
  BY LenProperties
<1>2. ASSUME NEW i \in 1..n
      PROVE  /\ new[i] \in Refs
             /\ new[i].id = chats[i].id /\ new[i].role = chats[i].role
             /\ new[i].origin = chats[i].origin
             /\ new[i].ended <=> (chats[i].ended \/ chats[i].id = chat)
  <2>1. new[i] = [chats[i] EXCEPT !.ended = @ \/ chats[i].id = chat]
    BY <1>1 DEF Closed
  <2> QED  BY <1>1, <2>1 DEF Refs
<1>3. new \in [1..n -> Refs] /\ DOMAIN new = 1..n
  BY <1>1, <1>2 DEF Closed
<1>4. new \in Seq(Refs)
  BY <1>1, <1>3, SeqDef
<1> HIDE DEF new, n
<1>5. Ids(new) = Ids(chats) /\ PendingAt(new) = PendingAt(chats)
  BY <1>1, <1>2, <1>3 DEF Ids, PendingAt
<1> QED  BY <1>1, <1>2, <1>3, <1>4, <1>5 DEF new

LEMMA FilledRef ==
  ASSUME NEW chats \in Seq(Refs), NEW k \in PendingAt(chats), NEW id \in Chats
  PROVE  LET new == [chats EXCEPT ![k].id = id] IN
         /\ new \in Seq(Refs) /\ DOMAIN new = DOMAIN chats
         /\ \A i \in DOMAIN chats :
              /\ new[i].role = chats[i].role /\ new[i].origin = chats[i].origin
              /\ new[i].ended = chats[i].ended
              /\ new[i].id = IF i = k THEN id ELSE chats[i].id
         /\ Ids(new) = Ids(chats) \cup {id} /\ PendingAt(new) \subseteq PendingAt(chats)
<1> DEFINE new == [chats EXCEPT ![k].id = id]
           n == Len(chats)
<1>1. n \in Nat /\ DOMAIN chats = 1..n /\ (\A i \in 1..n : chats[i] \in Refs) /\ k \in 1..n
  BY LenProperties DEF PendingAt
<1>2. ASSUME NEW i \in 1..n
      PROVE  /\ new[i] \in Refs /\ new[i].role = chats[i].role
             /\ new[i].origin = chats[i].origin /\ new[i].ended = chats[i].ended
             /\ new[i].id = IF i = k THEN id ELSE chats[i].id
  <2>1. new[i] = IF i = k THEN [chats[i] EXCEPT !.id = id] ELSE chats[i]
    BY <1>1
  <2> QED  BY <1>1, <2>1 DEF Refs
<1>3. new \in [1..n -> Refs] /\ DOMAIN new = 1..n
  BY <1>1, <1>2
<1>4. new \in Seq(Refs)
  BY <1>1, <1>3, SeqDef
<1> HIDE DEF new, n
<1>5. id # None
  BY CaptureAssumption
<1>6. Ids(new) = Ids(chats) \cup {id} /\ PendingAt(new) \subseteq PendingAt(chats)
  BY <1>1, <1>2, <1>3, <1>5 DEF Ids, PendingAt
<1> QED  BY <1>1, <1>2, <1>3, <1>4, <1>6 DEF new

----------------------------------------------------------------------------
(* What the steps do, field by field.                                       *)

LEMMA Blank == NoOp \in OpType /\ NoHook \in HookType /\ NoAgent \in AgentType
BY DEF NoOp, NoHook, NoAgent, OpType, HookType, AgentType, Copies, Kinds

LEMMA StartDoes ==
  ASSUME CaptureType, NEW o \in Ops, NEW kind \in Kinds, NEW src \in Sessions \cup {None},
         NEW dst \in Sessions, StartOp(o, kind, src, dst)
  PROVE  /\ \E x \in OpType :
              /\ op' = [op EXCEPT ![o] = x]
              /\ x.pc = "launch" /\ x.kind = kind /\ x.dst = dst
              /\ x.hasty = (kind = "rollover" /\ Unsettled(dst))
              /\ kind # "original" => /\ src \in Sessions /\ rec[src] # None
                                      /\ x.chat = ActiveChat(rec[src]) /\ x.chat \in IdsOf(src)
                                      /\ x.chat \in AllIds
              /\ kind = "rollover" => dst = src
              /\ kind # "rollover" => rec[dst] = None /\ \A p \in Ops : op[p].dst # dst
         /\ UNCHANGED <<rec, agent, hook>>
<1> DEFINE chat == IF src = None THEN None ELSE ActiveChat(rec[src])
           hasty == kind = "rollover" /\ Unsettled(src)
           x == [NoOp EXCEPT !.pc = "launch", !.kind = kind, !.src = src, !.dst = dst,
                   !.chat = chat, !.hasty = hasty]
<1>1. op' = [op EXCEPT ![o] = x] /\ UNCHANGED <<rec, agent, hook>>
  BY DEF StartOp
<1>2. kind # "original" => /\ src \in Sessions /\ rec[src] # None /\ chat = ActiveChat(rec[src])
                           /\ chat \in IdsOf(src) /\ chat \in AllIds /\ chat \in Chats
  <2> SUFFICES ASSUME kind # "original" PROVE /\ src \in Sessions /\ rec[src] # None
                           /\ chat = ActiveChat(rec[src])
                           /\ chat \in IdsOf(src) /\ chat \in AllIds /\ chat \in Chats
    OBVIOUS
  <2>1. src \in Sessions /\ rec[src] # None /\ ActiveChat(rec[src]) # None
    BY DEF StartOp
  <2>2. rec[src] \in Seq(Refs)
    BY <2>1 DEF CaptureType, Copies
  <2>3. ActiveChat(rec[src]) \in Ids(rec[src]) /\ ActiveChat(rec[src]) \in Chats
    BY <2>1, <2>2, ActiveIsRecorded
  <2>4. chat = ActiveChat(rec[src])
    BY <2>1, CaptureAssumption
  <2> QED  BY <2>1, <2>3, <2>4 DEF IdsOf, AllIds
<1>3. kind = "original" => src = None /\ chat = None
  BY DEF StartOp
<1>4. chat \in Chats \cup {None} /\ hasty \in BOOLEAN
  BY <1>2, <1>3
<1>5. (kind = "rollover" => dst = src) /\ (kind # "rollover" => rec[dst] = None /\ \A p \in Ops : op[p].dst # dst)
  BY DEF StartOp
<1>6. x.pc = "launch" /\ x.kind = kind /\ x.dst = dst /\ x.chat = chat /\ x.hasty = hasty
  BY DEF NoOp
<1>7. x \in OpType
  BY <1>4, Blank DEF NoOp, OpType, Copies
<1> HIDE DEF x, chat
<1>8. hasty = (kind = "rollover" /\ Unsettled(dst))
  BY <1>5
<1> HIDE DEF hasty
<1> QED  BY <1>1, <1>2, <1>5, <1>6, <1>7, <1>8

LEMMA LaunchDoes ==
  ASSUME CaptureType, NEW o \in Ops, Launch(o), op[o].dst \in Sessions
  PROVE  /\ op[o].pc = "launch"
         /\ \E x \in OpType :
              /\ op' = [op EXCEPT ![o] = x]
              /\ x.pc = IF op[o].kind = "rollover" THEN "load" ELSE "record"
              /\ x.kind = op[o].kind /\ x.dst = op[o].dst /\ x.chat = op[o].chat /\ x.hasty = op[o].hasty
         /\ \E a \in AgentType :
              /\ agent' = [agent EXCEPT ![op[o].dst] = a]
              /\ a.chat = op[o].chat \/ (op[o].kind # "resume" /\ a.chat \in Fresh)
              /\ op[o].kind = "resume" => a.chat = op[o].chat
              /\ op[o].kind # "resume" => a.chat \in Fresh
              /\ a.lazy = IF op[o].kind = "fork" THEN op[o].chat ELSE None
              /\ a.heard = FALSE /\ a.strayed = agent[op[o].dst].strayed
         /\ hook' = [hook EXCEPT ![op[o].dst] = NoHook]
         /\ UNCHANGED rec
<1> DEFINE d == op[o].dst
           chat == IF op[o].kind = "resume" THEN op[o].chat ELSE CHOOSE c \in Fresh : TRUE
           lazy == IF op[o].kind = "fork" THEN op[o].chat ELSE None
           a == [NoAgent EXCEPT !.chat = chat, !.lazy = lazy, !.strayed = agent[d].strayed]
           pc == IF op[o].kind = "rollover" THEN "load" ELSE "record"
           x == [op[o] EXCEPT !.pc = pc]
<1>1. op[o] \in OpType /\ agent[d] \in AgentType
  BY DEF CaptureType
<1>2. /\ op[o].pc = "launch" /\ agent' = [agent EXCEPT ![d] = a] /\ op' = [op EXCEPT ![o].pc = pc]
      /\ hook' = [hook EXCEPT ![d] = NoHook] /\ UNCHANGED rec
      /\ op[o].kind # "resume" => Fresh # {}
  BY DEF Launch
<1>3. op' = [op EXCEPT ![o] = x]
  BY <1>2
<1>4. (op[o].kind = "resume" => chat = op[o].chat) /\ (op[o].kind # "resume" => chat \in Fresh)
  BY <1>2
<1>5. chat \in Chats \cup {None} /\ lazy \in Chats \cup {None} /\ agent[d].strayed \in BOOLEAN
  BY <1>1, <1>4 DEF Fresh, OpType, AgentType
<1>6. /\ a.chat = chat /\ a.lazy = lazy /\ a.heard = FALSE /\ a.strayed = agent[d].strayed
  BY DEF NoAgent
<1>7. a \in AgentType
  BY <1>5 DEF NoAgent, AgentType
<1>8. /\ x \in OpType /\ x.pc = pc /\ x.kind = op[o].kind /\ x.dst = d /\ x.chat = op[o].chat
      /\ x.hasty = op[o].hasty
  BY <1>1 DEF OpType
<1> HIDE DEF a, x, chat
<1> QED  BY <1>2, <1>3, <1>4, <1>6, <1>7, <1>8

LEMMA FireDoes ==
  ASSUME CaptureType, NEW s \in Sessions, NEW event \in {"session-start", "prompt-submit", "stop"},
         NEW to \in Sessions, Fire(s, event, to)
  PROVE  /\ agent[s].chat # None /\ hook[s].pc = "idle"
         /\ \E a \in AgentType :
              /\ agent' = [agent EXCEPT ![s] = a]
              /\ a.chat = agent[s].chat /\ a.lazy \in {agent[s].lazy, None} /\ a.heard = agent[s].heard
              /\ a.strayed = (agent[s].strayed \/ to # s)
         /\ \E h \in HookType :
              /\ hook' = [hook EXCEPT ![s] = h]
              /\ h.pc = "load" /\ h.to = to /\ h.id \in {agent[s].chat, agent[s].lazy} \ {None}
              /\ h.after = (to = s /\ Settled(s))
         /\ UNCHANGED <<rec, op>>
<1> DEFINE lazy == IF event = "prompt-submit" THEN None ELSE agent[s].lazy
           strayed == agent[s].strayed \/ to # s
           a == [agent[s] EXCEPT !.lazy = lazy, !.strayed = strayed]
           id == IF event = "session-start" /\ agent[s].lazy # None THEN agent[s].lazy ELSE agent[s].chat
           after == to = s /\ Settled(s)
           h == [NoHook EXCEPT !.pc = "load", !.event = event, !.to = to, !.id = id, !.after = after]
<1>1. agent[s] \in AgentType
  BY DEF CaptureType
<1>2. /\ agent[s].chat # None /\ hook[s].pc = "idle" /\ UNCHANGED <<rec, op>>
      /\ hook' = [hook EXCEPT ![s] = h]
  BY DEF Fire
<1>3. agent' = [agent EXCEPT ![s].lazy = lazy, ![s].strayed = strayed]
  BY DEF Fire
<1>4. agent' = [agent EXCEPT ![s] = a]
  BY <1>1, <1>3 DEF CaptureType, AgentType
<1>5. /\ a \in AgentType /\ a.chat = agent[s].chat /\ a.lazy = lazy /\ a.heard = agent[s].heard
      /\ a.strayed = strayed
  BY <1>1 DEF AgentType
<1>6. id \in {agent[s].chat, agent[s].lazy} \ {None} /\ id \in Chats \cup {None} /\ after \in BOOLEAN
  BY <1>1, <1>2 DEF AgentType
<1>7. h.pc = "load" /\ h.to = to /\ h.id = id /\ h.after = after
  BY DEF NoHook
<1>8. h \in HookType
  BY <1>6 DEF NoHook, HookType, Copies
<1> HIDE DEF a, h, id
<1> QED  BY <1>2, <1>4, <1>5, <1>6, <1>7, <1>8

LEMMA ToStateDoes ==
  ASSUME CaptureType, NEW s \in Sessions, ToState(s)
  PROVE  \E h \in HookType :
           /\ hook' = [hook EXCEPT ![s] = h]
           /\ \/ h.pc = "idle"
              \/ /\ h.pc = "state load" /\ hook[s].event # "session-start" /\ h.event = hook[s].event
                 /\ h.id = hook[s].id /\ h.to = hook[s].to /\ h.after = hook[s].after
<1>1. hook[s] \in HookType
  BY DEF CaptureType
<1>2. CASE hook[s].event = "session-start"
  <2>1. hook' = [hook EXCEPT ![s] = NoHook] /\ NoHook.pc = "idle"
    BY <1>2 DEF ToState, Ends, NoHook
  <2> QED  BY <2>1, Blank
<1>3. CASE hook[s].event # "session-start"
  <2> DEFINE h == [hook[s] EXCEPT !.pc = "state load", !.copy = None]
  <2>1. hook' = [hook EXCEPT ![s].pc = "state load", ![s].copy = None]
    BY <1>3 DEF ToState
  <2>2. hook' = [hook EXCEPT ![s] = h]
    BY <1>1, <2>1 DEF CaptureType, HookType
  <2>3. /\ h \in HookType /\ h.pc = "state load" /\ h.event = hook[s].event
        /\ h.id = hook[s].id /\ h.to = hook[s].to /\ h.after = hook[s].after
    BY <1>1 DEF HookType, Copies
  <2> QED  BY <1>3, <2>2, <2>3
<1> QED  BY <1>2, <1>3

\* A hook that has moved on is the same hook.
Same(h, k) == h.event = k.event /\ h.id = k.id /\ h.to = k.to /\ h.after = k.after

LEMMA HookLoadsDoes ==
  ASSUME CaptureType, NEW s \in Sessions, HookLoads(s), hook[s].to \in Sessions
  PROVE  /\ hook[s].pc = "load" /\ UNCHANGED <<rec, agent, op>>
         /\ \E h \in HookType :
              /\ hook' = [hook EXCEPT ![s] = h]
              /\ \/ h.pc = "idle"
                 \/ /\ h.pc = "scan" /\ Same(h, hook[s]) /\ rec[h.to] # None /\ h.copy = rec[h.to]
                    /\ MayLoad(h.to) /\ Fills(rec[h.to], h.id)
                 \/ /\ h.pc = "state load" /\ Same(h, hook[s]) /\ rec[h.to] # None
                    /\ h.event = "prompt-submit" => ~Fills(rec[h.to], h.id)
<1> DEFINE to == hook[s].to
<1>1. hook[s] \in HookType /\ hook[s].pc = "load" /\ UNCHANGED <<rec, agent, op>>
  BY DEF CaptureType, HookLoads
<1>2. CASE rec[to] = None
  <2>1. hook' = [hook EXCEPT ![s] = NoHook] /\ NoHook.pc = "idle"
    BY <1>2 DEF HookLoads, Ends, NoHook
  <2> QED  BY <1>1, <2>1, Blank
<1>3. CASE rec[to] # None /\ hook[s].event \in CaptureEvents /\ Fills(rec[to], hook[s].id)
  <2> DEFINE h == [hook[s] EXCEPT !.pc = "scan", !.copy = rec[to]]
  <2>1. MayLoad(to) /\ hook' = [hook EXCEPT ![s].pc = "scan", ![s].copy = rec[to]]
    BY <1>3 DEF HookLoads
  <2>2. hook' = [hook EXCEPT ![s] = h]
    BY <1>1, <2>1 DEF CaptureType, HookType
  <2>3. rec[to] \in Copies
    BY DEF CaptureType
  <2>4. h \in HookType /\ h.pc = "scan" /\ Same(h, hook[s]) /\ h.copy = rec[to] /\ h.to = to /\ h.id = hook[s].id
    BY <1>1, <2>3 DEF HookType, Same
  <2> HIDE DEF h
  <2> QED  BY <1>1, <1>3, <2>1, <2>2, <2>4
<1>4. CASE rec[to] # None /\ ~(hook[s].event \in CaptureEvents /\ Fills(rec[to], hook[s].id))
  <2>1. ToState(s)
    BY <1>4 DEF HookLoads
  <2>2. PICK h \in HookType :
           /\ hook' = [hook EXCEPT ![s] = h]
           /\ \/ h.pc = "idle"
              \/ /\ h.pc = "state load" /\ hook[s].event # "session-start" /\ h.event = hook[s].event
                 /\ h.id = hook[s].id /\ h.to = hook[s].to /\ h.after = hook[s].after
    BY <2>1, ToStateDoes
  <2> QED  BY <1>1, <1>4, <2>2 DEF Same, CaptureEvents
<1> QED  BY <1>2, <1>3, <1>4

LEMMA HookScansDoes ==
  ASSUME CaptureType, NEW s \in Sessions, HookScans(s)
  PROVE  /\ hook[s].pc = "scan" /\ UNCHANGED <<rec, agent, op>>
         /\ \E h \in HookType :
              /\ hook' = [hook EXCEPT ![s] = h]
              /\ \/ h.pc = "idle"
                 \/ /\ h.pc = "fill" /\ Same(h, hook[s]) /\ h.copy = hook[s].copy
                    /\ ~Owned(hook[s].to, hook[s].id)
                    /\ Overlaps \/ \A t \in Sessions : hook[t].pc # "fill"
                 \/ h.pc = "state load" /\ Same(h, hook[s]) /\ Owned(hook[s].to, hook[s].id)
<1>1. hook[s] \in HookType /\ hook[s].pc = "scan" /\ UNCHANGED <<rec, agent, op>>
  BY DEF CaptureType, HookScans
<1>2. CASE Owned(hook[s].to, hook[s].id)
  <2>1. ToState(s)
    BY <1>2 DEF HookScans
  <2>2. PICK h \in HookType :
           /\ hook' = [hook EXCEPT ![s] = h]
           /\ \/ h.pc = "idle"
              \/ /\ h.pc = "state load" /\ hook[s].event # "session-start" /\ h.event = hook[s].event
                 /\ h.id = hook[s].id /\ h.to = hook[s].to /\ h.after = hook[s].after
    BY <2>1, ToStateDoes
  <2> QED  BY <1>1, <1>2, <2>2 DEF Same
<1>3. CASE ~Owned(hook[s].to, hook[s].id)
  <2> DEFINE h == [hook[s] EXCEPT !.pc = "fill"]
  <2>1. hook' = [hook EXCEPT ![s] = h] /\ (Overlaps \/ \A t \in Sessions : hook[t].pc # "fill")
    BY <1>3 DEF HookScans
  <2>2. h \in HookType /\ h.pc = "fill" /\ Same(h, hook[s]) /\ h.copy = hook[s].copy
    BY <1>1 DEF HookType, Same
  <2> HIDE DEF h
  <2> QED  BY <1>1, <1>3, <2>1, <2>2
<1> QED  BY <1>2, <1>3

LEMMA HookFillsDoes ==
  ASSUME CaptureType, NEW s \in Sessions, HookFills(s)
  PROVE  /\ hook[s].pc = "fill" /\ UNCHANGED <<agent, op>>
         /\ rec' = [rec EXCEPT ![hook[s].to] =
                      [hook[s].copy EXCEPT ![Latest(PendingAt(hook[s].copy))].id = hook[s].id]]
         /\ \E h \in HookType :
              /\ hook' = [hook EXCEPT ![s] = h]
              /\ h.pc = "idle" \/ (h.pc = "state load" /\ Same(h, hook[s]))
<1>1. ToState(s)
  BY DEF HookFills
<1>2. PICK h \in HookType :
         /\ hook' = [hook EXCEPT ![s] = h]
         /\ \/ h.pc = "idle"
            \/ /\ h.pc = "state load" /\ hook[s].event # "session-start" /\ h.event = hook[s].event
               /\ h.id = hook[s].id /\ h.to = hook[s].to /\ h.after = hook[s].after
  BY <1>1, ToStateDoes
<1> QED  BY <1>2 DEF Same, HookFills

LEMMA StateLoadsDoes ==
  ASSUME CaptureType, NEW s \in Sessions, StateLoads(s), hook[s].to \in Sessions
  PROVE  /\ hook[s].pc = "state load" /\ UNCHANGED <<rec, agent, op>> /\ MayLoad(hook[s].to)
         /\ \E h \in HookType :
              /\ hook' = [hook EXCEPT ![s] = h]
              /\ h.pc = "state save" /\ Same(h, hook[s]) /\ h.copy = rec[hook[s].to]
<1> DEFINE h == [hook[s] EXCEPT !.pc = "state save", !.copy = rec[hook[s].to]]
<1>1. hook[s] \in HookType /\ hook[s].pc = "state load" /\ UNCHANGED <<rec, agent, op>> /\ MayLoad(hook[s].to)
  BY DEF CaptureType, StateLoads
<1>2. hook' = [hook EXCEPT ![s].pc = "state save", ![s].copy = rec[hook[s].to]]
  BY DEF StateLoads
<1>3. hook' = [hook EXCEPT ![s] = h]
  BY <1>1, <1>2 DEF CaptureType, HookType
<1>4. rec[hook[s].to] \in Copies
  BY DEF CaptureType
<1>5. h \in HookType /\ h.pc = "state save" /\ Same(h, hook[s]) /\ h.copy = rec[hook[s].to]
  BY <1>1, <1>4 DEF HookType, Same
<1> HIDE DEF h
<1> QED  BY <1>1, <1>3, <1>5

LEMMA StateSavesDoes ==
  ASSUME CaptureType, NEW s \in Sessions, StateSaves(s), hook[s].copy = rec[hook[s].to], hook[s].to \in Sessions
  PROVE  /\ hook[s].pc = "state save" /\ UNCHANGED <<rec, op>>
         /\ hook' = [hook EXCEPT ![s] = NoHook]
         /\ \E a \in AgentType :
              /\ agent' = [agent EXCEPT ![s] = a]
              /\ a.chat = agent[s].chat /\ a.lazy = agent[s].lazy /\ a.strayed = agent[s].strayed
              /\ a.heard => agent[s].heard \/ HeardOf(s)
<1>1. /\ hook[s] \in HookType /\ agent[s] \in AgentType /\ hook[s].pc = "state save" /\ UNCHANGED op
      /\ hook' = [hook EXCEPT ![s] = NoHook]
  BY DEF CaptureType, StateSaves, Ends
<1>2. UNCHANGED rec
  BY DEF StateSaves, CaptureType
<1>3. CASE hook[s].event = "prompt-submit" /\ hook[s].id = agent[s].chat
  <2> DEFINE heard == agent[s].heard \/ hook[s].after
             a == [agent[s] EXCEPT !.heard = heard]
  <2>1. agent' = [agent EXCEPT ![s].heard = heard]
    BY <1>3 DEF StateSaves
  <2>2. agent' = [agent EXCEPT ![s] = a]
    BY <1>1, <2>1 DEF CaptureType, AgentType
  <2>3. a \in AgentType /\ a.chat = agent[s].chat /\ a.lazy = agent[s].lazy /\ a.strayed = agent[s].strayed /\ a.heard = heard
    BY <1>1 DEF AgentType, HookType
  <2>4. a.heard => agent[s].heard \/ HeardOf(s)
    BY <1>1, <1>3, <2>3 DEF HeardOf, AgentType, HookType
  <2> QED  BY <1>1, <1>2, <2>2, <2>3, <2>4
<1>4. CASE ~(hook[s].event = "prompt-submit" /\ hook[s].id = agent[s].chat)
  <2>1. agent' = [agent EXCEPT ![s] = agent[s]]
    BY <1>4 DEF StateSaves, CaptureType
  <2> QED  BY <1>1, <1>2, <2>1
<1> QED  BY <1>3, <1>4

LEMMA LoadDoes ==
  ASSUME CaptureType, NEW o \in Ops, LoadForRef(o), op[o].dst \in Sessions
  PROVE  /\ op[o].pc = "load" /\ MayLoad(op[o].dst) /\ UNCHANGED <<rec, agent, hook>>
         /\ \E x \in OpType :
              /\ op' = [op EXCEPT ![o] = x]
              /\ x.pc = "save" /\ x.kind = op[o].kind /\ x.dst = op[o].dst /\ x.chat = op[o].chat
              /\ x.hasty = op[o].hasty /\ x.copy = rec[op[o].dst]
<1> DEFINE x == [op[o] EXCEPT !.pc = "save", !.copy = rec[op[o].dst]]
<1>1. op[o] \in OpType /\ op[o].pc = "load" /\ MayLoad(op[o].dst) /\ UNCHANGED <<rec, agent, hook>>
  BY DEF CaptureType, LoadForRef
<1>2. op' = [op EXCEPT ![o].pc = "save", ![o].copy = rec[op[o].dst]]
  BY DEF LoadForRef
<1>3. op' = [op EXCEPT ![o] = x]
  BY <1>1, <1>2 DEF CaptureType, OpType
<1>4. rec[op[o].dst] \in Copies
  BY DEF CaptureType
<1>5. /\ x \in OpType /\ x.pc = "save" /\ x.kind = op[o].kind /\ x.dst = op[o].dst
      /\ x.chat = op[o].chat /\ x.hasty = op[o].hasty /\ x.copy = rec[op[o].dst]
  BY <1>1, <1>4 DEF OpType
<1> HIDE DEF x
<1> QED  BY <1>1, <1>3, <1>5

LEMMA RecordDoes ==
  ASSUME CaptureType, NEW o \in Ops, RecordSpawn(o), op[o].dst \in Sessions, op[o].kind # "rollover"
  PROVE  /\ op[o].pc = "record" /\ UNCHANGED <<agent, hook>>
         /\ \E chats \in Seq(Refs), x \in OpType :
              /\ rec' = [rec EXCEPT ![op[o].dst] = chats]
              /\ chats = IF op[o].kind = "original" THEN <<Pending("original", None)>> ELSE <<>>
              /\ op' = [op EXCEPT ![o] = x]
              /\ x.kind = op[o].kind /\ x.dst = op[o].dst /\ x.chat = op[o].chat /\ x.hasty = op[o].hasty
              /\ op[o].kind = "original" => x.pc = "over"
              /\ op[o].kind = "resume" => x.pc = "save" /\ x.copy = chats
              /\ op[o].kind \notin {"original", "resume"} => x.pc = "load"
<1> DEFINE chats == IF op[o].kind = "original" THEN <<Pending("original", None)>> ELSE <<>>
           copy == IF op[o].kind = "resume" THEN chats ELSE None
           pc == CASE op[o].kind = "original" -> "over" [] op[o].kind = "resume" -> "save" [] OTHER -> "load"
           x == [op[o] EXCEPT !.copy = copy, !.pc = pc]
<1>1. op[o] \in OpType /\ op[o].pc = "record" /\ UNCHANGED <<agent, hook>> /\ rec' = [rec EXCEPT ![op[o].dst] = chats]
  BY DEF CaptureType, RecordSpawn
<1>2. op' = [op EXCEPT ![o].copy = copy, ![o].pc = pc]
  BY DEF RecordSpawn
<1>3. op' = [op EXCEPT ![o] = x]
  BY <1>1, <1>2 DEF CaptureType, OpType
<1>4. Pending("original", None) \in Refs
  BY DEF Pending, Ref, Refs, Kinds
<1>5. chats \in Seq(Refs)
  BY <1>4, EmptySeq
<1>6. /\ op[o].kind = "original" => pc = "over"
      /\ op[o].kind = "resume" => pc = "save"
      /\ op[o].kind \notin {"original", "resume"} => pc = "load"
  BY <1>1
<1> HIDE DEF chats, pc
<1>7. copy \in Copies /\ pc \in {"over", "save", "load"}
  BY <1>5, <1>6 DEF Copies
<1>8. /\ x \in OpType /\ x.pc = pc /\ x.kind = op[o].kind /\ x.dst = op[o].dst
      /\ x.chat = op[o].chat /\ x.hasty = op[o].hasty /\ x.copy = copy
  BY <1>1, <1>7 DEF OpType
<1> HIDE DEF x
<1>9. op[o].kind = "resume" => x.copy = chats
  BY <1>8
<1> QED  BY <1>1, <1>3, <1>5, <1>6, <1>8, <1>9 DEF chats

\* The list that an operation saves: what it loaded, with one more reference,
\* unless one like it is there.
LEMMA WithRefIs ==
  ASSUME CaptureType, NEW o \in Ops, op[o].copy \in Seq(Refs), op[o].chat \in Chats,
         op[o].kind # "original"
  PROVE  LET chats == op[o].copy
             new == WithRef(o)
             kind == op[o].kind
         IN  /\ new \in Seq(Refs) /\ Len(chats) \in Nat /\ DOMAIN chats = 1..Len(chats)
             /\ DOMAIN chats \subseteq DOMAIN new
             /\ \A i \in DOMAIN chats : /\ new[i].id = chats[i].id /\ new[i].role = chats[i].role
                                        /\ new[i].origin = chats[i].origin
                                        /\ chats[i].ended => new[i].ended
                                        /\ kind = "rollover" /\ chats[i].id = op[o].chat => new[i].ended
             /\ \A i \in DOMAIN new : i \in DOMAIN chats \/ i = Len(chats) + 1
             /\ \A i \in DOMAIN new \ DOMAIN chats :
                  new[i] = IF kind = "resume" THEN Ref(op[o].chat, "resume", op[o].chat)
                           ELSE Pending(kind, op[o].chat)
             /\ Ids(new) = Ids(chats) \cup (IF kind = "resume" THEN {op[o].chat} ELSE {})
             /\ kind = "resume" => PendingAt(new) = PendingAt(chats)
             /\ kind # "resume" => /\ kind # "fork" \/ chats = <<>> => PendingAt(new) # {}
                                   /\ PendingAt(new) \subseteq PendingAt(chats) \cup {Len(chats) + 1}
<1> DEFINE old == op[o].copy
           kind == op[o].kind
           chat == op[o].chat
           chats == IF kind = "rollover" THEN Closed(old, chat) ELSE old
           n == Len(old)
<1>1. kind \in Kinds /\ chat # None
  BY CaptureAssumption DEF CaptureType, OpType
<1>2. n \in Nat /\ DOMAIN old = 1..n /\ \A i \in 1..n : old[i] \in Refs
  BY LenProperties
<1>3. /\ chats \in Seq(Refs) /\ DOMAIN chats = DOMAIN old
      /\ \A i \in DOMAIN old : /\ chats[i].id = old[i].id /\ chats[i].role = old[i].role
                               /\ chats[i].origin = old[i].origin
                               /\ old[i].ended => chats[i].ended
                               /\ kind = "rollover" /\ old[i].id = chat => chats[i].ended
      /\ Ids(chats) = Ids(old) /\ PendingAt(chats) = PendingAt(old)
  <2>1. CASE kind = "rollover"
    <3> DEFINE new == Closed(old, chat)
    <3>1. /\ new \in Seq(Refs) /\ DOMAIN new = DOMAIN old
          /\ \A i \in DOMAIN old :
              /\ new[i].id = old[i].id /\ new[i].role = old[i].role
              /\ new[i].origin = old[i].origin
              /\ new[i].ended <=> (old[i].ended \/ old[i].id = chat)
          /\ Ids(new) = Ids(old) /\ PendingAt(new) = PendingAt(old)
      BY ClosedRefs
    <3> HIDE DEF new
    <3>2. chats = new
      BY <2>1 DEF new
    <3> QED  BY <3>1, <3>2
  <2>2. CASE kind # "rollover"
    <3>1. chats = old
      BY <2>2
    <3> QED  BY <2>2, <3>1
  <2> QED  BY <2>1, <2>2
<1>4. Len(chats) = n
  BY <1>2, <1>3, LenProperties
<1>5. WithRef(o) = IF kind = "resume" THEN Append(chats, Ref(chat, "resume", chat))
                   ELSE IF Already(chats, kind, chat) THEN chats ELSE Append(chats, Pending(kind, chat))
  BY DEF WithRef
<1> HIDE DEF chats
<1>6. CASE kind = "resume"
  <2> DEFINE ref == Ref(chat, "resume", chat)
             new == Append(chats, ref)
  <2>1. ref \in Refs /\ ref.id = chat /\ ref.id # None
    BY <1>1 DEF Ref, Refs, Kinds
  <2> HIDE DEF ref
  <2>2. /\ new \in Seq(Refs) /\ DOMAIN new = 1..(n + 1)
        /\ (\A i \in 1..n : new[i] = chats[i]) /\ new[n + 1] = ref
        /\ Ids(new) = Ids(chats) \cup ({ref.id} \ {None})
    BY <1>3, <1>4, <2>1, AppendRef
  <2> HIDE DEF new
  <2>3. Ids(new) = Ids(old) \cup {chat}
    BY <1>3, <2>1, <2>2
  <2>4. \A i \in 1..(n + 1) : i \in 1..n \/ i = n + 1
    BY <1>2
  <2>5. PendingAt(new) = PendingAt(old)
    BY <1>2, <1>3, <2>1, <2>2, <2>4 DEF PendingAt
  <2>6. WithRef(o) = new
    BY <1>5, <1>6 DEF new, ref
  <2>7. \A i \in DOMAIN new \ DOMAIN old : new[i] = Ref(chat, "resume", chat)
    BY <1>2, <2>2, <2>4 DEF ref
  <2>8. 1..n \subseteq 1..(n + 1)
    BY <1>2
  <2> QED  BY <1>2, <1>3, <1>6, <2>2, <2>3, <2>4, <2>5, <2>6, <2>7, <2>8
<1>7. CASE kind # "resume" /\ ~Already(chats, kind, chat)
  <2> DEFINE ref == Pending(kind, chat)
             new == Append(chats, ref)
  <2>1. ref \in Refs /\ ref.id = None
    BY <1>1 DEF Pending, Ref, Refs
  <2> HIDE DEF ref
  <2>2. /\ new \in Seq(Refs) /\ DOMAIN new = 1..(n + 1)
        /\ (\A i \in 1..n : new[i] = chats[i]) /\ new[n + 1] = ref
        /\ Ids(new) = Ids(chats) \cup ({ref.id} \ {None})
        /\ PendingAt(new) = PendingAt(chats) \cup {n + 1}
    BY <1>3, <1>4, <2>1, AppendRef
  <2> HIDE DEF new
  <2>3. Ids(new) = Ids(old)
    BY <1>3, <2>1, <2>2
  <2>4. \A i \in 1..(n + 1) : i \in 1..n \/ i = n + 1
    BY <1>2
  <2>6. WithRef(o) = new
    BY <1>5, <1>7 DEF new, ref
  <2>7. \A i \in DOMAIN new \ DOMAIN old : new[i] = Pending(kind, chat)
    BY <1>2, <2>2, <2>4 DEF ref
  <2>8. 1..n \subseteq 1..(n + 1)
    BY <1>2
  <2> QED  BY <1>2, <1>3, <1>7, <2>2, <2>3, <2>4, <2>6, <2>7, <2>8
<1>8. CASE kind # "resume" /\ Already(chats, kind, chat)
  <2>1. WithRef(o) = chats
    BY <1>5, <1>8
  <2>2. kind # "fork" \/ old = <<>> => PendingAt(chats) # {}
    <3>1. PICK i \in DOMAIN chats : kind # "fork" => chats[i].id = None
      BY <1>8 DEF Already
    <3>2. old # <<>>
      BY <1>3, <3>1
    <3> QED  BY <3>1, <3>2 DEF PendingAt
  <2> QED  BY <1>2, <1>3, <1>8, <2>1, <2>2
<1> QED  BY <1>6, <1>7, <1>8

LEMMA SaveDoes ==
  ASSUME CaptureType, NEW o \in Ops, SaveRef(o), op[o].dst \in Sessions
  PROVE  /\ op[o].pc = "save" /\ UNCHANGED <<agent, hook>>
         /\ rec' = [rec EXCEPT ![op[o].dst] = WithRef(o)]
         /\ \E x \in OpType :
              /\ op' = [op EXCEPT ![o] = x]
              /\ x.pc = "over" /\ x.kind = op[o].kind /\ x.dst = op[o].dst /\ x.chat = op[o].chat
              /\ x.hasty = op[o].hasty
<1> DEFINE x == [op[o] EXCEPT !.pc = "over", !.copy = None]
<1>1. /\ op[o] \in OpType /\ op[o].pc = "save" /\ UNCHANGED <<agent, hook>>
      /\ rec' = [rec EXCEPT ![op[o].dst] = WithRef(o)]
  BY DEF CaptureType, SaveRef
<1>2. op' = [op EXCEPT ![o].pc = "over", ![o].copy = None]
  BY DEF SaveRef
<1>3. op' = [op EXCEPT ![o] = x]
  BY <1>1, <1>2 DEF CaptureType, OpType
<1>4. /\ x \in OpType /\ x.pc = "over" /\ x.kind = op[o].kind /\ x.dst = op[o].dst
      /\ x.chat = op[o].chat /\ x.hasty = op[o].hasty
  BY <1>1 DEF OpType, Copies
<1> HIDE DEF x
<1> QED  BY <1>1, <1>3, <1>4

----------------------------------------------------------------------------
(* Records only gain chats.                                                 *)

\* The record of d is written with chats that hold those it had.
Writes(d, chats) ==
    /\ d \in Sessions /\ chats \in Seq(Refs) /\ IdsOf(d) \subseteq Ids(chats)
    /\ rec' = [rec EXCEPT ![d] = chats]

LEMMA IdsAreChats ==
  ASSUME CaptureType, NEW s \in Sessions
  PROVE  IdsOf(s) \subseteq AllIds /\ \A chats \in Seq(Refs) : Ids(chats) \subseteq Chats
<1>1. ASSUME NEW chats \in Seq(Refs) PROVE Ids(chats) \subseteq Chats
  <2>1. \A i \in DOMAIN chats : chats[i] \in Refs
    BY LenProperties
  <2> QED  BY <2>1 DEF Ids, Refs
<1>2. IdsOf(s) \subseteq Chats
  BY <1>1 DEF IdsOf, CaptureType, Copies
<1> QED  BY <1>1, <1>2 DEF AllIds

LEMMA NoneIsNoList == None \notin Seq(Refs) /\ None \notin Sessions /\ None \notin Chats /\ None # <<>>
BY CaptureAssumption, EmptySeq

LEMMA WritesGrow ==
  ASSUME CaptureType, NEW d \in Sessions, NEW chats \in Seq(Refs), Writes(d, chats)
  PROVE  /\ rec' \in [Sessions -> Copies] /\ rec'[d] = chats /\ chats # None
         /\ \A s \in Sessions \ {d} : rec'[s] = rec[s]
         /\ \A s \in Sessions : rec[s] # None => rec'[s] # None
         /\ \A s \in Sessions : IdsOf(s)' = IF s = d THEN Ids(chats) ELSE IdsOf(s)
         /\ \A s \in Sessions : IdsOf(s) \subseteq IdsOf(s)'
         /\ AllIds' = AllIds \cup Ids(chats)
<1>1. /\ rec' \in [Sessions -> Copies] /\ rec'[d] = chats /\ chats # None
      /\ \A s \in Sessions \ {d} : rec'[s] = rec[s]
  BY NoneIsNoList DEF CaptureType, Copies, Writes
<1>2. \A s \in Sessions : rec[s] # None => rec'[s] # None
  BY <1>1
<1>3. ASSUME NEW s \in Sessions PROVE IdsOf(s)' = IF s = d THEN Ids(chats) ELSE IdsOf(s)
  BY <1>1 DEF IdsOf
<1>4. \A s \in Sessions : IdsOf(s) \subseteq IdsOf(s)'
  BY <1>3 DEF Writes
<1>5. Ids(chats) \subseteq Chats
  BY IdsAreChats
<1>6. \A c : c \in AllIds' <=> c \in Chats /\ \E s \in Sessions : c \in IdsOf(s)'
  BY DEF AllIds
<1>7. \A c : c \in AllIds <=> c \in Chats /\ \E s \in Sessions : c \in IdsOf(s)
  BY DEF AllIds
<1>8. AllIds' = AllIds \cup Ids(chats)
  BY <1>3, <1>4, <1>5, <1>6, <1>7
<1> QED  BY <1>1, <1>2, <1>3, <1>4, <1>8

LEMMA NothingWritten ==
  ASSUME UNCHANGED rec
  PROVE  AllIds' = AllIds /\ \A s \in Sessions : IdsOf(s)' = IdsOf(s)
BY DEF AllIds, IdsOf

----------------------------------------------------------------------------
(* The windows of two writers of one record do not overlap.                 *)

LEMMA LoadsAlone ==
  ASSUME ~Overlaps, NEW s \in Sessions, MayLoad(s)
  PROVE  (\A o \in Ops : ~OpWriter(o, s)) /\ \A h \in Sessions : ~HookWriter(h, s)
BY DEF MayLoad, Writers, OpWriter, HookWriter

LEMMA OpStays ==
  ASSUME NEW p \in Ops, OpFits(p), op'[p] = op[p], AllIds \subseteq AllIds',
         op[p].dst \in Sessions => rec'[op[p].dst] = rec[op[p].dst],
         op[p].kind = "resume" /\ op[p].pc \in {"record", "save"} =>
           agent'[op[p].dst].chat = agent[op[p].dst].chat
  PROVE  OpFits(p)'
<1>1. CASE op[p].pc = "idle"
  BY <1>1 DEF OpFits, NoOp
<1>2. CASE op[p].pc # "idle"
  <2>1. op[p].dst \in Sessions /\ rec'[op[p].dst] = rec[op[p].dst]
    BY <1>2 DEF OpFits
  <2>2. IdsOf(op[p].dst)' = IdsOf(op[p].dst)
    BY <2>1 DEF IdsOf
  <2> QED  BY <1>2, <2>1, <2>2 DEF OpFits
<1> QED  BY <1>1, <1>2

LEMMA HookStays ==
  ASSUME NEW h \in Sessions, HookFits(h), hook'[h] = hook[h], AllIds \subseteq AllIds',
         agent'[h].chat = agent[h].chat, agent[h].strayed => agent'[h].strayed,
         hook[h].pc \notin {"idle", "load"} /\ hook[h].to \in Sessions => rec'[hook[h].to] # None,
         hook[h].pc \in {"scan", "fill", "state save"} /\ hook[h].to \in Sessions =>
           rec'[hook[h].to] = rec[hook[h].to],
         hook[h].pc = "fill" => hook[h].id \notin AllIds',
         hook[h].after => \A o \in Ops : op'[o].dst = h => op'[o].pc \notin Recording
  PROVE  HookFits(h)'
BY DEF HookFits

LEMMA HookFitsAs ==
  ASSUME NEW s \in Sessions, NEW h, hook'[s] = h,
         h.pc # "idle" =>
           /\ h.to \in Sessions /\ h.id # None
           /\ h.id = agent'[s].chat \/ h.id \in AllIds'
           /\ ~agent'[s].strayed => h.to = s
           /\ h.pc # "load" => rec'[h.to] # None
           /\ h.pc \in {"scan", "fill", "state save"} => h.copy = rec'[h.to]
           /\ h.pc \in {"scan", "fill"} => Fills(rec'[h.to], h.id)
           /\ h.pc = "fill" => h.id \notin AllIds'
           /\ h.after => h.to = s /\ \A o \in Ops : op'[o].dst = s => op'[o].pc \notin Recording
  PROVE  HookFits(s)'
BY DEF HookFits

\* A step of a hook that writes no record.
LEMMA HookMoves ==
  ASSUME WindowsInv, NEW s \in Sessions, NEW h \in HookType, hook' = [hook EXCEPT ![s] = h],
         UNCHANGED <<rec, op>>, agent' \in [Sessions -> AgentType],
         \A t \in Sessions : /\ agent'[t].chat = agent[t].chat /\ agent'[t].lazy \in {agent[t].lazy, None}
                             /\ t # s => agent'[t].strayed = agent[t].strayed,
         HookFits(s)',
         h.pc \in {"scan", "fill", "state save"} =>
           \/ HookWriter(s, h.to)
           \/ (\A o \in Ops : ~OpWriter(o, h.to)) /\ \A k \in Sessions : ~HookWriter(k, h.to),
         h.pc = "fill" => \A k \in Sessions : hook[k].pc # "fill"
  PROVE  WindowsInv'
<1>1. CaptureType'
  BY DEF WindowsInv, CaptureType
<1>2. AllIds' = AllIds
  BY NothingWritten
<1>3. OpsFit'
  <2> SUFFICES ASSUME NEW p \in Ops PROVE OpFits(p)'
    BY DEF OpsFit
  <2>1. OpFits(p)
    BY DEF WindowsInv, OpsFit
  <2>2. op[p].pc # "idle" => op[p].dst \in Sessions
    BY <2>1 DEF OpFits
  <2> QED  BY <1>2, <2>1, <2>2, OpStays
<1>4. OpsApart'
  BY DEF WindowsInv, OpsApart
<1>5. hook'[s] = h /\ \A k \in Sessions \ {s} : hook'[k] = hook[k]
  BY DEF WindowsInv, CaptureType
<1>6. WritersApart'
  <2>1. \A o \in Ops, t \in Sessions : OpWriter(o, t)' <=> OpWriter(o, t)
    BY DEF OpWriter
  <2>2. \A k \in Sessions \ {s}, t \in Sessions : HookWriter(k, t)' <=> HookWriter(k, t)
    BY <1>5 DEF HookWriter
  <2>3. ASSUME NEW t \in Sessions, HookWriter(s, t)'
        PROVE  \/ HookWriter(s, t)
               \/ (\A o \in Ops : ~OpWriter(o, t)) /\ \A k \in Sessions : ~HookWriter(k, t)
    <3>1. h.to = t /\ h.pc \in {"scan", "fill", "state save"}
      BY <1>5, <2>3 DEF HookWriter
    <3> QED  BY <3>1
  <2>4. WritersApart
    BY DEF WindowsInv
  <2>5. \A t \in Sessions : \A o, p \in Ops : OpWriter(o, t)' /\ OpWriter(p, t)' => o = p
    BY <2>1, <2>4 DEF WritersApart
  <2>6. \A t, k, l \in Sessions : HookWriter(k, t)' /\ HookWriter(l, t)' => k = l
    BY <2>2, <2>3, <2>4 DEF WritersApart
  <2>7. \A t, k \in Sessions : \A o \in Ops : ~(HookWriter(k, t)' /\ OpWriter(o, t)')
    BY <2>1, <2>2, <2>3, <2>4 DEF WritersApart
  <2>8. \A k, l \in Sessions : hook'[k].pc = "fill" /\ hook'[l].pc = "fill" => k = l
    BY <1>5, <2>4 DEF WritersApart
  <2> QED  BY <2>5, <2>6, <2>7, <2>8 DEF WritersApart
<1>7. HooksFit'
  <2> SUFFICES ASSUME NEW k \in Sessions, k # s PROVE HookFits(k)'
    BY DEF HooksFit
  <2>1. HookFits(k)
    BY DEF WindowsInv, HooksFit
  <2>2. hook[k].pc # "idle" => hook[k].to \in Sessions
    BY <2>1 DEF HookFits
  <2>3. CASE hook[k].pc = "idle"
    BY <1>5, <2>3 DEF HookFits
  <2>4. CASE hook[k].pc # "idle"
    <3>1. hook[k].after => \A o \in Ops : op'[o].dst = k => op'[o].pc \notin Recording
      BY <2>1, <2>4 DEF HookFits
    <3>2. hook[k].pc # "load" => rec[hook[k].to] # None
      BY <2>1, <2>4 DEF HookFits
    <3>3. hook[k].pc = "fill" => hook[k].id \notin AllIds'
      BY <1>2, <2>1, <2>4 DEF HookFits
    <3> QED  BY <1>2, <1>5, <2>1, <3>1, <3>2, <3>3, HookStays
  <2> QED  BY <2>3, <2>4
<1>8. AgentsFit'
  BY <1>2 DEF WindowsInv, AgentsFit
<1> QED  BY <1>1, <1>3, <1>4, <1>6, <1>7, <1>8 DEF WindowsInv

LEMMA FireKeepsWindows ==
  ASSUME WindowsInv, NEW s \in Sessions, NEW event \in {"session-start", "prompt-submit", "stop"},
         NEW to \in Sessions, Fire(s, event, to)
  PROVE  WindowsInv'
<1>0. CaptureType /\ HookFits(s)
  BY DEF WindowsInv, HooksFit
<1>1. agent[s].chat # None /\ hook[s].pc = "idle" /\ UNCHANGED <<rec, op>>
  BY <1>0, FireDoes
<1>2. PICK a \in AgentType :
         /\ agent' = [agent EXCEPT ![s] = a]
         /\ a.chat = agent[s].chat /\ a.lazy \in {agent[s].lazy, None} /\ a.heard = agent[s].heard
         /\ a.strayed = (agent[s].strayed \/ to # s)
  BY <1>0, FireDoes
<1>3. PICK h \in HookType :
         /\ hook' = [hook EXCEPT ![s] = h]
         /\ h.pc = "load" /\ h.to = to /\ h.id \in {agent[s].chat, agent[s].lazy} \ {None}
         /\ h.after = (to = s /\ Settled(s))
  BY <1>0, FireDoes
<1>4. /\ agent' \in [Sessions -> AgentType] /\ agent'[s] = a
      /\ \A t \in Sessions : /\ agent'[t].chat = agent[t].chat /\ agent'[t].lazy \in {agent[t].lazy, None}
                             /\ t # s => agent'[t].strayed = agent[t].strayed
  BY <1>0, <1>2 DEF CaptureType
<1>5. hook'[s] = h
  BY <1>0, <1>3 DEF CaptureType
<1>6. AllIds' = AllIds
  BY <1>1, NothingWritten
<1>7. h.id = agent[s].chat \/ h.id \in AllIds
  BY <1>3 DEF WindowsInv, AgentsFit
<1>8. h.after => h.to = s /\ \A o \in Ops : op'[o].dst = s => op'[o].pc \notin Recording
  BY <1>1, <1>3 DEF Settled, Recording
<1>9. HookFits(s)'
  <2>1. ~agent'[s].strayed => h.to = s
    BY <1>2, <1>3, <1>4
  <2> QED  BY <1>3, <1>4, <1>2, <1>5, <1>6, <1>7, <1>8, <2>1, HookFitsAs
<1> QED  BY <1>1, <1>3, <1>4, <1>9, HookMoves

LEMMA HookLoadsKeepsWindows ==
  ASSUME WindowsInv, ~Overlaps, NEW s \in Sessions, HookLoads(s)
  PROVE  WindowsInv'
<1>0. CaptureType /\ HookFits(s)
  BY DEF WindowsInv, HooksFit
<1>1. hook[s].pc = "load" /\ hook[s].to \in Sessions
  BY <1>0 DEF HookLoads, HookFits
<1>2. UNCHANGED <<rec, agent, op>>
  BY <1>0, <1>1, HookLoadsDoes
<1>3. PICK h \in HookType :
         /\ hook' = [hook EXCEPT ![s] = h]
         /\ \/ h.pc = "idle"
            \/ /\ h.pc = "scan" /\ Same(h, hook[s]) /\ rec[h.to] # None /\ h.copy = rec[h.to]
               /\ MayLoad(h.to) /\ Fills(rec[h.to], h.id)
            \/ /\ h.pc = "state load" /\ Same(h, hook[s]) /\ rec[h.to] # None
               /\ h.event = "prompt-submit" => ~Fills(rec[h.to], h.id)
  BY <1>0, <1>1, HookLoadsDoes
<1>4. hook'[s] = h
  BY <1>0, <1>3 DEF CaptureType
<1>5. AllIds' = AllIds
  BY <1>2, NothingWritten
<1>6. HookFits(s)'
  <2>1. CASE h.pc = "idle"
    BY <1>4, <2>1 DEF HookFits
  <2>2. CASE h.pc # "idle"
    <3>1. Same(h, hook[s])
      BY <1>3, <2>2
    <3>2. /\ h.to \in Sessions /\ h.id # None
          /\ h.id = agent[s].chat \/ h.id \in AllIds
          /\ ~agent[s].strayed => h.to = s
          /\ h.after => h.to = s /\ \A o \in Ops : op[o].dst = s => op[o].pc \notin Recording
      BY <1>0, <1>1, <3>1 DEF HookFits, Same
    <3>3. rec[h.to] # None /\ (h.pc \in {"scan", "fill", "state save"} => h.copy = rec[h.to])
          /\ (h.pc \in {"scan", "fill"} => Fills(rec[h.to], h.id)) /\ h.pc # "fill"
      BY <1>1, <1>3, <2>2 DEF Same
    <3> QED  BY <1>2, <1>4, <1>5, <3>2, <3>3, HookFitsAs
  <2> QED  BY <2>1, <2>2
<1>7. h.pc = "scan" => (\A o \in Ops : ~OpWriter(o, h.to)) /\ \A k \in Sessions : ~HookWriter(k, h.to)
  <2>1. h.pc = "scan" => h.to \in Sessions /\ MayLoad(h.to)
    BY <1>1, <1>3 DEF Same
  <2> QED  BY <2>1, LoadsAlone
<1>8. h.pc \notin {"fill", "state save"}
  BY <1>3
<1>9. /\ agent' \in [Sessions -> AgentType]
      /\ \A t \in Sessions : /\ agent'[t].chat = agent[t].chat /\ agent'[t].lazy \in {agent[t].lazy, None}
                             /\ t # s => agent'[t].strayed = agent[t].strayed
  BY <1>0, <1>2 DEF CaptureType
<1> QED  BY <1>2, <1>3, <1>6, <1>7, <1>8, <1>9, HookMoves

\* What no record has but this, and this has not, is on none.
LEMMA UnownedIsNew ==
  ASSUME NEW s \in Sessions, NEW id, ~Owned(s, id), rec[s] # None, id \notin Ids(rec[s])
  PROVE  id \notin AllIds
BY DEF Owned, AllIds, IdsOf

LEMMA HookScansKeepsWindows ==
  ASSUME WindowsInv, ~Overlaps, NEW s \in Sessions, HookScans(s)
  PROVE  WindowsInv'
<1>0. CaptureType /\ HookFits(s)
  BY DEF WindowsInv, HooksFit
<1>1. hook[s].pc = "scan" /\ UNCHANGED <<rec, agent, op>>
  BY <1>0, HookScansDoes
<1>2. PICK h \in HookType :
        /\ hook' = [hook EXCEPT ![s] = h]
        /\ \/ h.pc = "idle"
           \/ /\ h.pc = "fill" /\ Same(h, hook[s]) /\ h.copy = hook[s].copy
              /\ ~Owned(hook[s].to, hook[s].id)
              /\ Overlaps \/ \A t \in Sessions : hook[t].pc # "fill"
           \/ h.pc = "state load" /\ Same(h, hook[s]) /\ Owned(hook[s].to, hook[s].id)
  BY <1>0, HookScansDoes
<1>3. /\ hook[s].to \in Sessions /\ rec[hook[s].to] # None /\ hook[s].copy = rec[hook[s].to]
      /\ Fills(rec[hook[s].to], hook[s].id)
  BY <1>0, <1>1 DEF HookFits
<1>4. hook'[s] = h
  BY <1>0, <1>2 DEF CaptureType
<1>5. AllIds' = AllIds
  BY <1>1, NothingWritten
<1>6. h.pc = "fill" => h.id \notin AllIds
  <2>1. h.pc = "fill" => ~Owned(hook[s].to, hook[s].id) /\ h.id = hook[s].id
    BY <1>2 DEF Same
  <2>2. hook[s].id \notin Ids(rec[hook[s].to])
    BY <1>3 DEF Fills
  <2> QED  BY <1>3, <2>1, <2>2, UnownedIsNew
<1>7. HookFits(s)'
  <2>1. CASE h.pc = "idle"
    BY <1>4, <2>1 DEF HookFits
  <2>2. CASE h.pc # "idle"
    <3>1. Same(h, hook[s])
      BY <1>2, <2>2
    <3>2. /\ h.to \in Sessions /\ h.id # None
          /\ h.id = agent[s].chat \/ h.id \in AllIds
          /\ ~agent[s].strayed => h.to = s
          /\ h.after => h.to = s /\ \A o \in Ops : op[o].dst = s => op[o].pc \notin Recording
      BY <1>0, <1>1, <3>1 DEF HookFits, Same
    <3>3. rec[h.to] # None /\ (h.pc \in {"scan", "fill", "state save"} => h.copy = rec[h.to])
          /\ Fills(rec[h.to], h.id) /\ (h.pc = "fill" => h.id \notin AllIds)
      BY <1>2, <1>3, <1>6, <2>2, <3>1 DEF Same
    <3> QED  BY <1>1, <1>4, <1>5, <3>2, <3>3, HookFitsAs
  <2> QED  BY <2>1, <2>2
<1>8. h.pc \in {"scan", "fill", "state save"} => HookWriter(s, h.to)
  BY <1>1, <1>2, <1>3 DEF HookWriter, Same
<1>9. /\ agent' \in [Sessions -> AgentType]
      /\ \A t \in Sessions : /\ agent'[t].chat = agent[t].chat /\ agent'[t].lazy \in {agent[t].lazy, None}
                             /\ t # s => agent'[t].strayed = agent[t].strayed
  BY <1>0, <1>1 DEF CaptureType
<1>10. h.pc = "fill" => \A k \in Sessions : hook[k].pc # "fill"
  BY <1>2
<1> QED  BY <1>1, <1>2, <1>7, <1>8, <1>9, <1>10, HookMoves

LEMMA StateLoadsKeepsWindows ==
  ASSUME WindowsInv, ~Overlaps, NEW s \in Sessions, StateLoads(s)
  PROVE  WindowsInv'
<1>0. CaptureType /\ HookFits(s)
  BY DEF WindowsInv, HooksFit
<1>1. hook[s].pc = "state load" /\ hook[s].to \in Sessions /\ rec[hook[s].to] # None
  BY <1>0 DEF StateLoads, HookFits
<1>2. UNCHANGED <<rec, agent, op>> /\ MayLoad(hook[s].to)
  BY <1>0, <1>1, StateLoadsDoes
<1>3. PICK h \in HookType :
        /\ hook' = [hook EXCEPT ![s] = h]
        /\ h.pc = "state save" /\ Same(h, hook[s]) /\ h.copy = rec[hook[s].to]
  BY <1>0, <1>1, StateLoadsDoes
<1>4. hook'[s] = h
  BY <1>0, <1>3 DEF CaptureType
<1>5. AllIds' = AllIds
  BY <1>2, NothingWritten
<1>6. HookFits(s)'
  <2>1. CASE h.pc = "idle"
    BY <1>4, <2>1 DEF HookFits
  <2>2. CASE h.pc # "idle"
    <3>1. Same(h, hook[s])
      BY <1>3, <2>2
    <3>2. /\ h.to \in Sessions /\ h.id # None
          /\ h.id = agent[s].chat \/ h.id \in AllIds
          /\ ~agent[s].strayed => h.to = s
          /\ h.after => h.to = s /\ \A o \in Ops : op[o].dst = s => op[o].pc \notin Recording
      BY <1>0, <1>1, <3>1 DEF HookFits, Same
    <3>3. rec[h.to] # None /\ (h.pc \in {"scan", "fill", "state save"} => h.copy = rec[h.to])
          /\ (h.pc \in {"scan", "fill"} => Fills(rec[h.to], h.id)) /\ h.pc # "fill"
      BY <1>1, <1>3, <2>2 DEF Same
    <3> QED  BY <1>2, <1>4, <1>5, <3>2, <3>3, HookFitsAs
  <2> QED  BY <2>1, <2>2
<1>7. (\A o \in Ops : ~OpWriter(o, h.to)) /\ \A k \in Sessions : ~HookWriter(k, h.to)
  BY <1>1, <1>2, <1>3, LoadsAlone DEF Same
<1>9. /\ agent' \in [Sessions -> AgentType]
      /\ \A t \in Sessions : /\ agent'[t].chat = agent[t].chat /\ agent'[t].lazy \in {agent[t].lazy, None}
                             /\ t # s => agent'[t].strayed = agent[t].strayed
  BY <1>0, <1>2 DEF CaptureType
<1> QED  BY <1>2, <1>3, <1>6, <1>7, <1>9, HookMoves

LEMMA StateSavesKeepsWindows ==
  ASSUME WindowsInv, NEW s \in Sessions, StateSaves(s)
  PROVE  WindowsInv' /\ UNCHANGED rec
<1>0. CaptureType /\ HookFits(s)
  BY DEF WindowsInv, HooksFit
<1>1. hook[s].pc = "state save" /\ hook[s].to \in Sessions /\ hook[s].copy = rec[hook[s].to]
  BY <1>0 DEF StateSaves, HookFits
<1>2. UNCHANGED <<rec, op>> /\ hook' = [hook EXCEPT ![s] = NoHook]
  BY <1>0, <1>1, StateSavesDoes
<1>3. PICK a \in AgentType :
        /\ agent' = [agent EXCEPT ![s] = a]
        /\ a.chat = agent[s].chat /\ a.lazy = agent[s].lazy /\ a.strayed = agent[s].strayed
        /\ a.heard => agent[s].heard \/ HeardOf(s)
  BY <1>0, <1>1, StateSavesDoes
<1>4. NoHook \in HookType /\ NoHook.pc = "idle"
  BY Blank DEF NoHook
<1>5. hook'[s] = NoHook
  BY <1>0, <1>2 DEF CaptureType
<1>6. HookFits(s)'
  BY <1>4, <1>5 DEF HookFits
<1>7. /\ agent' \in [Sessions -> AgentType]
      /\ \A t \in Sessions : /\ agent'[t].chat = agent[t].chat /\ agent'[t].lazy \in {agent[t].lazy, None}
                             /\ t # s => agent'[t].strayed = agent[t].strayed
  BY <1>0, <1>3 DEF CaptureType
<1> QED  BY <1>2, <1>4, <1>6, <1>7, HookMoves

LEMMA OpFitsAs ==
  ASSUME NEW o \in Ops, NEW x, op'[o] = x, x.pc # "idle",
         /\ x.dst \in Sessions
         /\ x.pc \in {"launch", "record"} /\ x.kind # "rollover" => rec'[x.dst] = None
         /\ x.pc = "record" => x.kind # "rollover"
         /\ x.pc \in {"load", "save", "over"} => rec'[x.dst] # None
         /\ x.kind = "rollover" => rec'[x.dst] # None /\ x.chat \in IdsOf(x.dst)'
         /\ x.pc \in {"load", "save"} /\ x.kind # "rollover" => rec'[x.dst] = <<>>
         /\ x.pc = "load" => x.kind \notin {"original", "resume"}
         /\ x.pc = "save" => x.kind # "original" /\ x.copy = rec'[x.dst]
         /\ x.kind # "original" => x.chat \in AllIds'
         /\ x.kind = "resume" /\ x.pc \in {"record", "save"} => agent'[x.dst].chat = x.chat
  PROVE  OpFits(o)'
<1>1. x.kind = "rollover" => op'[o].chat \in IdsOf(op[o].dst)'
  BY DEF IdsOf
<1> QED  BY <1>1 DEF OpFits

\* A step of an operation alone.
LEMMA OpMoves ==
  ASSUME WindowsInv, NEW o \in Ops, NEW x \in OpType, op' = [op EXCEPT ![o] = x],
         UNCHANGED <<rec, agent, hook>>, OpFits(o)', OpsApart',
         x.pc = "save" \/ (x.pc = "record" /\ x.kind = "resume") =>
           (\A p \in Ops : ~OpWriter(p, x.dst)) /\ \A k \in Sessions : ~HookWriter(k, x.dst),
         x.pc \in Recording => op[o].pc \in Recording /\ op[o].dst = x.dst
  PROVE  WindowsInv'
<1>1. CaptureType'
  BY DEF WindowsInv, CaptureType
<1>2. AllIds' = AllIds
  BY NothingWritten
<1>3. op'[o] = x /\ \A p \in Ops \ {o} : op'[p] = op[p]
  BY DEF WindowsInv, CaptureType
<1>4. OpsFit'
  <2> SUFFICES ASSUME NEW p \in Ops, p # o PROVE OpFits(p)'
    BY DEF OpsFit
  <2>1. OpFits(p)
    BY DEF WindowsInv, OpsFit
  <2> QED  BY <1>2, <1>3, <2>1, OpStays
<1>5. WritersApart'
  <2>1. \A k, t \in Sessions : HookWriter(k, t)' <=> HookWriter(k, t)
    BY DEF HookWriter
  <2>2. \A p \in Ops \ {o}, t \in Sessions : OpWriter(p, t)' <=> OpWriter(p, t)
    BY <1>3 DEF OpWriter
  <2>3. ASSUME NEW t \in Sessions, OpWriter(o, t)'
        PROVE  (\A p \in Ops : ~OpWriter(p, t)) /\ \A k \in Sessions : ~HookWriter(k, t)
    <3>1. x.dst = t /\ (x.pc = "save" \/ (x.pc = "record" /\ x.kind = "resume"))
      BY <1>3, <2>3 DEF OpWriter
    <3> QED  BY <3>1
  <2>4. WritersApart
    BY DEF WindowsInv
  <2>5. \A t \in Sessions : \A q, p \in Ops : OpWriter(q, t)' /\ OpWriter(p, t)' => q = p
    BY <2>2, <2>3, <2>4 DEF WritersApart
  <2>6. \A t, k, l \in Sessions : HookWriter(k, t)' /\ HookWriter(l, t)' => k = l
    BY <2>1, <2>4 DEF WritersApart
  <2>7. \A t, k \in Sessions : \A p \in Ops : ~(HookWriter(k, t)' /\ OpWriter(p, t)')
    BY <2>1, <2>2, <2>3, <2>4 DEF WritersApart
  <2>8. \A k, l \in Sessions : hook'[k].pc = "fill" /\ hook'[l].pc = "fill" => k = l
    BY <2>4 DEF WritersApart
  <2> QED  BY <2>5, <2>6, <2>7, <2>8 DEF WritersApart
<1>6. HooksFit'
  <2> SUFFICES ASSUME NEW k \in Sessions PROVE HookFits(k)'
    BY DEF HooksFit
  <2>1. HookFits(k)
    BY DEF WindowsInv, HooksFit
  <2>2. CASE hook[k].pc = "idle"
    BY <2>2 DEF HookFits
  <2>3. CASE hook[k].pc # "idle"
    <3>1. hook[k].after => \A p \in Ops : op'[p].dst = k => op'[p].pc \notin Recording
      <4>1. hook[k].after => \A p \in Ops : op[p].dst = k => op[p].pc \notin Recording
        BY <2>1, <2>3 DEF HookFits
      <4> QED  BY <1>3, <4>1
    <3>2. hook[k].pc # "load" => rec[hook[k].to] # None
      BY <2>1, <2>3 DEF HookFits
    <3>3. hook[k].pc = "fill" => hook[k].id \notin AllIds'
      BY <1>2, <2>1, <2>3 DEF HookFits
    <3> QED  BY <1>2, <2>1, <3>1, <3>2, <3>3, HookStays
  <2> QED  BY <2>2, <2>3
<1>7. AgentsFit'
  BY <1>2 DEF WindowsInv, AgentsFit
<1> QED  BY <1>1, <1>4, <1>5, <1>6, <1>7 DEF WindowsInv

LEMMA StartKeepsWindows ==
  ASSUME WindowsInv, NEW o \in Ops, NEW kind \in Kinds, NEW src \in Sessions \cup {None},
         NEW dst \in Sessions, op[o].pc = "idle", StartOp(o, kind, src, dst)
  PROVE  WindowsInv'
<1>0. CaptureType
  BY DEF WindowsInv
<1>1. PICK x \in OpType :
        /\ op' = [op EXCEPT ![o] = x]
        /\ x.pc = "launch" /\ x.kind = kind /\ x.dst = dst
        /\ x.hasty = (kind = "rollover" /\ Unsettled(dst))
        /\ kind # "original" => /\ src \in Sessions /\ rec[src] # None
                                /\ x.chat = ActiveChat(rec[src]) /\ x.chat \in IdsOf(src)
                                /\ x.chat \in AllIds
        /\ kind = "rollover" => dst = src
        /\ kind # "rollover" => rec[dst] = None /\ \A p \in Ops : op[p].dst # dst
  BY <1>0, StartDoes
<1>2. UNCHANGED <<rec, agent, hook>>
  BY <1>0, StartDoes
<1>3. op'[o] = x /\ \A p \in Ops \ {o} : op'[p] = op[p]
  BY <1>0, <1>1 DEF CaptureType
<1>4. AllIds' = AllIds /\ IdsOf(dst)' = IdsOf(dst)
  BY <1>2, NothingWritten
<1>5. OpFits(o)'
  <2>1. kind = "rollover" => rec[dst] # None /\ x.chat \in IdsOf(dst)
    BY <1>1
  <2> QED  BY <1>1, <1>2, <1>3, <1>4, <2>1, OpFitsAs
<1>6. OpsApart'
  <2> SUFFICES ASSUME NEW p \in Ops, NEW q \in Ops, p # q, op'[p].dst = op'[q].dst, op'[p].dst # None
               PROVE  "rollover" \in {op'[p].kind, op'[q].kind}
    BY DEF OpsApart
  <2>1. CASE p # o /\ q # o
    BY <1>3, <2>1 DEF WindowsInv, OpsApart
  <2>2. CASE p = o \/ q = o
    BY <1>1, <1>3, <2>2
  <2> QED  BY <2>1, <2>2
<1>7. x.pc \notin Recording /\ x.pc # "save" /\ x.pc # "record"
  BY <1>1 DEF Recording
<1> QED  BY <1>1, <1>2, <1>5, <1>6, <1>7, OpMoves

LEMMA LoadKeepsWindows ==
  ASSUME WindowsInv, ~Overlaps, NEW o \in Ops, LoadForRef(o)
  PROVE  WindowsInv'
<1>0. CaptureType /\ OpFits(o)
  BY DEF WindowsInv, OpsFit
<1>1. op[o].pc = "load" /\ op[o].dst \in Sessions
  BY <1>0 DEF LoadForRef, OpFits
<1>2. MayLoad(op[o].dst) /\ UNCHANGED <<rec, agent, hook>>
  BY <1>0, <1>1, LoadDoes
<1>3. PICK x \in OpType :
        /\ op' = [op EXCEPT ![o] = x]
        /\ x.pc = "save" /\ x.kind = op[o].kind /\ x.dst = op[o].dst /\ x.chat = op[o].chat
        /\ x.hasty = op[o].hasty /\ x.copy = rec[op[o].dst]
  BY <1>0, <1>1, LoadDoes
<1>4. op'[o] = x /\ \A p \in Ops \ {o} : op'[p] = op[p]
  BY <1>0, <1>3 DEF CaptureType
<1>5. AllIds' = AllIds /\ IdsOf(x.dst)' = IdsOf(x.dst)
  BY <1>1, <1>2, <1>3, NothingWritten
<1>6. OpFits(o)'
  <2>1. /\ x.dst \in Sessions /\ rec[x.dst] # None
        /\ x.kind = "rollover" => x.chat \in IdsOf(x.dst)
        /\ x.kind # "rollover" => rec[x.dst] = <<>>
        /\ x.kind \notin {"original", "resume"} /\ x.copy = rec[x.dst] /\ x.chat \in AllIds
    BY <1>0, <1>1, <1>3 DEF OpFits
  <2> QED  BY <1>2, <1>3, <1>4, <1>5, <2>1, OpFitsAs
<1>7. OpsApart'
  <2>1. \A p \in Ops : op'[p].dst = op[p].dst /\ op'[p].kind = op[p].kind
    BY <1>3, <1>4
  <2> QED  BY <2>1 DEF WindowsInv, OpsApart
<1>8. (\A p \in Ops : ~OpWriter(p, x.dst)) /\ \A k \in Sessions : ~HookWriter(k, x.dst)
  BY <1>1, <1>2, <1>3, LoadsAlone
<1>9. op[o].pc \in Recording /\ op[o].dst = x.dst
  BY <1>1, <1>3 DEF Recording
<1> QED  BY <1>2, <1>3, <1>6, <1>7, <1>8, <1>9, OpMoves

LEMMA FreshIsNew ==
  ASSUME NEW c \in Fresh
  PROVE  c \in Chats /\ c \notin AllIds /\ \A s \in Sessions : agent[s].chat # c
<1> DEFINE used == UNION {Ids(rec[s]) : s \in {t \in Sessions : rec[t] # None}}
           given == {agent[s].chat : s \in Sessions}
           fired == {hook[s].id : s \in Sessions}
<1>0. Fresh = Chats \ (used \cup given \cup fired)
  BY DEF Fresh
<1> HIDE DEF used, given, fired
<1>1. c \in Chats /\ c \notin used /\ c \notin given
  BY <1>0
<1> USE DEF used, given
<1>2. \A s \in Sessions : agent[s].chat # c
  BY <1>1
<1>3. \A s \in Sessions : rec[s] # None => c \notin Ids(rec[s])
  BY <1>1
<1> QED  BY <1>1, <1>2, <1>3 DEF AllIds, IdsOf

LEMMA LaunchKeepsWindows ==
  ASSUME WindowsInv, NEW o \in Ops, Launch(o)
  PROVE  WindowsInv'
<1>0. CaptureType /\ OpFits(o)
  BY DEF WindowsInv, OpsFit
<1>1. op[o].pc = "launch" /\ op[o].dst \in Sessions
  BY <1>0 DEF Launch, OpFits
<1>d. PICK d \in Sessions : d = op[o].dst
  BY <1>1
<1>2. hook' = [hook EXCEPT ![d] = NoHook] /\ UNCHANGED rec
  BY <1>0, <1>1, <1>d, LaunchDoes
<1>3. PICK x \in OpType :
        /\ op' = [op EXCEPT ![o] = x]
        /\ x.pc = IF op[o].kind = "rollover" THEN "load" ELSE "record"
        /\ x.kind = op[o].kind /\ x.dst = op[o].dst /\ x.chat = op[o].chat /\ x.hasty = op[o].hasty
  BY <1>0, <1>1, <1>d, LaunchDoes
<1>4. PICK a \in AgentType :
        /\ agent' = [agent EXCEPT ![d] = a]
        /\ op[o].kind = "resume" => a.chat = op[o].chat
        /\ op[o].kind # "resume" => a.chat \in Fresh
        /\ a.lazy = IF op[o].kind = "fork" THEN op[o].chat ELSE None
  BY <1>0, <1>1, <1>d, LaunchDoes
<1>5. op'[o] = x /\ \A p \in Ops \ {o} : op'[p] = op[p]
  BY <1>0, <1>3 DEF CaptureType
<1>6. agent'[d] = a /\ \A s \in Sessions \ {d} : agent'[s] = agent[s]
  BY <1>0, <1>4 DEF CaptureType
<1>7. hook'[d] = NoHook /\ NoHook.pc = "idle" /\ \A s \in Sessions \ {d} : hook'[s] = hook[s]
  BY <1>0, <1>2 DEF CaptureType, NoHook
<1>8. AllIds' = AllIds /\ IdsOf(d)' = IdsOf(d)
  BY <1>2, NothingWritten
<1>9. CaptureType'
  BY <1>0, <1>2, <1>3, <1>4, Blank DEF CaptureType
<1>10. /\ op[o].kind # "rollover" => rec[d] = None
       /\ op[o].kind = "rollover" => rec[d] # None /\ op[o].chat \in IdsOf(d)
       /\ op[o].kind # "original" => op[o].chat \in AllIds
  BY <1>0, <1>1, <1>d DEF OpFits
<1>11. d = op[o].dst /\ d \in Sessions
  BY <1>d
\* Any other operation on the session is not in the way of the launch.
<1>12. ASSUME NEW p \in Ops, p # o, op[p].dst = d
       PROVE  ~(op[p].kind = "resume" /\ op[p].pc \in {"record", "save"})
              /\ (op[o].kind # "rollover" => ~OpWriter(p, d))
  <2>1. OpFits(p) /\ "rollover" \in {op[o].kind, op[p].kind}
    BY <1>11, <1>12, NoneIsNoList DEF WindowsInv, OpsFit, OpsApart
  <2>2. CASE op[o].kind # "rollover"
    <3>1. op[p].kind = "rollover" /\ rec[d] = None
      BY <1>10, <2>1, <2>2
    <3>2. op[p].pc = "idle"
      BY <1>12, <2>1, <3>1 DEF OpFits
    <3> QED  BY <3>2 DEF OpWriter
  <2>3. CASE op[o].kind = "rollover"
    <3>1. rec[d] # None /\ op[o].chat \in IdsOf(d)
      BY <1>10, <2>3
    <3>2. rec[d] # <<>>
      BY <3>1 DEF IdsOf, Ids
    <3> QED  BY <1>12, <2>1, <2>3, <3>1, <3>2 DEF OpFits
  <2> QED  BY <2>2, <2>3
<1>13. OpsFit'
  <2>1. OpFits(o)'
    <3>1. x.dst = d /\ x.kind = op[o].kind /\ x.chat = op[o].chat
      BY <1>3, <1>11
    <3> QED  BY <1>2, <1>3, <1>4, <1>5, <1>6, <1>8, <1>10, <1>11, <3>1, OpFitsAs
  <2>2. ASSUME NEW p \in Ops, p # o PROVE OpFits(p)'
    <3>1. OpFits(p)
      BY DEF WindowsInv, OpsFit
    <3>2. op[p].kind = "resume" /\ op[p].pc \in {"record", "save"} =>
            agent'[op[p].dst].chat = agent[op[p].dst].chat
      <4>1. op[p].pc # "idle" => op[p].dst \in Sessions
        BY <3>1 DEF OpFits
      <4> QED  BY <1>6, <1>12, <2>2, <4>1
    <3> QED  BY <1>2, <1>5, <1>8, <2>2, <3>1, <3>2, OpStays
  <2> QED  BY <2>1, <2>2 DEF OpsFit
<1>14. OpsApart'
  <2>1. \A p \in Ops : op'[p].dst = op[p].dst /\ op'[p].kind = op[p].kind
    BY <1>3, <1>5
  <2> QED  BY <2>1 DEF WindowsInv, OpsApart
<1>15. WritersApart'
  <2>1. WritersApart
    BY DEF WindowsInv
  <2>2. \A p \in Ops \ {o}, t \in Sessions : OpWriter(p, t)' <=> OpWriter(p, t)
    BY <1>5 DEF OpWriter
  <2>3. \A k, t \in Sessions : HookWriter(k, t)' => HookWriter(k, t) /\ k # d
    BY <1>7 DEF HookWriter
  <2>4. ASSUME NEW t \in Sessions, OpWriter(o, t)'
        PROVE  (\A p \in Ops \ {o} : ~OpWriter(p, t)) /\ \A k \in Sessions : ~HookWriter(k, t)
    <3>1. t = d /\ op[o].kind = "resume"
      BY <1>3, <1>5, <1>11, <2>4 DEF OpWriter
    <3>2. \A p \in Ops \ {o} : ~OpWriter(p, t)
      BY <1>12, <3>1 DEF OpWriter
    <3>3. ASSUME NEW k \in Sessions, HookWriter(k, d) PROVE FALSE
      <4>1. HookFits(k) /\ rec[d] = None
        BY <1>10, <3>1 DEF WindowsInv, HooksFit
      <4> QED  BY <3>3, <4>1 DEF HookFits, HookWriter
    <3> QED  BY <3>1, <3>2, <3>3
  <2>5. \A t \in Sessions : \A q, p \in Ops : OpWriter(q, t)' /\ OpWriter(p, t)' => q = p
    BY <2>1, <2>2, <2>4 DEF WritersApart
  <2>6. \A t, k, l \in Sessions : HookWriter(k, t)' /\ HookWriter(l, t)' => k = l
    BY <2>1, <2>3 DEF WritersApart
  <2>7. \A t, k \in Sessions : \A p \in Ops : ~(HookWriter(k, t)' /\ OpWriter(p, t)')
    BY <2>1, <2>2, <2>3, <2>4 DEF WritersApart
  <2>8. \A k, l \in Sessions : hook'[k].pc = "fill" /\ hook'[l].pc = "fill" => k = l
    BY <1>7, <2>1 DEF WritersApart
  <2> QED  BY <2>5, <2>6, <2>7, <2>8 DEF WritersApart
<1>16. HooksFit'
  <2> SUFFICES ASSUME NEW k \in Sessions PROVE HookFits(k)'
    BY DEF HooksFit
  <2>1. HookFits(k)
    BY DEF WindowsInv, HooksFit
  <2>2. CASE k = d \/ hook[k].pc = "idle"
    BY <1>7, <2>2 DEF HookFits
  <2>3. CASE k # d /\ hook[k].pc # "idle"
    <3>1. hook[k].after => \A p \in Ops : op'[p].dst = k => op'[p].pc \notin Recording
      <4>1. hook[k].after => \A p \in Ops : op[p].dst = k => op[p].pc \notin Recording
        BY <2>1, <2>3 DEF HookFits
      <4> QED  BY <1>3, <1>5, <1>11, <2>3, <4>1
    <3>2. hook[k].pc # "load" => rec[hook[k].to] # None
      BY <2>1, <2>3 DEF HookFits
    <3>3. hook[k].pc = "fill" => hook[k].id \notin AllIds'
      BY <1>8, <2>1, <2>3 DEF HookFits
    <3> QED  BY <1>2, <1>6, <1>7, <1>8, <2>1, <2>3, <3>1, <3>2, <3>3, HookStays
  <2> QED  BY <2>2, <2>3
<1>17. AgentsFit'
  <2>1. AgentsFit
    BY DEF WindowsInv
  <2>2. a.lazy \in AllIds \cup {None}
    BY <1>4, <1>10
  <2>3. \A s \in Sessions \ {d} : a.chat = agent[s].chat => a.chat \in AllIds \cup {None}
    <3>1. a.chat \in Fresh => \A s \in Sessions : a.chat # agent[s].chat
      BY FreshIsNew
    <3> QED  BY <1>4, <1>10, <3>1
  <2> QED  BY <1>6, <1>8, <1>11, <2>1, <2>2, <2>3 DEF AgentsFit
<1> QED  BY <1>9, <1>13, <1>14, <1>15, <1>16, <1>17 DEF WindowsInv

\* A step of an operation that writes the record of its session.
LEMMA OpWriteMoves ==
  ASSUME WindowsInv, NEW o \in Ops, NEW x \in OpType, op' = [op EXCEPT ![o] = x],
         x.kind = op[o].kind, x.dst = op[o].dst, NEW d \in Sessions, d = op[o].dst,
         NEW chats \in Seq(Refs), Writes(d, chats), Ids(chats) \subseteq AllIds,
         UNCHANGED <<agent, hook>>, OpFits(o)', op[o].pc \in Recording,
         x.pc \in {"record", "save"} => OpWriter(o, d),
         \A p \in Ops \ {o} : op[p].dst = d => OpFits(p)',
         \A k \in Sessions : ~HookWriter(k, d)
  PROVE  WindowsInv'
<1>1. CaptureType
  BY DEF WindowsInv
<1>2. /\ rec' \in [Sessions -> Copies] /\ rec'[d] = chats /\ chats # None
      /\ \A s \in Sessions \ {d} : rec'[s] = rec[s]
      /\ \A s \in Sessions : rec[s] # None => rec'[s] # None
      /\ AllIds' = AllIds
  <2>1. AllIds' = AllIds \cup Ids(chats)
    BY <1>1, WritesGrow
  <2> QED  BY <1>1, <2>1, WritesGrow
<1>3. CaptureType'
  BY <1>1, <1>2 DEF CaptureType
<1>4. op'[o] = x /\ \A p \in Ops \ {o} : op'[p] = op[p]
  BY <1>1 DEF CaptureType
<1>5. OpsFit'
  <2> SUFFICES ASSUME NEW p \in Ops, p # o, op[p].dst # d PROVE OpFits(p)'
    BY DEF OpsFit
  <2>1. OpFits(p)
    BY DEF WindowsInv, OpsFit
  <2> QED  BY <1>2, <1>4, <2>1, OpStays
<1>6. OpsApart'
  <2>1. \A p \in Ops : op'[p].dst = op[p].dst /\ op'[p].kind = op[p].kind
    BY <1>4
  <2> QED  BY <2>1 DEF WindowsInv, OpsApart
<1>7. WritersApart'
  <2>1. WritersApart
    BY DEF WindowsInv
  <2>2. \A p \in Ops, t \in Sessions : OpWriter(p, t)' => OpWriter(p, t)
    <3>1. \A p \in Ops \ {o}, t \in Sessions : OpWriter(p, t)' => OpWriter(p, t)
      BY <1>4 DEF OpWriter
    <3>2. \A t \in Sessions : OpWriter(o, t)' => OpWriter(o, t)
      <4>1. \A t \in Sessions : OpWriter(o, t)' => t = d /\ x.pc \in {"record", "save"}
        BY <1>4 DEF OpWriter
      <4> QED  BY <4>1
    <3> QED  BY <3>1, <3>2
  <2>3. \A k, t \in Sessions : HookWriter(k, t)' <=> HookWriter(k, t)
    BY DEF HookWriter
  <2> QED  BY <2>1, <2>2, <2>3 DEF WritersApart
<1>8. HooksFit'
  <2> SUFFICES ASSUME NEW k \in Sessions PROVE HookFits(k)'
    BY DEF HooksFit
  <2>1. HookFits(k)
    BY DEF WindowsInv, HooksFit
  <2>2. CASE hook[k].pc = "idle"
    BY <2>2 DEF HookFits
  <2>3. CASE hook[k].pc # "idle"
    <3>1. hook[k].after => \A p \in Ops : op'[p].dst = k => op'[p].pc \notin Recording
      <4>1. hook[k].after => \A p \in Ops : op[p].dst = k => op[p].pc \notin Recording
        BY <2>1, <2>3 DEF HookFits
      <4> QED  BY <1>4, <4>1
    <3>2. hook[k].to \in Sessions /\ (hook[k].pc # "load" => rec'[hook[k].to] # None)
      BY <1>2, <2>1, <2>3 DEF HookFits
    <3>3. hook[k].pc = "fill" => hook[k].id \notin AllIds'
      BY <1>2, <2>1, <2>3 DEF HookFits
    <3>4. hook[k].pc \in {"scan", "fill", "state save"} => rec'[hook[k].to] = rec[hook[k].to]
      <4>1. hook[k].pc \in {"scan", "fill", "state save"} => HookWriter(k, hook[k].to)
        BY DEF HookWriter
      <4> QED  BY <1>2, <3>2, <4>1
    <3> QED  BY <1>2, <2>1, <3>1, <3>2, <3>3, <3>4, HookStays
  <2> QED  BY <2>2, <2>3
<1>9. AgentsFit'
  BY <1>2 DEF WindowsInv, AgentsFit
<1> QED  BY <1>3, <1>5, <1>6, <1>7, <1>8, <1>9 DEF WindowsInv

LEMMA RecordKeepsWindows ==
  ASSUME WindowsInv, NEW o \in Ops, RecordSpawn(o)
  PROVE  /\ WindowsInv'
         /\ \E d \in Sessions, chats \in Seq(Refs) :
              /\ d = op[o].dst /\ rec[d] = None /\ Writes(d, chats) /\ Ids(chats) = {}
              /\ chats = IF op[o].kind = "original" THEN <<Pending("original", None)>> ELSE <<>>
<1>0. CaptureType /\ OpFits(o)
  BY DEF WindowsInv, OpsFit
<1>1. op[o].pc = "record" /\ op[o].dst \in Sessions /\ op[o].kind # "rollover" /\ rec[op[o].dst] = None
  BY <1>0 DEF RecordSpawn, OpFits
<1>2. PICK d \in Sessions : d = op[o].dst
  BY <1>1
<1>3. UNCHANGED <<agent, hook>>
  BY <1>0, <1>1, RecordDoes
<1>4. PICK chats \in Seq(Refs), x \in OpType :
        /\ rec' = [rec EXCEPT ![op[o].dst] = chats]
        /\ chats = IF op[o].kind = "original" THEN <<Pending("original", None)>> ELSE <<>>
        /\ op' = [op EXCEPT ![o] = x]
        /\ x.kind = op[o].kind /\ x.dst = op[o].dst /\ x.chat = op[o].chat /\ x.hasty = op[o].hasty
        /\ op[o].kind = "original" => x.pc = "over"
        /\ op[o].kind = "resume" => x.pc = "save" /\ x.copy = chats
        /\ op[o].kind \notin {"original", "resume"} => x.pc = "load"
  BY <1>0, <1>1, RecordDoes
<1>5. Ids(chats) = {}
  <2>1. CASE op[o].kind = "original"
    <3>1. chats = <<Pending("original", None)>>
      BY <1>4, <2>1
    <3>2. DOMAIN chats = {1} /\ chats[1].id = None
      BY <3>1 DEF Pending, Ref
    <3> QED  BY <3>2 DEF Ids
  <2>2. CASE op[o].kind # "original"
    BY <1>4, <2>2 DEF Ids
  <2> QED  BY <2>1, <2>2
<1>6. Writes(d, chats)
  BY <1>1, <1>2, <1>4 DEF Writes, IdsOf
<1>7. rec'[d] = chats /\ chats # None /\ AllIds' = AllIds
  <2>1. rec'[d] = chats /\ chats # None /\ AllIds' = AllIds \cup Ids(chats)
    BY <1>0, <1>6, WritesGrow
  <2> QED  BY <1>5, <2>1
<1>8. op'[o] = x
  BY <1>0, <1>4 DEF CaptureType
<1>9. OpFits(o)'
  <2>1. /\ x.pc # "idle" /\ x.dst = d /\ x.pc \in {"load", "save", "over"}
        /\ x.pc \in {"load", "save"} => chats = <<>>
        /\ x.pc = "load" => x.kind \notin {"original", "resume"}
        /\ x.pc = "save" => x.kind # "original" /\ x.copy = chats
        /\ x.kind # "rollover"
    BY <1>1, <1>2, <1>4
  <2>2. /\ x.kind # "original" => x.chat \in AllIds
        /\ x.kind = "resume" => agent[d].chat = x.chat
    BY <1>0, <1>1, <1>2, <1>4 DEF OpFits
  <2> QED  BY <1>3, <1>7, <1>8, <2>1, <2>2, OpFitsAs
\* No other operation has anything to do with a session without a record.
<1>10. \A p \in Ops \ {o} : op[p].dst # d
  <2> SUFFICES ASSUME NEW p \in Ops, p # o, op[p].dst = d PROVE FALSE
    OBVIOUS
  <2>1. OpFits(p) /\ op[p].kind = "rollover"
    BY <1>1, <1>2, NoneIsNoList DEF WindowsInv, OpsFit, OpsApart
  <2>2. op[p].pc # "idle"
    BY <2>1, NoneIsNoList DEF OpFits, NoOp
  <2> QED  BY <1>1, <1>2, <2>1, <2>2 DEF OpFits
<1>11. \A k \in Sessions : ~HookWriter(k, d)
  <2> SUFFICES ASSUME NEW k \in Sessions, HookWriter(k, d) PROVE FALSE
    OBVIOUS
  <2>1. HookFits(k)
    BY DEF WindowsInv, HooksFit
  <2> QED  BY <1>1, <1>2, <2>1 DEF HookFits, HookWriter
<1>12. op[o].pc \in Recording /\ (x.pc \in {"record", "save"} => OpWriter(o, d))
  BY <1>1, <1>2, <1>4 DEF Recording, OpWriter
<1>13. WindowsInv'
  BY <1>2, <1>3, <1>4, <1>5, <1>6, <1>9, <1>10, <1>11, <1>12, OpWriteMoves
<1> QED  BY <1>1, <1>2, <1>4, <1>5, <1>6, <1>13

\* What saving a reference does: the list is what WithRefIs says of the record.
LEMMA SaveFacts ==
  ASSUME WindowsInv, NEW o \in Ops, SaveRef(o)
  PROVE  /\ op[o].pc = "save" /\ op[o].kind # "original" /\ op[o].dst \in Sessions
         /\ op[o].copy = rec[op[o].dst] /\ op[o].copy \in Seq(Refs)
         /\ op[o].chat \in AllIds /\ op[o].chat \in Chats
         /\ op[o].kind # "rollover" => op[o].copy = <<>>
         /\ op[o].kind = "rollover" => op[o].chat \in Ids(op[o].copy)
         /\ Writes(op[o].dst, WithRef(o)) /\ Ids(WithRef(o)) \subseteq AllIds
         /\ UNCHANGED <<agent, hook>>
<1>0. CaptureType /\ OpFits(o)
  BY DEF WindowsInv, OpsFit
<1>1. /\ op[o].pc = "save" /\ op[o].kind # "original" /\ op[o].dst \in Sessions
      /\ op[o].copy = rec[op[o].dst] /\ rec[op[o].dst] # None /\ op[o].chat \in AllIds
      /\ op[o].kind # "rollover" => op[o].copy = <<>>
      /\ op[o].kind = "rollover" => op[o].chat \in IdsOf(op[o].dst)
  BY <1>0 DEF SaveRef, OpFits
<1>2. op[o].copy \in Seq(Refs) /\ op[o].chat \in Chats
  BY <1>0, <1>1 DEF CaptureType, Copies, AllIds
<1>3. IdsOf(op[o].dst) = Ids(op[o].copy) /\ IdsOf(op[o].dst) \subseteq AllIds
  BY <1>0, <1>1, IdsAreChats DEF IdsOf
<1>4. WithRef(o) \in Seq(Refs)
  BY <1>0, <1>1, <1>2, WithRefIs
<1>5. Ids(WithRef(o)) = Ids(op[o].copy) \cup (IF op[o].kind = "resume" THEN {op[o].chat} ELSE {})
  BY <1>0, <1>1, <1>2, WithRefIs
<1>6. rec' = [rec EXCEPT ![op[o].dst] = WithRef(o)] /\ UNCHANGED <<agent, hook>>
  BY <1>0, <1>1, SaveDoes
<1>7. Writes(op[o].dst, WithRef(o)) /\ Ids(WithRef(o)) \subseteq AllIds
  BY <1>1, <1>3, <1>4, <1>5, <1>6 DEF Writes
<1> QED  BY <1>1, <1>2, <1>3, <1>6, <1>7

\* Who else acts on the session of an operation that saves: rollovers to come.
LEMMA OthersOfSave ==
  ASSUME WindowsInv, NEW o \in Ops, op[o].pc = "save", NEW p \in Ops, p # o,
         op[p].dst = op[o].dst, op[o].dst \in Sessions
  PROVE  /\ op[p].pc # "idle" /\ op[p].pc # "save" /\ op[p].pc # "record"
         /\ op[p].kind = "rollover" \/ op[p].pc = "over"
<1>1. OpFits(o) /\ OpFits(p) /\ "rollover" \in {op[o].kind, op[p].kind}
  BY NoneIsNoList DEF WindowsInv, OpsFit, OpsApart
<1>2. OpWriter(o, op[o].dst) /\ ~OpWriter(p, op[o].dst)
  <2>1. PICK d \in Sessions : d = op[o].dst
    OBVIOUS
  <2>2. OpWriter(o, d)
    BY <2>1 DEF OpWriter
  <2>3. ~OpWriter(p, d)
    BY <2>2 DEF WindowsInv, WritersApart
  <2> QED  BY <2>1, <2>2, <2>3
<1>3. op[p].pc # "idle" /\ op[p].pc # "save"
  <2>1. op[p].pc # "idle"
    BY <1>1, NoneIsNoList DEF OpFits, NoOp
  <2> QED  BY <1>2, <2>1 DEF OpWriter
<1>4. CASE op[p].kind = "rollover"
  BY <1>1, <1>3, <1>4 DEF OpFits
<1>5. CASE op[p].kind # "rollover"
  <2>1. op[o].kind = "rollover"
    BY <1>1, <1>5
  <2>2. rec[op[o].dst] # None /\ rec[op[o].dst] # <<>>
    BY <1>1, <2>1 DEF OpFits, IdsOf, Ids
  <2>3. op[p].pc \in {"idle", "launch", "record", "load", "save", "over"}
    BY DEF WindowsInv, CaptureType, OpType
  <2> QED  BY <1>1, <1>3, <1>5, <2>2, <2>3 DEF OpFits
<1> QED  BY <1>4, <1>5

LEMMA SaveKeepsWindows ==
  ASSUME WindowsInv, NEW o \in Ops, SaveRef(o)
  PROVE  WindowsInv'
<1>0. CaptureType /\ OpFits(o)
  BY DEF WindowsInv, OpsFit
<1>1. /\ op[o].pc = "save" /\ op[o].kind # "original" /\ op[o].dst \in Sessions
      /\ op[o].chat \in AllIds
      /\ op[o].kind = "rollover" => op[o].chat \in Ids(op[o].copy)
      /\ op[o].copy = rec[op[o].dst] /\ op[o].copy \in Seq(Refs)
  BY SaveFacts
<1>2. PICK d \in Sessions : d = op[o].dst
  BY <1>1
<1>3. PICK chats \in Seq(Refs) : chats = WithRef(o)
  BY SaveFacts DEF Writes
<1>4. Writes(d, chats) /\ Ids(chats) \subseteq AllIds /\ UNCHANGED <<agent, hook>>
  BY <1>2, <1>3, SaveFacts
<1>5. PICK x \in OpType :
        /\ op' = [op EXCEPT ![o] = x]
        /\ x.pc = "over" /\ x.kind = op[o].kind /\ x.dst = op[o].dst /\ x.chat = op[o].chat
        /\ x.hasty = op[o].hasty
  BY <1>0, <1>1, SaveDoes
<1>6. op'[o] = x /\ \A p \in Ops \ {o} : op'[p] = op[p]
  BY <1>0, <1>5 DEF CaptureType
<1>7. rec'[d] = chats /\ chats # None /\ AllIds' = AllIds /\ IdsOf(d)' = Ids(chats) /\ IdsOf(d) \subseteq Ids(chats)
  <2>1. rec'[d] = chats /\ chats # None /\ AllIds' = AllIds \cup Ids(chats) /\ IdsOf(d)' = Ids(chats)
    BY <1>0, <1>4, WritesGrow
  <2> QED  BY <1>4, <2>1 DEF Writes
<1>8. OpFits(o)'
  <2>1. x.kind = "rollover" => x.chat \in Ids(chats)
    <3>1. Ids(op[o].copy) = IdsOf(d)
      BY <1>1, <1>2, NoneIsNoList DEF IdsOf
    <3> QED  BY <1>1, <1>5, <1>7, <3>1
  <2> QED  BY <1>1, <1>2, <1>5, <1>6, <1>7, <2>1, OpFitsAs
<1>9. ASSUME NEW p \in Ops \ {o}, op[p].dst = d PROVE OpFits(p)'
  <2>1. /\ op[p].pc # "idle" /\ op[p].pc # "save" /\ op[p].pc # "record"
        /\ op[p].kind = "rollover" \/ op[p].pc = "over"
    BY <1>1, <1>2, <1>9, OthersOfSave
  <2>2. OpFits(p) /\ op'[p] = op[p]
    BY <1>6 DEF WindowsInv, OpsFit
  <2>3. /\ op[p].kind = "rollover" => op[p].chat \in IdsOf(d)
        /\ op[p].pc = "load" => op[p].kind \notin {"original", "resume"}
        /\ op[p].kind # "original" => op[p].chat \in AllIds
    BY <1>9, <2>1, <2>2 DEF OpFits
  <2> QED  BY <1>7, <1>9, <2>1, <2>2, <2>3, OpFitsAs
<1>10. \A k \in Sessions : ~HookWriter(k, d)
  <2>1. OpWriter(o, d)
    BY <1>1, <1>2 DEF OpWriter
  <2> QED  BY <2>1 DEF WindowsInv, WritersApart
<1>11. op[o].pc \in Recording
  BY <1>1 DEF Recording
<1> QED  BY <1>2, <1>4, <1>5, <1>8, <1>9, <1>10, <1>11, OpWriteMoves

LEMMA FillFacts ==
  ASSUME WindowsInv, NEW s \in Sessions, HookFills(s)
  PROVE  \E d \in Sessions, id \in Chats, old \in Seq(Refs), chats \in Seq(Refs) :
           /\ d = hook[s].to /\ id = hook[s].id /\ old = rec[d] /\ Writes(d, chats)
           /\ id \notin AllIds /\ HookWriter(s, d) /\ hook[s].pc = "fill"
           /\ id = agent[s].chat /\ (~agent[s].strayed => d = s)
           /\ \E k \in PendingAt(old) : chats = [old EXCEPT ![k].id = id] /\ ~NotReady(old[k], id)
           /\ Ids(chats) = Ids(old) \cup {id}
<1>0. CaptureType /\ HookFits(s)
  BY DEF WindowsInv, HooksFit
<1>1. hook[s].pc = "fill"
  BY DEF HookFills
<1>2. /\ hook[s].to \in Sessions /\ hook[s].id # None /\ rec[hook[s].to] # None
      /\ hook[s].copy = rec[hook[s].to] /\ Fills(rec[hook[s].to], hook[s].id)
      /\ hook[s].id \notin AllIds /\ hook[s].id = agent[s].chat
      /\ ~agent[s].strayed => hook[s].to = s
  BY <1>0, <1>1 DEF HookFits
<1>3. hook[s].id \in Chats
  BY <1>0, <1>2 DEF CaptureType, HookType
<1>4. PICK d \in Sessions, id \in Chats : d = hook[s].to /\ id = hook[s].id
  BY <1>2, <1>3
<1>5. PICK old \in Seq(Refs) : old = rec[d]
  BY <1>0, <1>2, <1>4 DEF CaptureType, Copies
<1>6. PendingAt(old) # {} /\ ~NotReady(old[Latest(PendingAt(old))], id)
  BY <1>2, <1>4, <1>5 DEF Fills
<1>7. PICK k \in PendingAt(old) : k = Latest(PendingAt(old))
  BY <1>6, LatestIsOne DEF PendingAt
<1>8. rec' = [rec EXCEPT ![d] = [old EXCEPT ![k].id = id]]
  BY <1>0, <1>2, <1>4, <1>5, <1>7, HookFillsDoes
<1>9. [old EXCEPT ![k].id = id] \in Seq(Refs) /\ Ids([old EXCEPT ![k].id = id]) = Ids(old) \cup {id}
  BY FilledRef
<1>10. PICK chats \in Seq(Refs) : chats = [old EXCEPT ![k].id = id]
  BY <1>9
<1>11. Ids(chats) = Ids(old) \cup {id}
  BY <1>9, <1>10
<1>12. Writes(d, chats)
  BY <1>5, <1>8, <1>10, <1>11 DEF Writes, IdsOf
<1>13. HookWriter(s, d)
  BY <1>1, <1>4 DEF HookWriter
<1>14. /\ d = hook[s].to /\ id = hook[s].id /\ old = rec[d] /\ Writes(d, chats)
       /\ id \notin AllIds /\ HookWriter(s, d) /\ hook[s].pc = "fill"
       /\ id = agent[s].chat /\ (~agent[s].strayed => d = s)
  BY <1>1, <1>2, <1>4, <1>5, <1>12, <1>13
<1>15. \E j \in PendingAt(old) : chats = [old EXCEPT ![j].id = id] /\ ~NotReady(old[j], id)
  BY <1>6, <1>7, <1>10
<1> QED  BY <1>11, <1>14, <1>15

LEMMA FillKeepsWindows ==
  ASSUME WindowsInv, NEW s \in Sessions, HookFills(s)
  PROVE  WindowsInv'
<1>0. CaptureType /\ HookFits(s)
  BY DEF WindowsInv, HooksFit
<1>1. PICK d \in Sessions, id \in Chats, old \in Seq(Refs), chats \in Seq(Refs) :
         /\ d = hook[s].to /\ id = hook[s].id /\ old = rec[d] /\ Writes(d, chats)
         /\ id \notin AllIds /\ HookWriter(s, d) /\ hook[s].pc = "fill"
         /\ id = agent[s].chat /\ (~agent[s].strayed => d = s)
         /\ \E k \in PendingAt(old) : chats = [old EXCEPT ![k].id = id] /\ ~NotReady(old[k], id)
         /\ Ids(chats) = Ids(old) \cup {id}
  BY FillFacts
<1>2. PICK h \in HookType :
        /\ hook' = [hook EXCEPT ![s] = h]
        /\ h.pc = "idle" \/ (h.pc = "state load" /\ Same(h, hook[s]))
  BY <1>0, HookFillsDoes
<1>3. UNCHANGED <<agent, op>>
  BY <1>0, HookFillsDoes
<1>4. old # None /\ old # <<>> /\ IdsOf(d) = Ids(old)
  <2>1. \E k \in DOMAIN old : TRUE
    BY <1>1 DEF PendingAt
  <2>2. old # None /\ old # <<>>
    BY <2>1, NoneIsNoList
  <2> QED  BY <1>1, <2>2 DEF IdsOf
<1>5. /\ rec' \in [Sessions -> Copies] /\ rec'[d] = chats /\ chats # None
      /\ \A t \in Sessions \ {d} : rec'[t] = rec[t]
      /\ AllIds' = AllIds \cup {id} /\ AllIds \subseteq AllIds'
      /\ IdsOf(d)' = Ids(chats)
  <2>1. /\ rec' \in [Sessions -> Copies] /\ rec'[d] = chats /\ chats # None
        /\ \A t \in Sessions \ {d} : rec'[t] = rec[t]
        /\ AllIds' = AllIds \cup Ids(chats) /\ IdsOf(d)' = Ids(chats)
    BY <1>0, <1>1, WritesGrow
  <2>2. Ids(old) \subseteq AllIds
    BY <1>0, <1>4, IdsAreChats
  <2> QED  BY <1>1, <2>1, <2>2
<1>6. hook'[s] = h /\ \A k \in Sessions \ {s} : hook'[k] = hook[k]
  BY <1>0, <1>2 DEF CaptureType
<1>7. CaptureType'
  BY <1>0, <1>2, <1>3, <1>5 DEF CaptureType
<1>8. WritersApart
  BY DEF WindowsInv
<1>9. OpsFit'
  <2> SUFFICES ASSUME NEW p \in Ops PROVE OpFits(p)'
    BY DEF OpsFit
  <2>1. OpFits(p)
    BY DEF WindowsInv, OpsFit
  <2>2. CASE op[p].dst # d
    BY <1>3, <1>5, <2>1, <2>2, OpStays
  <2>3. CASE op[p].dst = d
    <3>1. op[p].pc # "idle"
      BY <2>1, <2>3, NoneIsNoList DEF OpFits, NoOp
    <3>2. ~OpWriter(p, d)
      BY <1>1, <1>8 DEF WritersApart
    <3>3. op[p].kind = "rollover" \/ op[p].pc = "over"
      <4>1. op[p].pc \in {"idle", "launch", "record", "load", "save", "over"}
        BY <1>0 DEF CaptureType, OpType
      <4> QED  BY <1>1, <1>4, <2>1, <2>3, <3>1, <3>2, <4>1 DEF OpFits, OpWriter
    <3>4. op[p].pc # "save" /\ op[p].pc # "record"
      BY <2>1, <2>3, <3>2, <3>3 DEF OpFits, OpWriter
    <3>5. /\ op[p].kind = "rollover" => op[p].chat \in IdsOf(d)'
          /\ op[p].pc = "load" => op[p].kind \notin {"original", "resume"}
          /\ op[p].kind # "original" => op[p].chat \in AllIds'
      <4>1. IdsOf(d) \subseteq IdsOf(d)'
        BY <1>1, <1>4, <1>5
      <4> QED  BY <1>5, <2>1, <2>3, <3>1, <4>1 DEF OpFits
    <3>6. op'[p] = op[p]
      BY <1>3
    <3> QED  BY <1>5, <2>3, <3>1, <3>3, <3>4, <3>5, <3>6, OpFitsAs
  <2> QED  BY <2>2, <2>3
<1>10. OpsApart'
  BY <1>3 DEF WindowsInv, OpsApart
<1>11. WritersApart'
  <2>1. \A p \in Ops, t \in Sessions : OpWriter(p, t)' <=> OpWriter(p, t)
    BY <1>3 DEF OpWriter
  <2>2. \A k, t \in Sessions : HookWriter(k, t)' => HookWriter(k, t)
    BY <1>2, <1>6 DEF HookWriter
  <2>3. \A k, l \in Sessions : hook'[k].pc = "fill" /\ hook'[l].pc = "fill" => k = l
    BY <1>2, <1>6, <1>8 DEF WritersApart
  <2> QED  BY <1>8, <2>1, <2>2, <2>3 DEF WritersApart
<1>12. HooksFit'
  <2> SUFFICES ASSUME NEW k \in Sessions PROVE HookFits(k)'
    BY DEF HooksFit
  <2>1. CASE k = s
    <3>1. CASE h.pc = "idle"
      BY <1>6, <2>1, <3>1 DEF HookFits
    <3>2. CASE h.pc # "idle"
      <4>1. h.pc = "state load" /\ Same(h, hook[s])
        BY <1>2, <3>2
      <4>2. /\ h.to \in Sessions /\ h.id # None
            /\ h.id = agent[s].chat \/ h.id \in AllIds
            /\ ~agent[s].strayed => h.to = s
            /\ h.after => h.to = s /\ \A o \in Ops : op[o].dst = s => op[o].pc \notin Recording
            /\ h.to = d
        BY <1>0, <1>1, <4>1 DEF HookFits, Same
      <4> QED  BY <1>3, <1>5, <1>6, <2>1, <4>1, <4>2, HookFitsAs
    <3> QED  BY <3>1, <3>2
  <2>2. CASE k # s
    <3>1. HookFits(k)
      BY DEF WindowsInv, HooksFit
    <3>2. CASE hook[k].pc = "idle"
      BY <1>6, <2>2, <3>2 DEF HookFits
    <3>3. CASE hook[k].pc # "idle"
      <4>1. hook[k].pc # "fill"
        BY <1>1, <1>8, <2>2 DEF WritersApart
      <4>2. ~HookWriter(k, d)
        BY <1>1, <1>8, <2>2 DEF WritersApart
      <4>3. hook[k].to \in Sessions /\ (hook[k].pc # "load" => rec'[hook[k].to] # None)
        BY <1>5, <3>1, <3>3 DEF HookFits
      <4>4. hook[k].pc \in {"scan", "fill", "state save"} => rec'[hook[k].to] = rec[hook[k].to]
        BY <1>5, <4>2, <4>3 DEF HookWriter
      <4>5. hook[k].after => \A p \in Ops : op'[p].dst = k => op'[p].pc \notin Recording
        BY <1>3, <3>1, <3>3 DEF HookFits
      <4> QED  BY <1>3, <1>5, <1>6, <2>2, <3>1, <4>1, <4>3, <4>4, <4>5, HookStays
    <3> QED  BY <3>2, <3>3
  <2> QED  BY <2>1, <2>2
<1>13. AgentsFit'
  BY <1>3, <1>5 DEF WindowsInv, AgentsFit
<1> QED  BY <1>7, <1>9, <1>10, <1>11, <1>12, <1>13 DEF WindowsInv

LEMMA InitWindows == CaptureInit => WindowsInv
<1> SUFFICES ASSUME CaptureInit PROVE WindowsInv
  OBVIOUS
<1>1. /\ \A s \in Sessions : rec[s] = None /\ agent[s] = NoAgent /\ hook[s] = NoHook
      /\ \A o \in Ops : op[o] = NoOp
  BY DEF CaptureInit
<1>2. CaptureType
  BY Blank DEF CaptureInit, CaptureType, Copies
<1>3. NoHook.pc = "idle" /\ NoAgent.chat = None /\ NoAgent.lazy = None
  BY DEF NoHook, NoAgent
<1>4. NoOp.pc = "idle" /\ NoOp.dst = None /\ NoOp.kind = "original"
  BY DEF NoOp
<1>5. OpsFit /\ OpsApart
  BY <1>1, <1>4 DEF OpsFit, OpFits, OpsApart
<1>6. WritersApart /\ HooksFit /\ AgentsFit
  BY <1>1, <1>3, <1>4 DEF WritersApart, OpWriter, HookWriter, HooksFit, HookFits, AgentsFit
<1> QED  BY <1>2, <1>5, <1>6 DEF WindowsInv

LEMMA StepKeepsWindows ==
  ASSUME WindowsInv, ~Overlaps, [CaptureNext]_cVars
  PROVE  WindowsInv'
<1>1. CASE UNCHANGED cVars
  <2>1. UNCHANGED <<rec, agent, hook, op>>
    BY <1>1 DEF cVars
  <2>2. WindowsInv /\ AllIds' = AllIds
    BY <2>1, NothingWritten
  <2>3. CaptureType' /\ OpsApart' /\ AgentsFit'
    BY <2>1, <2>2 DEF WindowsInv, CaptureType, OpsApart, AgentsFit
  <2>w. WritersApart'
    <3>1. \A s \in Sessions : /\ \A o \in Ops : OpWriter(o, s)' <=> OpWriter(o, s)
                            /\ \A h \in Sessions : HookWriter(h, s)' <=> HookWriter(h, s)
      BY <2>1 DEF OpWriter, HookWriter
    <3> QED  BY <2>1, <2>2, <3>1 DEF WindowsInv, WritersApart
  <2>4. OpsFit'
    BY <2>1, <2>2, OpStays DEF WindowsInv, OpsFit
  <2>5. ASSUME NEW k \in Sessions PROVE HookFits(k)'
    BY <2>1, <2>2 DEF WindowsInv, HooksFit, HookFits
  <2> QED  BY <2>3, <2>w, <2>4, <2>5 DEF WindowsInv, HooksFit
<1>2. CASE CaptureNext
  <2>1. ASSUME NEW o \in Ops, Launch(o) \/ RecordSpawn(o) \/ LoadForRef(o) \/ SaveRef(o) PROVE WindowsInv'
    BY <2>1, LaunchKeepsWindows, RecordKeepsWindows, LoadKeepsWindows, SaveKeepsWindows
  <2>2. ASSUME NEW o \in Ops, NextOp(o), NEW kind \in Kinds, NEW src \in Sessions \cup {None},
               NEW dst \in Sessions, StartOp(o, kind, src, dst)
        PROVE  WindowsInv'
    BY <2>2, StartKeepsWindows DEF NextOp
  <2>3. ASSUME NEW s \in Sessions, NEW event \in {"session-start", "prompt-submit", "stop"},
               NEW to \in Sessions, Fire(s, event, to)
        PROVE  WindowsInv'
    BY <2>3, FireKeepsWindows
  <2>4. ASSUME NEW s \in Sessions,
               HookLoads(s) \/ HookScans(s) \/ HookFills(s) \/ StateLoads(s) \/ StateSaves(s)
        PROVE  WindowsInv'
    BY <2>4, HookLoadsKeepsWindows, HookScansKeepsWindows, FillKeepsWindows, StateLoadsKeepsWindows,
       StateSavesKeepsWindows
  <2> QED  BY <1>2, <2>1, <2>2, <2>3, <2>4 DEF CaptureNext
<1> QED  BY <1>1, <1>2

----------------------------------------------------------------------------
(* What is on the records.                                                  *)

LEMMA StepsThatWrite ==
  ASSUME WindowsInv, ~Overlaps, [CaptureNext]_cVars
  PROVE  \/ UNCHANGED rec
         \/ \E o \in Ops : RecordSpawn(o) \/ SaveRef(o)
         \/ \E s \in Sessions : HookFills(s)
<1>1. CASE UNCHANGED cVars
  BY <1>1 DEF cVars
<1>2. CASE CaptureNext
  <2>1. ASSUME NEW o \in Ops, Launch(o) \/ LoadForRef(o) PROVE UNCHANGED rec
    BY <2>1 DEF Launch, LoadForRef
  <2>2. ASSUME NEW o \in Ops, NEW kind \in Kinds, NEW src \in Sessions \cup {None},
               NEW dst \in Sessions, StartOp(o, kind, src, dst)
        PROVE  UNCHANGED rec
    BY <2>2 DEF StartOp
  <2>3. ASSUME NEW s \in Sessions, NEW event \in {"session-start", "prompt-submit", "stop"},
               NEW to \in Sessions, Fire(s, event, to)
        PROVE  UNCHANGED rec
    BY <2>3 DEF Fire
  <2>4. ASSUME NEW s \in Sessions, HookLoads(s) \/ HookScans(s) \/ StateLoads(s) PROVE UNCHANGED rec
    BY <2>4 DEF HookLoads, HookScans, StateLoads
  <2>5. ASSUME NEW s \in Sessions, StateSaves(s) PROVE UNCHANGED rec
    BY <2>5, StateSavesKeepsWindows
  <2> QED  BY <1>2, <2>1, <2>2, <2>3, <2>4, <2>5 DEF CaptureNext
<1> QED  BY <1>1, <1>2

\* A record that is written with references that fit, and with no id that another
\* record has otherwise than by a resume.
LEMMA WriteKeepsRecords ==
  ASSUME CaptureType, RecordsFit, OneOwner, NEW d \in Sessions, NEW chats \in Seq(Refs), Writes(d, chats),
         \A i \in DOMAIN chats : RefFits(chats, i)',
         \A t \in Sessions \ {d} : rec[t] # None =>
           \A i \in DOMAIN chats, j \in DOMAIN rec[t] :
             chats[i].id # None /\ chats[i].id = rec[t][j].id =>
               "resume" \in {chats[i].role, rec[t][j].role}
  PROVE  RecordsFit' /\ OneOwner'
<1>1. /\ rec'[d] = chats /\ chats # None /\ AllIds \subseteq AllIds'
      /\ \A s \in Sessions \ {d} : rec'[s] = rec[s]
  <2>1. AllIds' = AllIds \cup Ids(chats)
    BY WritesGrow
  <2> QED  BY <2>1, WritesGrow
<1>2. RecordsFit'
  <2> SUFFICES ASSUME NEW s \in Sessions, rec'[s] # None, NEW i \in DOMAIN rec'[s]
               PROVE  RefFits(rec[s], i)'
    BY DEF RecordsFit
  <2>1. CASE s = d
    BY <1>1, <2>1 DEF RefFits
  <2>2. CASE s # d
    <3>1. RefFits(rec[s], i) /\ rec'[s] = rec[s]
      BY <1>1, <2>2 DEF RecordsFit
    <3> QED  BY <1>1, <3>1 DEF RefFits
  <2> QED  BY <2>1, <2>2
<1>3. OneOwner'
  <2> SUFFICES ASSUME NEW s \in Sessions, NEW t \in Sessions, s # t, rec'[s] # None, rec'[t] # None,
                      NEW i \in DOMAIN rec'[s], NEW j \in DOMAIN rec'[t],
                      rec'[s][i].id # None, rec'[s][i].id = rec'[t][j].id
               PROVE  "resume" \in {rec'[s][i].role, rec'[t][j].role}
    BY DEF OneOwner
  <2>1. CASE s # d /\ t # d
    BY <1>1, <2>1 DEF OneOwner
  <2>2. CASE s = d
    BY <1>1, <2>2
  <2>3. CASE t = d
    <3>1. rec'[s] = rec[s] /\ rec'[t] = chats
      BY <1>1, <2>3
    <3> QED  BY <1>1, <2>3, <3>1
  <2> QED  BY <2>1, <2>2, <2>3
<1> QED  BY <1>2, <1>3

LEMMA RecordKeepsRecords ==
  ASSUME WindowsInv, RecordsFit, OneOwner, NEW o \in Ops, RecordSpawn(o)
  PROVE  RecordsFit' /\ OneOwner'
<1>1. PICK d \in Sessions, chats \in Seq(Refs) :
        /\ d = op[o].dst /\ rec[d] = None /\ Writes(d, chats) /\ Ids(chats) = {}
        /\ chats = IF op[o].kind = "original" THEN <<Pending("original", None)>> ELSE <<>>
  BY RecordKeepsWindows
<1>2. ASSUME NEW i \in DOMAIN chats PROVE chats[i].id = None /\ chats[i].origin = None /\ chats[i].role = "original"
  <2>1. chats = <<Pending("original", None)>> /\ i = 1
    BY <1>1, <1>2
  <2> QED  BY <2>1 DEF Pending, Ref
<1>3. \A i \in DOMAIN chats : RefFits(chats, i)'
  BY <1>2 DEF RefFits
<1> QED  BY <1>1, <1>2, <1>3, WriteKeepsRecords DEF WindowsInv

LEMMA SaveKeepsRecords ==
  ASSUME WindowsInv, RecordsFit, OneOwner, NEW o \in Ops, SaveRef(o)
  PROVE  RecordsFit' /\ OneOwner'
<1>1. /\ op[o].pc = "save" /\ op[o].kind # "original" /\ op[o].dst \in Sessions
      /\ op[o].copy = rec[op[o].dst] /\ op[o].copy \in Seq(Refs)
      /\ op[o].chat \in AllIds /\ op[o].chat \in Chats
      /\ op[o].kind # "rollover" => op[o].copy = <<>>
      /\ op[o].kind = "rollover" => op[o].chat \in Ids(op[o].copy)
      /\ Writes(op[o].dst, WithRef(o)) /\ Ids(WithRef(o)) \subseteq AllIds
      /\ CaptureType
  BY SaveFacts DEF WindowsInv
<1>2. PICK d \in Sessions, old \in Seq(Refs), new \in Seq(Refs), chat \in Chats, kind \in Kinds :
        d = op[o].dst /\ old = op[o].copy /\ new = WithRef(o) /\ chat = op[o].chat /\ kind = op[o].kind
  BY <1>1 DEF Writes, CaptureType, OpType
<1>3. /\ Len(old) \in Nat /\ DOMAIN old = 1..Len(old)
      /\ DOMAIN old \subseteq DOMAIN new
      /\ \A i \in DOMAIN old : /\ new[i].id = old[i].id /\ new[i].role = old[i].role
                               /\ new[i].origin = old[i].origin
                               /\ old[i].ended => new[i].ended
                               /\ kind = "rollover" /\ old[i].id = chat => new[i].ended
      /\ \A i \in DOMAIN new : i \in DOMAIN old \/ i = Len(old) + 1
      /\ \A i \in DOMAIN new \ DOMAIN old :
           new[i] = IF kind = "resume" THEN Ref(chat, "resume", chat) ELSE Pending(kind, chat)
  BY <1>1, <1>2, WithRefIs
<1>4. /\ Writes(d, new) /\ Ids(new) \subseteq AllIds /\ old = rec[d] /\ old # None /\ chat # None /\ chat \in AllIds
      /\ kind = "rollover" => chat \in Ids(old)
  BY <1>1, <1>2, NoneIsNoList
<1>5. AllIds' = AllIds
  <2>1. AllIds' = AllIds \cup Ids(new)
    BY <1>1, <1>4, WritesGrow
  <2> QED  BY <1>4, <2>1
<1>6. ASSUME NEW i \in DOMAIN new \ DOMAIN old
      PROVE  /\ new[i].origin = chat /\ new[i].role = kind
             /\ new[i].id = IF kind = "resume" THEN chat ELSE None
             /\ i = Len(old) + 1
  BY <1>3, <1>6 DEF Ref, Pending
<1>7. ASSUME NEW i \in DOMAIN new PROVE RefFits(new, i)'
  <2>1. CASE i \in DOMAIN old
    <3>1. RefFits(old, i)
      BY <1>4, <2>1 DEF RecordsFit
    <3>2. new[i].role = "rollover" => \E j \in 1..(i - 1) : new[j].id = new[i].origin /\ new[j].ended
      <4> SUFFICES ASSUME new[i].role = "rollover"
                   PROVE  \E j \in 1..(i - 1) : new[j].id = new[i].origin /\ new[j].ended
        OBVIOUS
      <4>1. PICK j \in 1..(i - 1) : old[j].id = old[i].origin /\ old[j].ended
        BY <1>3, <2>1, <3>1 DEF RefFits
      <4>2. j \in DOMAIN old
        BY <1>3, <2>1
      <4> QED  BY <1>3, <2>1, <4>1, <4>2
    <3> QED  BY <1>3, <1>5, <2>1, <3>1, <3>2 DEF RefFits
  <2>2. CASE i \notin DOMAIN old
    <3>1. new[i].role = "rollover" => \E j \in 1..(i - 1) : new[j].id = new[i].origin /\ new[j].ended
      <4> SUFFICES ASSUME kind = "rollover"
                   PROVE  \E j \in 1..(i - 1) : new[j].id = chat /\ new[j].ended
        BY <1>6, <2>2
      <4>1. PICK j \in DOMAIN old : old[j].id = chat
        BY <1>4 DEF Ids
      <4>2. j \in 1..(i - 1)
        BY <1>3, <1>6, <2>2
      <4> QED  BY <1>3, <4>1, <4>2
    <3> QED  BY <1>4, <1>5, <1>6, <2>2, <3>1 DEF RefFits
  <2> QED  BY <2>1, <2>2
<1>8. ASSUME NEW t \in Sessions \ {d}, rec[t] # None, NEW i \in DOMAIN new, NEW j \in DOMAIN rec[t],
             new[i].id # None, new[i].id = rec[t][j].id
      PROVE  "resume" \in {new[i].role, rec[t][j].role}
  <2>1. CASE i \in DOMAIN old
    <3>1. old[i].id = new[i].id /\ old[i].role = new[i].role
      BY <1>3, <2>1
    <3> QED  BY <1>4, <1>8, <2>1, <3>1 DEF OneOwner
  <2>2. CASE i \notin DOMAIN old
    BY <1>6, <1>8, <2>2
  <2> QED  BY <2>1, <2>2
<1> QED  BY <1>1, <1>4, <1>7, <1>8, WriteKeepsRecords

LEMMA FillKeepsRecords ==
  ASSUME WindowsInv, RecordsFit, OneOwner, NEW s \in Sessions, HookFills(s)
  PROVE  RecordsFit' /\ OneOwner'
<1>0. CaptureType
  BY DEF WindowsInv
<1>1. PICK d \in Sessions, id \in Chats, old \in Seq(Refs), new \in Seq(Refs) :
         /\ d = hook[s].to /\ id = hook[s].id /\ old = rec[d] /\ Writes(d, new)
         /\ id \notin AllIds /\ HookWriter(s, d) /\ hook[s].pc = "fill"
         /\ id = agent[s].chat /\ (~agent[s].strayed => d = s)
         /\ \E k \in PendingAt(old) : new = [old EXCEPT ![k].id = id] /\ ~NotReady(old[k], id)
         /\ Ids(new) = Ids(old) \cup {id}
  BY FillFacts
<1>2. PICK k \in PendingAt(old) : new = [old EXCEPT ![k].id = id] /\ ~NotReady(old[k], id)
  BY <1>1
<1>3. /\ DOMAIN new = DOMAIN old
      /\ \A i \in DOMAIN old :
           /\ new[i].role = old[i].role /\ new[i].origin = old[i].origin
           /\ new[i].ended = old[i].ended
           /\ new[i].id = IF i = k THEN id ELSE old[i].id
  BY <1>2, FilledRef
<1>4. k \in DOMAIN old /\ old[k].id = None /\ old # None
  BY NoneIsNoList DEF PendingAt
<1>5. AllIds \subseteq AllIds'
  <2>1. AllIds' = AllIds \cup Ids(new)
    BY <1>0, <1>1, WritesGrow
  <2> QED  BY <2>1
<1>6. ASSUME NEW i \in DOMAIN new PROVE RefFits(new, i)'
  <2>1. RefFits(old, i)
    BY <1>1, <1>3, <1>4 DEF RecordsFit
  <2>2. new[i].role = "fork" => new[i].id # new[i].origin
    <3>1. CASE i = k
      BY <1>2, <1>3, <3>1 DEF NotReady
    <3>2. CASE i # k
      BY <1>3, <2>1, <3>2 DEF RefFits
    <3> QED  BY <3>1, <3>2
  <2>3. new[i].role = "rollover" => \E j \in 1..(i - 1) : new[j].id = new[i].origin /\ new[j].ended
    <3> SUFFICES ASSUME new[i].role = "rollover"
                 PROVE  \E j \in 1..(i - 1) : new[j].id = new[i].origin /\ new[j].ended
      OBVIOUS
    <3>1. PICK j \in 1..(i - 1) : old[j].id = old[i].origin /\ old[j].ended
      BY <1>3, <2>1 DEF RefFits
    <3>2. j \in DOMAIN old
      <4>1. DOMAIN old = 1..Len(old) /\ Len(old) \in Nat
        BY LenProperties
      <4> QED  BY <1>3, <4>1
    <3>3. old[i].origin # None
      BY <1>3, <2>1 DEF RefFits
    <3>4. j # k
      BY <1>4, <3>1, <3>3
    <3> QED  BY <1>3, <3>1, <3>2, <3>4
  <2> QED  BY <1>3, <1>5, <2>1, <2>2, <2>3 DEF RefFits
<1>7. ASSUME NEW t \in Sessions \ {d}, rec[t] # None, NEW i \in DOMAIN new, NEW j \in DOMAIN rec[t],
             new[i].id # None, new[i].id = rec[t][j].id
      PROVE  "resume" \in {new[i].role, rec[t][j].role}
  <2>1. CASE i = k
    <3>1. rec[t][j].id = id
      BY <1>3, <1>7, <2>1
    <3>2. id \in Ids(rec[t])
      BY <1>7, <1>3, <2>1, <3>1 DEF Ids
    <3>3. id \in AllIds
      BY <1>7, <3>2 DEF AllIds, IdsOf
    <3> QED  BY <1>1, <3>3
  <2>2. CASE i # k
    <3>1. old[i].id = new[i].id /\ old[i].role = new[i].role
      BY <1>3, <2>2
    <3>2. old = rec[d] /\ i \in DOMAIN old /\ old[i].id # None /\ old[i].id = rec[t][j].id /\ rec[d] # None
      BY <1>1, <1>3, <1>4, <1>7, <3>1
    <3>3. "resume" \in {rec[d][i].role, rec[t][j].role}
      BY <1>7, <3>2 DEF OneOwner
    <3> QED  BY <3>1, <3>2, <3>3
  <2> QED  BY <2>1, <2>2
<1>8. Writes(d, new)
  BY <1>1
<1> QED  BY <1>0, <1>6, <1>7, <1>8, WriteKeepsRecords

LEMMA StepKeepsRecords ==
  ASSUME WindowsInv, RecordsFit, OneOwner, ~Overlaps, [CaptureNext]_cVars
  PROVE  RecordsFit' /\ OneOwner'
<1>1. CASE UNCHANGED rec
  <2>1. AllIds' = AllIds
    BY <1>1, NothingWritten
  <2> QED  BY <1>1, <2>1 DEF RecordsFit, RefFits, OneOwner
<1> QED  BY <1>1, StepsThatWrite, RecordKeepsRecords, SaveKeepsRecords, FillKeepsRecords

----------------------------------------------------------------------------
(* References that wait for a chat.                                         *)

LEMMA AloneAtRecord ==
  ASSUME WindowsInv, NEW o \in Ops, op[o].pc = "record"
  PROVE  \A p \in Ops \ {o} : op[p].dst # op[o].dst
<1> SUFFICES ASSUME NEW p \in Ops, p # o, op[p].dst = op[o].dst PROVE FALSE
  OBVIOUS
<1>1. OpFits(o) /\ OpFits(p)
  BY DEF WindowsInv, OpsFit
<1>2. op[o].dst \in Sessions /\ op[o].kind # "rollover" /\ rec[op[o].dst] = None
  BY <1>1 DEF OpFits
<1>3. op[p].kind = "rollover"
  BY <1>2, NoneIsNoList DEF WindowsInv, OpsApart
<1>4. op[p].pc # "idle"
  BY <1>1, <1>2, NoneIsNoList DEF OpFits, NoOp
<1> QED  BY <1>1, <1>2, <1>3, <1>4 DEF OpFits

\* Where operations keep their session, kind and haste, and none is undone or begun,
\* it is the references that count.
LEMMA PendingStays ==
  ASSUME NEW s \in Sessions, PendingFits(s),
         \A p \in Ops : /\ op'[p].dst = op[p].dst /\ op'[p].kind = op[p].kind /\ op'[p].hasty = op[p].hasty
                        /\ op'[p].pc # "over" => op[p].pc # "over",
         \/ rec'[s] = rec[s]
         \/ rec[s] # None /\ rec'[s] # None /\ PendingAt(rec'[s]) \subseteq PendingAt(rec[s])
  PROVE  PendingFits(s)'
<1> SUFFICES ASSUME Patient(s)' PROVE PendingFits(s)'
  BY DEF PendingFits
<1>1. Patient(s)
  BY DEF Patient
<1>2. /\ rec[s] # None => \A i, j \in PendingAt(rec[s]) : i = j
      /\ \A o, p \in Ops : op[o].dst = s /\ op[p].dst = s /\ op[o].pc # "over" /\ op[p].pc # "over" => o = p
      /\ \A o \in Ops : op[o].dst = s /\ op[o].kind = "rollover" /\ op[o].pc # "over" => PendingAt(rec[s]) = {}
  BY <1>1 DEF PendingFits
<1>3. rec'[s] # None => \A i, j \in PendingAt(rec'[s]) : i = j
  BY <1>2
<1>4. \A o \in Ops : op'[o].dst = s /\ op'[o].kind = "rollover" /\ op'[o].pc # "over" => PendingAt(rec'[s]) = {}
  BY <1>2
<1> QED  BY <1>2, <1>3, <1>4 DEF PendingFits

LEMMA StartKeepsPending ==
  ASSUME WindowsInv, NEW o \in Ops, NEW kind \in Kinds, NEW src \in Sessions \cup {None},
         NEW dst \in Sessions, op[o].pc = "idle", StartOp(o, kind, src, dst),
         NEW s \in Sessions, PendingFits(s)
  PROVE  PendingFits(s)'
<1>0. CaptureType /\ OpFits(o)
  BY DEF WindowsInv, OpsFit
<1>1. PICK x \in OpType :
        /\ op' = [op EXCEPT ![o] = x]
        /\ x.pc = "launch" /\ x.kind = kind /\ x.dst = dst
        /\ x.hasty = (kind = "rollover" /\ Unsettled(dst))
        /\ kind # "original" => /\ src \in Sessions /\ rec[src] # None
                                /\ x.chat = ActiveChat(rec[src]) /\ x.chat \in IdsOf(src)
                                /\ x.chat \in AllIds
        /\ kind = "rollover" => dst = src
        /\ kind # "rollover" => rec[dst] = None /\ \A p \in Ops : op[p].dst # dst
  BY <1>0, StartDoes
<1>2. UNCHANGED rec
  BY <1>0, StartDoes
<1>3. op'[o] = x /\ \A p \in Ops \ {o} : op'[p] = op[p]
  BY <1>0, <1>1 DEF CaptureType
<1>4. op[o].dst = None
  BY <1>0 DEF OpFits, NoOp
<1> SUFFICES ASSUME Patient(s)' PROVE PendingFits(s)'
  BY DEF PendingFits
<1>5. Patient(s)
  BY <1>3, <1>4, NoneIsNoList DEF Patient
<1>6. /\ rec[s] # None => \A i, j \in PendingAt(rec[s]) : i = j
      /\ \A q, p \in Ops : op[q].dst = s /\ op[p].dst = s /\ op[q].pc # "over" /\ op[p].pc # "over" => q = p
      /\ \A p \in Ops : op[p].dst = s /\ op[p].kind = "rollover" /\ op[p].pc # "over" => PendingAt(rec[s]) = {}
  BY <1>5 DEF PendingFits
<1>7. CASE s # dst
  <2>1. \A p \in Ops : op'[p].dst = s => p # o /\ op'[p] = op[p]
    BY <1>1, <1>3, <1>7
  <2> QED  BY <1>2, <1>6, <2>1 DEF PendingFits
<1>8. CASE s = dst
  <2>1. \A p \in Ops \ {o} : op[p].dst = s => op[p].pc = "over"
    <3>1. CASE kind # "rollover"
      BY <1>1, <1>8, <3>1
    <3>2. CASE kind = "rollover"
      <4>1. ~Unsettled(dst)
        BY <1>1, <1>3, <1>8, <3>2 DEF Patient
      <4> QED  BY <1>8, <4>1 DEF Unsettled
    <3> QED  BY <3>1, <3>2
  <2>2. kind = "rollover" => PendingAt(rec[s]) = {}
    <3>1. kind = "rollover" => ~Unsettled(dst)
      BY <1>1, <1>3, <1>8 DEF Patient
    <3> QED  BY <1>8, <3>1 DEF Unsettled
  <2> QED  BY <1>1, <1>2, <1>3, <1>6, <2>1, <2>2 DEF PendingFits
<1> QED  BY <1>7, <1>8

LEMMA RecordKeepsPending ==
  ASSUME WindowsInv, NEW o \in Ops, RecordSpawn(o), NEW s \in Sessions, PendingFits(s)
  PROVE  PendingFits(s)'
<1>0. CaptureType /\ OpFits(o)
  BY DEF WindowsInv, OpsFit
<1>1. op[o].pc = "record" /\ op[o].dst \in Sessions /\ op[o].kind # "rollover"
  BY <1>0 DEF RecordSpawn, OpFits
<1>2. PICK d \in Sessions, chats \in Seq(Refs) :
        /\ d = op[o].dst /\ rec[d] = None /\ Writes(d, chats) /\ Ids(chats) = {}
        /\ chats = IF op[o].kind = "original" THEN <<Pending("original", None)>> ELSE <<>>
  BY RecordKeepsWindows
<1>3. /\ rec'[d] = chats /\ \A t \in Sessions \ {d} : rec'[t] = rec[t]
  BY <1>0, <1>2, WritesGrow
<1>4. \A p \in Ops : /\ op'[p].dst = op[p].dst /\ op'[p].kind = op[p].kind /\ op'[p].hasty = op[p].hasty
                     /\ op'[p].pc # "over" => op[p].pc # "over"
  <2>1. PICK x \in OpType : /\ op' = [op EXCEPT ![o] = x]
                            /\ x.kind = op[o].kind /\ x.dst = op[o].dst /\ x.hasty = op[o].hasty
    BY <1>0, <1>1, RecordDoes
  <2> QED  BY <1>0, <1>1, <2>1 DEF CaptureType
<1>5. CASE s # d
  BY <1>3, <1>4, <1>5, PendingStays
<1>6. CASE s = d
  <2>1. \A p \in Ops : op'[p].dst = s => p = o
    BY <1>1, <1>2, <1>4, <1>6, AloneAtRecord
  <2>2. \A i, j \in PendingAt(chats) : i = j
    <3>1. DOMAIN chats \subseteq {1}
      BY <1>2
    <3> QED  BY <3>1 DEF PendingAt
  <2> QED  BY <1>1, <1>3, <1>4, <1>6, <2>1, <2>2 DEF PendingFits
<1> QED  BY <1>5, <1>6

LEMMA SaveKeepsPending ==
  ASSUME WindowsInv, NEW o \in Ops, SaveRef(o), NEW s \in Sessions, PendingFits(s)
  PROVE  PendingFits(s)'
<1>0. CaptureType
  BY DEF WindowsInv
<1>1. /\ op[o].pc = "save" /\ op[o].kind # "original" /\ op[o].dst \in Sessions
      /\ op[o].copy = rec[op[o].dst] /\ op[o].copy \in Seq(Refs)
      /\ op[o].chat \in Chats
      /\ op[o].kind # "rollover" => op[o].copy = <<>>
      /\ Writes(op[o].dst, WithRef(o))
  BY SaveFacts
<1>2. PICK d \in Sessions, old \in Seq(Refs), new \in Seq(Refs) :
        d = op[o].dst /\ old = op[o].copy /\ new = WithRef(o)
  BY <1>1 DEF Writes
<1>3. /\ rec'[d] = new /\ \A t \in Sessions \ {d} : rec'[t] = rec[t]
  BY <1>0, <1>1, <1>2, WritesGrow
<1>4. PICK x \in OpType :
         /\ op' = [op EXCEPT ![o] = x]
         /\ x.pc = "over" /\ x.kind = op[o].kind /\ x.dst = op[o].dst /\ x.chat = op[o].chat
         /\ x.hasty = op[o].hasty
  BY <1>0, <1>1, SaveDoes
<1>5. op'[o] = x /\ \A p \in Ops \ {o} : op'[p] = op[p]
  BY <1>0, <1>4 DEF CaptureType
<1>6. \A p \in Ops : /\ op'[p].dst = op[p].dst /\ op'[p].kind = op[p].kind /\ op'[p].hasty = op[p].hasty
                     /\ op'[p].pc # "over" => op[p].pc # "over"
  BY <1>1, <1>4, <1>5
<1>7. CASE s # d
  BY <1>3, <1>6, <1>7, PendingStays
<1>8. CASE s = d
  <2> SUFFICES ASSUME Patient(s)' PROVE PendingFits(s)'
    BY DEF PendingFits
  <2>1. Patient(s)
    BY <1>6 DEF Patient
  <2>2. /\ rec[s] # None => \A i, j \in PendingAt(rec[s]) : i = j
        /\ \A q, p \in Ops : op[q].dst = s /\ op[p].dst = s /\ op[q].pc # "over" /\ op[p].pc # "over" => q = p
        /\ \A p \in Ops : op[p].dst = s /\ op[p].kind = "rollover" /\ op[p].pc # "over" => PendingAt(rec[s]) = {}
    BY <2>1 DEF PendingFits
  <2>3. \A p \in Ops : op'[p].dst = s => op'[p].pc = "over"
    BY <1>1, <1>2, <1>4, <1>5, <1>8, <2>2
  <2>4. op[o].kind # "resume" => PendingAt(new) \subseteq PendingAt(old) \cup {Len(old) + 1}
    BY <1>0, <1>1, <1>2, WithRefIs
  <2>5. op[o].kind = "resume" => PendingAt(new) = PendingAt(old)
    BY <1>0, <1>1, <1>2, WithRefIs
  <2>6. PendingAt(old) = {}
    <3>1. CASE op[o].kind = "rollover"
      BY <1>1, <1>2, <1>8, <2>2, <3>1
    <3>2. CASE op[o].kind # "rollover"
      BY <1>1, <1>2, <3>2 DEF PendingAt
    <3> QED  BY <3>1, <3>2
  <2>7. \A i, j \in PendingAt(new) : i = j
    BY <2>4, <2>5, <2>6
  <2> QED  BY <1>3, <1>8, <2>3, <2>7 DEF PendingFits
<1> QED  BY <1>7, <1>8

LEMMA FillKeepsPending ==
  ASSUME WindowsInv, NEW h \in Sessions, HookFills(h), NEW s \in Sessions, PendingFits(s)
  PROVE  PendingFits(s)'
<1>0. CaptureType
  BY DEF WindowsInv
<1>1. PICK d \in Sessions, id \in Chats, old \in Seq(Refs), new \in Seq(Refs) :
         /\ d = hook[h].to /\ id = hook[h].id /\ old = rec[d] /\ Writes(d, new)
         /\ id \notin AllIds /\ HookWriter(h, d) /\ hook[h].pc = "fill"
         /\ id = agent[h].chat /\ (~agent[h].strayed => d = h)
         /\ \E k \in PendingAt(old) : new = [old EXCEPT ![k].id = id] /\ ~NotReady(old[k], id)
         /\ Ids(new) = Ids(old) \cup {id}
  BY FillFacts
<1>2. PICK k \in PendingAt(old) : new = [old EXCEPT ![k].id = id]
  BY <1>1
<1>3. PendingAt(new) \subseteq PendingAt(old)
  BY <1>2, FilledRef
<1>4. /\ rec'[d] = new /\ \A t \in Sessions \ {d} : rec'[t] = rec[t]
  BY <1>0, <1>1, WritesGrow
<1>5. UNCHANGED op
  BY <1>0, HookFillsDoes
<1>6. rec[s] = rec'[s] \/ (rec[s] # None /\ rec'[s] # None /\ PendingAt(rec'[s]) \subseteq PendingAt(rec[s]))
  <2>1. CASE s # d
    BY <1>4, <2>1
  <2>2. CASE s = d
    <3>1. rec[s] = old /\ rec'[s] = new
      BY <1>1, <1>4, <2>2
    <3>2. old # None /\ new # None
      BY NoneIsNoList
    <3> QED  BY <1>3, <3>1, <3>2
  <2> QED  BY <2>1, <2>2
<1> QED  BY <1>5, <1>6, PendingStays

LEMMA StepKeepsPending ==
  ASSUME WindowsInv, ~Overlaps, [CaptureNext]_cVars, NEW s \in Sessions, PendingFits(s)
  PROVE  PendingFits(s)'
<1>0. CaptureType
  BY DEF WindowsInv
<1>1. CASE UNCHANGED <<rec, op>>
  BY <1>1, PendingStays
<1>2. ASSUME NEW o \in Ops, Launch(o) PROVE PendingFits(s)'
  <2>1. OpFits(o) /\ op[o].pc = "launch"
    BY <1>2 DEF WindowsInv, OpsFit, Launch
  <2>2. op[o].dst \in Sessions
    BY <2>1 DEF OpFits
  <2>3. PICK x \in OpType :
          /\ op' = [op EXCEPT ![o] = x]
          /\ x.pc = IF op[o].kind = "rollover" THEN "load" ELSE "record"
          /\ x.kind = op[o].kind /\ x.dst = op[o].dst /\ x.chat = op[o].chat /\ x.hasty = op[o].hasty
    BY <1>0, <1>2, <2>2, LaunchDoes
  <2>4. \A p \in Ops : /\ op'[p].dst = op[p].dst /\ op'[p].kind = op[p].kind /\ op'[p].hasty = op[p].hasty
                       /\ op'[p].pc # "over" => op[p].pc # "over"
    BY <1>0, <2>1, <2>3 DEF CaptureType
  <2>5. rec' = rec
    BY <1>2 DEF Launch
  <2> QED  BY <2>4, <2>5, PendingStays
<1>3. ASSUME NEW o \in Ops, LoadForRef(o) PROVE PendingFits(s)'
  <2>1. OpFits(o) /\ op[o].pc = "load"
    BY <1>3 DEF WindowsInv, OpsFit, LoadForRef
  <2>2. op[o].dst \in Sessions
    BY <2>1 DEF OpFits
  <2>3. PICK x \in OpType :
          /\ op' = [op EXCEPT ![o] = x]
          /\ x.pc = "save" /\ x.kind = op[o].kind /\ x.dst = op[o].dst /\ x.chat = op[o].chat
          /\ x.hasty = op[o].hasty /\ x.copy = rec[op[o].dst]
    BY <1>0, <1>3, <2>2, LoadDoes
  <2>4. \A p \in Ops : /\ op'[p].dst = op[p].dst /\ op'[p].kind = op[p].kind /\ op'[p].hasty = op[p].hasty
                       /\ op'[p].pc # "over" => op[p].pc # "over"
    BY <1>0, <2>1, <2>3 DEF CaptureType
  <2>5. rec' = rec
    BY <1>3 DEF LoadForRef
  <2> QED  BY <2>4, <2>5, PendingStays
<1>4. ASSUME NEW o \in Ops, NextOp(o), NEW kind \in Kinds, NEW src \in Sessions \cup {None},
             NEW dst \in Sessions, StartOp(o, kind, src, dst)
      PROVE  PendingFits(s)'
  BY <1>4, StartKeepsPending DEF NextOp
<1>5. ASSUME NEW t \in Sessions, NEW event \in {"session-start", "prompt-submit", "stop"},
             NEW to \in Sessions, Fire(t, event, to)
      PROVE  UNCHANGED <<rec, op>>
  BY <1>5 DEF Fire
<1>6. ASSUME NEW t \in Sessions, HookLoads(t) \/ HookScans(t) \/ StateLoads(t) PROVE UNCHANGED <<rec, op>>
  BY <1>6 DEF HookLoads, HookScans, StateLoads
<1>7. ASSUME NEW t \in Sessions, StateSaves(t) PROVE UNCHANGED <<rec, op>>
  BY <1>7, StateSavesKeepsWindows DEF StateSaves
<1>8. CASE UNCHANGED cVars
  BY <1>1, <1>8 DEF cVars
<1>9. CASE CaptureNext
  BY <1>1, <1>2, <1>3, <1>4, <1>5, <1>6, <1>7, <1>9, RecordKeepsPending, SaveKeepsPending, FillKeepsPending
     DEF CaptureNext
<1> QED  BY <1>8, <1>9

----------------------------------------------------------------------------
(* Chats that are not recorded yet, while hooks report home.                *)

LEMMA AwaitedStays ==
  ASSUME NEW s \in Sessions, Awaited(s), agent'[s].chat = agent[s].chat, rec'[s] = rec[s],
         \A o \in Ops : op[o].dst = s /\ op[o].pc \in Recording =>
           op'[o].dst = s /\ op'[o].kind = op[o].kind /\ op'[o].pc \in Recording,
         agent[s].chat \in AllIds' => agent[s].chat \in AllIds
  PROVE  Awaited(s)'
<1> SUFFICES ASSUME agent'[s].chat # None, agent'[s].chat \notin IdsOf(s)'
             PROVE  /\ \/ \E o \in Ops : op'[o].dst = s /\ op'[o].pc \in Recording
                       \/ rec'[s] # None /\ PendingAt(rec'[s]) # {}
                    /\ \/ \E o \in Ops : op'[o].dst = s /\ op'[o].pc \in Recording /\ op'[o].kind = "resume"
                       \/ agent'[s].chat \notin AllIds'
  BY DEF Awaited, Recording
<1>1. agent[s].chat # None /\ agent[s].chat \notin IdsOf(s)
  BY DEF IdsOf
<1>2. /\ \/ \E o \in Ops : op[o].dst = s /\ op[o].pc \in Recording
         \/ rec[s] # None /\ PendingAt(rec[s]) # {}
      /\ \/ \E o \in Ops : op[o].dst = s /\ op[o].pc \in Recording /\ op[o].kind = "resume"
         \/ agent[s].chat \notin AllIds
  BY <1>1 DEF Awaited
<1> QED  BY <1>2

LEMMA HeardStays ==
  ASSUME NEW s \in Sessions, Heard(s), agent'[s].chat = agent[s].chat, IdsOf(s) \subseteq IdsOf(s)',
         agent'[s].heard \/ HeardOf(s)' => agent[s].heard \/ HeardOf(s)
  PROVE  Heard(s)'
BY DEF Heard

\* A session that the step leaves alone.
LEMMA LeftAlone ==
  ASSUME NEW s \in Sessions, Awaited(s), Heard(s),
         agent'[s] = agent[s], hook'[s] = hook[s], rec'[s] = rec[s],
         \A o \in Ops : op[o].dst = s /\ op[o].pc \in Recording =>
           op'[o].dst = s /\ op'[o].kind = op[o].kind /\ op'[o].pc \in Recording,
         agent[s].chat \in AllIds' => agent[s].chat \in AllIds
  PROVE  Awaited(s)' /\ Heard(s)'
<1>1. Awaited(s)'
  BY AwaitedStays
<1>2. HeardOf(s)' => HeardOf(s)
  BY DEF HeardOf
<1>3. IdsOf(s) \subseteq IdsOf(s)'
  BY DEF IdsOf
<1>4. Heard(s)'
  BY <1>2, <1>3, HeardStays
<1> QED  BY <1>1, <1>4

\* A hook that moves while nothing else does: what it has heard is recorded.
LEMMA HookHears ==
  ASSUME CaptureType, NEW t \in Sessions, NEW h, hook' = [hook EXCEPT ![t] = h],
         UNCHANGED <<rec, op>>, NEW a, agent' = [agent EXCEPT ![t] = a],
         a.chat = agent[t].chat,
         a.heard \/ (h.pc \in {"state load", "state save"} /\ h.event = "prompt-submit" /\ h.after
                       /\ h.id = agent[t].chat)
           => agent[t].heard \/ HeardOf(t) \/ agent[t].chat \in IdsOf(t),
         \A s \in Sessions : Awaited(s) /\ Heard(s)
  PROVE  \A s \in Sessions : Awaited(s)' /\ Heard(s)'
<1>1. /\ hook'[t] = h /\ agent'[t] = a
      /\ \A s \in Sessions \ {t} : hook'[s] = hook[s] /\ agent'[s] = agent[s]
  BY DEF CaptureType
<1>2. AllIds' = AllIds /\ \A s \in Sessions : IdsOf(s)' = IdsOf(s)
  BY NothingWritten
<1>3. ASSUME NEW s \in Sessions \ {t} PROVE Awaited(s)' /\ Heard(s)'
  BY <1>1, <1>2, LeftAlone
<1>4. Awaited(t)'
  BY <1>1, <1>2, AwaitedStays
<1>5. Heard(t)'
  <2>1. agent'[t].heard \/ HeardOf(t)' => agent[t].heard \/ HeardOf(t) \/ agent[t].chat \in IdsOf(t)
    BY <1>1 DEF HeardOf
  <2>2. agent[t].heard \/ HeardOf(t) \/ agent[t].chat \in IdsOf(t) => agent[t].chat \in IdsOf(t)
    BY DEF Heard
  <2>3. agent'[t].chat = agent[t].chat /\ IdsOf(t)' = IdsOf(t)
    BY <1>1, <1>2
  <2> QED  BY <2>1, <2>2, <2>3 DEF Heard
<1> QED  BY <1>3, <1>4, <1>5

LEMMA FireHears ==
  ASSUME CaptureType, \A s \in Sessions : Awaited(s) /\ Heard(s), NEW t \in Sessions,
         NEW event \in {"session-start", "prompt-submit", "stop"}, NEW to \in Sessions, Fire(t, event, to)
  PROVE  \A s \in Sessions : Awaited(s)' /\ Heard(s)'
<1>1. PICK a \in AgentType : /\ agent' = [agent EXCEPT ![t] = a]
                             /\ a.chat = agent[t].chat /\ a.heard = agent[t].heard
  BY FireDoes
<1>2. PICK h \in HookType : hook' = [hook EXCEPT ![t] = h] /\ h.pc = "load"
  BY FireDoes
<1>3. UNCHANGED <<rec, op>>
  BY FireDoes
<1> QED  BY <1>1, <1>2, <1>3, HookHears

\* A prompt of the session's agent that comes when no operation on the session has
\* yet to record: its chat is on the record, or on none, and is waited for.
LEMMA AwaitedAfter ==
  ASSUME WindowsInv, NEW t \in Sessions, Awaited(t), hook[t].pc # "idle", hook[t].after,
         hook[t].id = agent[t].chat, agent[t].chat \notin IdsOf(t)
  PROVE  /\ hook[t].to = t /\ agent[t].chat \in Chats /\ agent[t].chat \notin AllIds
         /\ rec[t] # None /\ PendingAt(rec[t]) # {}
<1>1. HookFits(t) /\ agent[t] \in AgentType
  BY DEF WindowsInv, HooksFit, CaptureType
<1>2. /\ hook[t].to = t /\ hook[t].id # None
      /\ \A o \in Ops : op[o].dst = t => op[o].pc \notin Recording
  BY <1>1 DEF HookFits
<1> QED  BY <1>1, <1>2 DEF Awaited, AgentType

LEMMA HookLoadsHears ==
  ASSUME WindowsInv, RecordsFit, \A s \in Sessions : Awaited(s) /\ Heard(s),
         NEW t \in Sessions, HookLoads(t)
  PROVE  \A s \in Sessions : Awaited(s)' /\ Heard(s)'
<1>1. CaptureType /\ HookFits(t) /\ hook[t].pc = "load"
  BY DEF WindowsInv, HooksFit, HookLoads
<1>2. hook[t].to \in Sessions
  BY <1>1 DEF HookFits
<1>3. UNCHANGED <<rec, agent, op>>
  BY DEF HookLoads
<1>4. PICK h \in HookType :
         /\ hook' = [hook EXCEPT ![t] = h]
         /\ \/ h.pc = "idle"
            \/ h.pc = "scan"
            \/ /\ h.pc = "state load" /\ Same(h, hook[t]) /\ rec[h.to] # None
               /\ h.event = "prompt-submit" => ~Fills(rec[h.to], h.id)
  BY <1>1, <1>2, HookLoadsDoes
<1>5. ASSUME h.pc = "state load", h.event = "prompt-submit", h.after, h.id = agent[t].chat,
             agent[t].chat \notin IdsOf(t)
      PROVE  FALSE
  <2>1. /\ hook[t].after /\ hook[t].id = agent[t].chat /\ h.to = hook[t].to
        /\ ~Fills(rec[h.to], h.id)
    BY <1>4, <1>5 DEF Same
  <2>2. /\ hook[t].to = t /\ agent[t].chat \in Chats /\ agent[t].chat \notin AllIds
        /\ rec[t] # None /\ PendingAt(rec[t]) # {}
    BY <1>1, <1>5, <2>1, AwaitedAfter
  <2>3. rec[t] \in Seq(Refs)
    BY <1>1, <2>2 DEF CaptureType, Copies
  <2>4. Latest(PendingAt(rec[t])) \in PendingAt(rec[t])
    BY <2>2, <2>3, LatestIsOne DEF PendingAt
  <2>5. PICK i \in DOMAIN rec[t] : i = Latest(PendingAt(rec[t]))
    BY <2>4 DEF PendingAt
  <2>6. NotReady(rec[t][i], agent[t].chat)
    BY <1>5, <2>1, <2>2, <2>5 DEF Fills, IdsOf
  <2>7. rec[t][i].origin \in AllIds \cup {None}
    BY <2>2 DEF RecordsFit, RefFits
  <2>8. agent[t].chat # None
    BY <2>2, NoneIsNoList
  <2> QED  BY <2>2, <2>6, <2>7, <2>8 DEF NotReady
<1>6. agent' = [agent EXCEPT ![t] = agent[t]]
  BY <1>1, <1>3 DEF CaptureType
<1> QED  BY <1>1, <1>3, <1>4, <1>5, <1>6, HookHears

LEMMA HookScansHears ==
  ASSUME WindowsInv, \A s \in Sessions : Awaited(s) /\ Heard(s), NEW t \in Sessions, HookScans(t)
  PROVE  \A s \in Sessions : Awaited(s)' /\ Heard(s)'
<1>1. CaptureType /\ hook[t].pc = "scan"
  BY DEF WindowsInv, HookScans
<1>2. UNCHANGED <<rec, agent, op>>
  BY DEF HookScans
<1>3. PICK h \in HookType :
         /\ hook' = [hook EXCEPT ![t] = h]
         /\ \/ h.pc = "idle"
            \/ h.pc = "fill"
            \/ h.pc = "state load" /\ Same(h, hook[t]) /\ Owned(hook[t].to, hook[t].id)
  BY <1>1, HookScansDoes
<1>4. ASSUME h.pc = "state load", h.after, h.id = agent[t].chat, agent[t].chat \notin IdsOf(t)
      PROVE  FALSE
  <2>1. hook[t].after /\ hook[t].id = agent[t].chat /\ Owned(hook[t].to, hook[t].id)
    BY <1>3, <1>4 DEF Same
  <2>2. hook[t].to = t /\ agent[t].chat \in Chats /\ agent[t].chat \notin AllIds
    BY <1>1, <1>4, <2>1, AwaitedAfter
  <2> QED  BY <2>1, <2>2 DEF Owned, AllIds, IdsOf
<1>5. agent' = [agent EXCEPT ![t] = agent[t]]
  BY <1>1, <1>2 DEF CaptureType
<1> QED  BY <1>1, <1>2, <1>3, <1>4, <1>5, HookHears

LEMMA StateHears ==
  ASSUME WindowsInv, \A s \in Sessions : Awaited(s) /\ Heard(s), NEW t \in Sessions,
         StateLoads(t) \/ StateSaves(t)
  PROVE  \A s \in Sessions : Awaited(s)' /\ Heard(s)'
<1>1. CaptureType /\ HookFits(t)
  BY DEF WindowsInv, HooksFit
<1>2. hook[t].to \in Sessions
  BY <1>1 DEF HookFits, StateLoads, StateSaves
<1>3. CASE StateLoads(t)
  <2>1. UNCHANGED <<rec, agent, op>> /\ hook[t].pc = "state load"
    BY <1>3 DEF StateLoads
  <2>2. PICK h \in HookType : /\ hook' = [hook EXCEPT ![t] = h]
                              /\ h.pc = "state save" /\ Same(h, hook[t])
    BY <1>1, <1>2, <1>3, StateLoadsDoes
  <2>3. agent' = [agent EXCEPT ![t] = agent[t]]
    BY <1>1, <2>1 DEF CaptureType
  <2>4. agent[t].heard \/ (h.pc \in {"state load", "state save"} /\ h.event = "prompt-submit" /\ h.after
                             /\ h.id = agent[t].chat)
          => agent[t].heard \/ HeardOf(t) \/ agent[t].chat \in IdsOf(t)
    BY <2>1, <2>2 DEF Same, HeardOf
  <2>5. UNCHANGED <<rec, op>>
    BY <2>1
  <2> QED  BY <1>1, <2>2, <2>3, <2>4, <2>5, HookHears
<1>4. CASE StateSaves(t)
  <2>1. hook[t].pc = "state save" /\ hook[t].copy = rec[hook[t].to]
    BY <1>1, <1>4 DEF HookFits, StateSaves
  <2>2. UNCHANGED <<rec, op>> /\ hook' = [hook EXCEPT ![t] = NoHook] /\ NoHook.pc = "idle"
    BY <1>1, <1>2, <1>4, <2>1, StateSavesDoes DEF NoHook
  <2>3. PICK a \in AgentType : /\ agent' = [agent EXCEPT ![t] = a]
                               /\ a.chat = agent[t].chat /\ (a.heard => agent[t].heard \/ HeardOf(t))
    BY <1>1, <1>2, <1>4, <2>1, StateSavesDoes
  <2> QED  BY <1>1, <2>2, <2>3, HookHears
<1> QED  BY <1>3, <1>4

LEMMA FillHears ==
  ASSUME WindowsInv, NoneStrays, \A s \in Sessions : Awaited(s) /\ Heard(s), NEW t \in Sessions, HookFills(t)
  PROVE  \A s \in Sessions : Awaited(s)' /\ Heard(s)'
<1>0. CaptureType /\ AgentsFit
  BY DEF WindowsInv
<1>1. PICK d \in Sessions, id \in Chats, old \in Seq(Refs), new \in Seq(Refs) :
         /\ d = hook[t].to /\ id = hook[t].id /\ old = rec[d] /\ Writes(d, new)
         /\ id \notin AllIds /\ HookWriter(t, d) /\ hook[t].pc = "fill"
         /\ id = agent[t].chat /\ (~agent[t].strayed => d = t)
         /\ \E k \in PendingAt(old) : new = [old EXCEPT ![k].id = id] /\ ~NotReady(old[k], id)
         /\ Ids(new) = Ids(old) \cup {id}
  BY FillFacts
<1>2. d = t /\ UNCHANGED <<agent, op>>
  BY <1>0, <1>1, HookFillsDoes DEF NoneStrays
<1>3. /\ \A s \in Sessions \ {d} : rec'[s] = rec[s]
      /\ IdsOf(d)' = Ids(new) /\ AllIds' = AllIds \cup Ids(new) /\ rec[d] # None
  BY <1>0, <1>1, WritesGrow, NoneIsNoList
<1>4. Ids(new) \subseteq AllIds \cup {id}
  BY <1>0, <1>1, <1>3, IdsAreChats DEF IdsOf
<1>5. agent'[t].chat \in IdsOf(t)'
  BY <1>1, <1>2, <1>3
<1>6. Awaited(t)' /\ Heard(t)'
  BY <1>5 DEF Awaited, Heard
<1>7. ASSUME NEW s \in Sessions \ {t} PROVE Awaited(s)' /\ Heard(s)'
  <2>1. hook'[s] = hook[s]
    <3>1. PICK h \in HookType : hook' = [hook EXCEPT ![t] = h]
      BY <1>0, HookFillsDoes
    <3> QED  BY <1>0, <3>1 DEF CaptureType
  <2>2. agent[s].chat # id
    BY <1>0, <1>1, <1>7, NoneIsNoList DEF AgentsFit
  <2>3. agent[s].chat \in AllIds' => agent[s].chat \in AllIds
    BY <1>3, <1>4, <2>2
  <2>4. agent'[s] = agent[s] /\ rec'[s] = rec[s] /\ op' = op
    BY <1>2, <1>3
  <2> QED  BY <2>1, <2>3, <2>4, LeftAlone
<1> QED  BY <1>6, <1>7

\* An operation that moves while only its own session's record is written, with no
\* chat that was on none.
LEMMA OpHears ==
  ASSUME CaptureType, NEW o \in Ops, NEW x, op' = [op EXCEPT ![o] = x], NEW d \in Sessions,
         \A s \in Sessions \ {d} : rec'[s] = rec[s] /\ agent'[s] = agent[s] /\ hook'[s] = hook[s],
         op[o].pc \in Recording => op[o].dst = d,
         AllIds' = AllIds,
         \A s \in Sessions : Awaited(s) /\ Heard(s),
         Awaited(d)' /\ Heard(d)'
  PROVE  \A s \in Sessions : Awaited(s)' /\ Heard(s)'
<1>1. ASSUME NEW s \in Sessions \ {d} PROVE Awaited(s)' /\ Heard(s)'
  <2>1. \A p \in Ops : op[p].dst = s /\ op[p].pc \in Recording =>
          op'[p].dst = s /\ op'[p].kind = op[p].kind /\ op'[p].pc \in Recording
    BY DEF CaptureType
  <2> QED  BY <2>1, LeftAlone
<1> QED  BY <1>1

LEMMA StartHears ==
  ASSUME CaptureType, NEW o \in Ops, NEW kind \in Kinds, NEW src \in Sessions \cup {None},
         NEW dst \in Sessions, op[o].pc = "idle", StartOp(o, kind, src, dst),
         \A s \in Sessions : Awaited(s) /\ Heard(s)
  PROVE  \A s \in Sessions : Awaited(s)' /\ Heard(s)'
<1>1. UNCHANGED <<rec, agent, hook>>
  BY DEF StartOp
<1>2. PICK x \in OpType : op' = [op EXCEPT ![o] = x]
  BY StartDoes
<1>3. \A p \in Ops : op[p].pc \in Recording => op'[p] = op[p]
  BY <1>2 DEF CaptureType, Recording
<1>4. AllIds' = AllIds
  BY <1>1, NothingWritten
<1>5. ASSUME NEW s \in Sessions PROVE Awaited(s)' /\ Heard(s)'
  BY <1>1, <1>3, <1>4, LeftAlone
<1> QED  BY <1>5

LEMMA LoadHears ==
  ASSUME WindowsInv, NEW o \in Ops, LoadForRef(o), \A s \in Sessions : Awaited(s) /\ Heard(s)
  PROVE  \A s \in Sessions : Awaited(s)' /\ Heard(s)'
<1>0. CaptureType /\ OpFits(o) /\ op[o].pc = "load"
  BY DEF WindowsInv, OpsFit, LoadForRef
<1>1. op[o].dst \in Sessions /\ UNCHANGED <<rec, agent, hook>>
  BY <1>0 DEF OpFits, LoadForRef
<1>2. PICK x \in OpType : /\ op' = [op EXCEPT ![o] = x]
                          /\ x.pc = "save" /\ x.kind = op[o].kind /\ x.dst = op[o].dst
  BY <1>0, <1>1, LoadDoes
<1>3. \A p \in Ops : op[p].pc \in Recording =>
        op'[p].dst = op[p].dst /\ op'[p].kind = op[p].kind /\ op'[p].pc \in Recording
  BY <1>0, <1>2 DEF CaptureType, Recording
<1>4. AllIds' = AllIds
  BY <1>1, NothingWritten
<1>5. ASSUME NEW s \in Sessions PROVE Awaited(s)' /\ Heard(s)'
  BY <1>1, <1>3, <1>4, LeftAlone
<1> QED  BY <1>5

LEMMA LaunchHears ==
  ASSUME WindowsInv, NEW o \in Ops, Launch(o), \A s \in Sessions : Awaited(s) /\ Heard(s)
  PROVE  \A s \in Sessions : Awaited(s)' /\ Heard(s)'
<1>0. CaptureType /\ OpFits(o) /\ op[o].pc = "launch"
  BY DEF WindowsInv, OpsFit, Launch
<1>1. PICK d \in Sessions : d = op[o].dst
  BY <1>0 DEF OpFits
<1>2. PICK x \in OpType : /\ op' = [op EXCEPT ![o] = x]
                          /\ x.pc = IF op[o].kind = "rollover" THEN "load" ELSE "record"
                          /\ x.kind = op[o].kind /\ x.dst = d
  BY <1>0, <1>1, LaunchDoes
<1>3. PICK a \in AgentType : /\ agent' = [agent EXCEPT ![d] = a] /\ a.heard = FALSE
                             /\ op[o].kind # "resume" => a.chat \in Fresh
  BY <1>0, <1>1, LaunchDoes
<1>4. hook' = [hook EXCEPT ![d] = NoHook] /\ UNCHANGED rec
  BY <1>1 DEF Launch
<1>5. AllIds' = AllIds
  BY <1>4, NothingWritten
<1>6. agent'[d] = a /\ hook'[d] = NoHook /\ op'[o] = x
  BY <1>0, <1>2, <1>3, <1>4 DEF CaptureType
<1>7. Heard(d)'
  <2>1. hook'[d].pc = "idle" /\ agent'[d].heard = FALSE
    BY <1>3, <1>6 DEF NoHook
  <2>2. ~HeardOf(d)'
    BY <2>1 DEF HeardOf
  <2> QED  BY <2>1, <2>2 DEF Heard
<1>8. Awaited(d)'
  <2>1. op'[o].dst = d /\ op'[o].pc \in Recording /\ op'[o].kind = op[o].kind
    BY <1>2, <1>6 DEF Recording
  <2>2. op[o].kind # "resume" => agent'[d].chat \notin AllIds'
    BY <1>3, <1>5, <1>6, FreshIsNew
  <2> QED  BY <2>1, <2>2 DEF Awaited, Recording
<1>9. \A s \in Sessions \ {d} : rec'[s] = rec[s] /\ agent'[s] = agent[s] /\ hook'[s] = hook[s]
  BY <1>0, <1>3, <1>4 DEF CaptureType
<1> QED  BY <1>0, <1>1, <1>2, <1>5, <1>7, <1>8, <1>9, OpHears

LEMMA RecordHears ==
  ASSUME WindowsInv, NEW o \in Ops, RecordSpawn(o), \A s \in Sessions : Awaited(s) /\ Heard(s)
  PROVE  \A s \in Sessions : Awaited(s)' /\ Heard(s)'
<1>0. CaptureType /\ OpFits(o) /\ op[o].pc = "record" /\ UNCHANGED <<agent, hook>>
  BY DEF WindowsInv, OpsFit, RecordSpawn
<1>1. op[o].kind # "rollover"
  BY <1>0 DEF OpFits
<1>2. PICK d \in Sessions, chats \in Seq(Refs) :
        /\ d = op[o].dst /\ rec[d] = None /\ Writes(d, chats) /\ Ids(chats) = {}
        /\ chats = IF op[o].kind = "original" THEN <<Pending("original", None)>> ELSE <<>>
  BY RecordKeepsWindows
<1>3. /\ rec'[d] = chats /\ chats # None /\ \A s \in Sessions \ {d} : rec'[s] = rec[s]
      /\ IdsOf(d)' = {} /\ AllIds' = AllIds
  <2>1. /\ rec'[d] = chats /\ chats # None /\ \A s \in Sessions \ {d} : rec'[s] = rec[s]
        /\ \A s \in Sessions : IdsOf(s)' = IF s = d THEN Ids(chats) ELSE IdsOf(s)
        /\ AllIds' = AllIds \cup Ids(chats)
    BY <1>0, <1>2, WritesGrow
  <2> QED  BY <1>2, <2>1
<1>4. PICK x \in OpType : /\ op' = [op EXCEPT ![o] = x]
                          /\ x.kind = op[o].kind /\ x.dst = d
                          /\ op[o].kind = "resume" => x.pc = "save"
                          /\ op[o].kind \notin {"original", "resume"} => x.pc = "load"
  BY <1>0, <1>1, <1>2, RecordDoes
<1>5. op'[o] = x
  BY <1>0, <1>4 DEF CaptureType
<1>6. IdsOf(d) = {}
  BY <1>2 DEF IdsOf
<1>7. Heard(d)'
  <2>1. HeardOf(d)' => HeardOf(d)
    BY <1>0 DEF HeardOf
  <2> QED  BY <1>0, <1>3, <1>6, <2>1, HeardStays
<1>8. Awaited(d)'
  <2> SUFFICES ASSUME agent'[d].chat # None, agent'[d].chat \notin IdsOf(d)'
               PROVE  /\ \/ \E p \in Ops : op'[p].dst = d /\ op'[p].pc \in Recording
                         \/ rec'[d] # None /\ PendingAt(rec'[d]) # {}
                      /\ \/ \E p \in Ops : op'[p].dst = d /\ op'[p].pc \in Recording /\ op'[p].kind = "resume"
                         \/ agent'[d].chat \notin AllIds'
    BY DEF Awaited, Recording
  <2>1. \/ \E p \in Ops : op[p].dst = d /\ op[p].pc \in Recording /\ op[p].kind = "resume"
        \/ agent[d].chat \notin AllIds
    BY <1>0, <1>6 DEF Awaited
  <2>2. op[o].kind = "original" => PendingAt(rec'[d]) # {}
    BY <1>2, <1>3 DEF PendingAt, Pending, Ref
  <2>3. op[o].kind # "original" => op'[o].dst = d /\ op'[o].pc \in Recording
    BY <1>4, <1>5 DEF Recording
  <2>4. \A p \in Ops : op[p].dst = d => p = o
    BY <1>0, <1>2, AloneAtRecord
  <2> QED  BY <1>0, <1>3, <1>4, <1>5, <2>1, <2>2, <2>3, <2>4 DEF Recording
<1>9. \A s \in Sessions \ {d} : rec'[s] = rec[s] /\ agent'[s] = agent[s] /\ hook'[s] = hook[s]
  BY <1>0, <1>3
<1> QED  BY <1>0, <1>2, <1>3, <1>4, <1>7, <1>8, <1>9, OpHears

LEMMA SaveHears ==
  ASSUME WindowsInv, NEW o \in Ops, SaveRef(o), \A s \in Sessions : Awaited(s) /\ Heard(s)
  PROVE  \A s \in Sessions : Awaited(s)' /\ Heard(s)'
<1>0. CaptureType /\ OpFits(o)
  BY DEF WindowsInv, OpsFit
<1>1. /\ op[o].pc = "save" /\ op[o].kind # "original" /\ op[o].dst \in Sessions
      /\ op[o].copy = rec[op[o].dst] /\ op[o].copy \in Seq(Refs)
      /\ op[o].chat \in Chats
      /\ op[o].kind # "rollover" => op[o].copy = <<>>
      /\ Writes(op[o].dst, WithRef(o)) /\ Ids(WithRef(o)) \subseteq AllIds
      /\ UNCHANGED <<agent, hook>>
  BY SaveFacts
<1>2. PICK d \in Sessions, new \in Seq(Refs) : d = op[o].dst /\ new = WithRef(o)
  BY <1>1 DEF Writes
<1>3. /\ rec'[d] = new /\ new # None /\ \A s \in Sessions \ {d} : rec'[s] = rec[s]
      /\ IdsOf(d)' = Ids(new) /\ IdsOf(d) \subseteq IdsOf(d)' /\ AllIds' = AllIds \cup Ids(new)
  BY <1>0, <1>1, <1>2, WritesGrow
<1>4. AllIds' = AllIds
  BY <1>1, <1>2, <1>3
<1>5. PICK x \in OpType : op' = [op EXCEPT ![o] = x]
  BY <1>0, <1>1, SaveDoes
<1>6. \A p \in Ops \ {o} : op'[p] = op[p]
  BY <1>0, <1>5 DEF CaptureType
<1>7. Heard(d)'
  <2>1. HeardOf(d)' => HeardOf(d)
    BY <1>1 DEF HeardOf
  <2> QED  BY <1>1, <1>3, <2>1, HeardStays
<1>8. Awaited(d)'
  <2> SUFFICES ASSUME agent'[d].chat # None, agent'[d].chat \notin IdsOf(d)'
               PROVE  (rec'[d] # None /\ PendingAt(rec'[d]) # {}) /\ agent'[d].chat \notin AllIds'
    BY DEF Awaited
  <2>1. op[o].kind # "resume"
    <3>1. op[o].kind = "resume" => Ids(new) = Ids(op[o].copy) \cup {op[o].chat}
      BY <1>0, <1>1, <1>2, WithRefIs
    <3>2. op[o].kind = "resume" => agent[d].chat = op[o].chat
      BY <1>0, <1>1, <1>2 DEF OpFits
    <3> QED  BY <1>1, <1>3, <3>1, <3>2
  <2>2. PendingAt(new) # {}
    <3>1. op[o].kind # "fork" \/ op[o].copy = <<>>
      BY <1>1
    <3> QED  BY <1>0, <1>1, <1>2, <2>1, <3>1, WithRefIs
  <2>3. \A p \in Ops : op[p].dst = d /\ op[p].kind = "resume" => op[p].pc \notin Recording
    BY <1>1, <1>2, <2>1, OthersOfSave DEF Recording
  <2>4. agent[d].chat \notin AllIds
    BY <1>1, <1>3, <2>3 DEF Awaited
  <2> QED  BY <1>1, <1>3, <1>4, <2>2, <2>4
<1>9. \A s \in Sessions \ {d} : rec'[s] = rec[s] /\ agent'[s] = agent[s] /\ hook'[s] = hook[s]
  BY <1>1, <1>3
<1> QED  BY <1>0, <1>2, <1>4, <1>5, <1>7, <1>8, <1>9, OpHears

LEMMA StrayStays ==
  ASSUME WindowsInv, ~Overlaps, [CaptureNext]_cVars, NoneStrays'
  PROVE  NoneStrays
<1> SUFFICES ASSUME NEW s \in Sessions, agent[s].strayed PROVE agent'[s].strayed
  BY DEF NoneStrays
<1>0. CaptureType
  BY DEF WindowsInv
<1>1. CASE UNCHANGED agent
  BY <1>1
<1>2. ASSUME NEW o \in Ops, Launch(o) PROVE agent'[s].strayed
  <2>1. OpFits(o) /\ op[o].pc = "launch"
    BY <1>2 DEF WindowsInv, OpsFit, Launch
  <2>2. op[o].dst \in Sessions
    BY <2>1 DEF OpFits
  <2>3. PICK a \in AgentType : /\ agent' = [agent EXCEPT ![op[o].dst] = a]
                               /\ a.strayed = agent[op[o].dst].strayed
    BY <1>0, <1>2, <2>2, LaunchDoes
  <2> QED  BY <1>0, <2>2, <2>3 DEF CaptureType
<1>3. ASSUME NEW t \in Sessions, NEW event \in {"session-start", "prompt-submit", "stop"},
             NEW to \in Sessions, Fire(t, event, to)
      PROVE  agent'[s].strayed
  <2>1. PICK a \in AgentType : /\ agent' = [agent EXCEPT ![t] = a]
                               /\ a.strayed = (agent[t].strayed \/ to # t)
    BY <1>0, <1>3, FireDoes
  <2> QED  BY <1>0, <2>1 DEF CaptureType
<1>4. ASSUME NEW t \in Sessions, StateSaves(t) PROVE agent'[s].strayed
  <2>1. HookFits(t) /\ hook[t].pc = "state save"
    BY <1>4 DEF WindowsInv, HooksFit, StateSaves
  <2>2. hook[t].to \in Sessions /\ hook[t].copy = rec[hook[t].to]
    BY <2>1 DEF HookFits
  <2>3. PICK a \in AgentType : agent' = [agent EXCEPT ![t] = a] /\ a.strayed = agent[t].strayed
    BY <1>0, <1>4, <2>2, StateSavesDoes
  <2> QED  BY <1>0, <2>3 DEF CaptureType
<1>5. ASSUME NEW o \in Ops, RecordSpawn(o) \/ LoadForRef(o) \/ SaveRef(o) PROVE UNCHANGED agent
  BY <1>5 DEF RecordSpawn, LoadForRef, SaveRef
<1>6. ASSUME NEW o \in Ops, NEW kind \in Kinds, NEW src \in Sessions \cup {None},
             NEW dst \in Sessions, StartOp(o, kind, src, dst)
      PROVE  UNCHANGED agent
  BY <1>6 DEF StartOp
<1>7. ASSUME NEW t \in Sessions, HookLoads(t) \/ HookScans(t) \/ HookFills(t) \/ StateLoads(t)
      PROVE  UNCHANGED agent
  BY <1>7 DEF HookLoads, HookScans, HookFills, StateLoads
<1>8. CASE UNCHANGED cVars
  BY <1>1, <1>8 DEF cVars
<1>9. CASE CaptureNext
  BY <1>1, <1>2, <1>3, <1>4, <1>5, <1>6, <1>7, <1>9 DEF CaptureNext
<1> QED  BY <1>8, <1>9

LEMMA StepHears ==
  ASSUME WindowsInv, RecordsFit, ~Overlaps, [CaptureNext]_cVars, NoneStrays,
         \A s \in Sessions : Awaited(s) /\ Heard(s)
  PROVE  \A s \in Sessions : Awaited(s)' /\ Heard(s)'
<1>0. CaptureType
  BY DEF WindowsInv
<1>1. CASE UNCHANGED cVars
  <2>1. rec' = rec /\ agent' = agent /\ hook' = hook /\ op' = op
    BY <1>1 DEF cVars
  <2>2. AllIds' = AllIds
    BY <2>1, NothingWritten
  <2>3. ASSUME NEW s \in Sessions PROVE Awaited(s)' /\ Heard(s)'
    BY <2>1, <2>2, LeftAlone
  <2> QED  BY <2>3
<1>2. ASSUME NEW o \in Ops, Launch(o) PROVE \A s \in Sessions : Awaited(s)' /\ Heard(s)'
  BY <1>2, LaunchHears
<1>3. ASSUME NEW o \in Ops, RecordSpawn(o) PROVE \A s \in Sessions : Awaited(s)' /\ Heard(s)'
  BY <1>3, RecordHears
<1>4. ASSUME NEW o \in Ops, LoadForRef(o) PROVE \A s \in Sessions : Awaited(s)' /\ Heard(s)'
  BY <1>4, LoadHears
<1>5. ASSUME NEW o \in Ops, SaveRef(o) PROVE \A s \in Sessions : Awaited(s)' /\ Heard(s)'
  BY <1>5, SaveHears
<1>6. ASSUME NEW o \in Ops, NextOp(o), NEW kind \in Kinds, NEW src \in Sessions \cup {None},
             NEW dst \in Sessions, StartOp(o, kind, src, dst)
      PROVE  \A s \in Sessions : Awaited(s)' /\ Heard(s)'
  BY <1>0, <1>6, StartHears DEF NextOp
<1>7. ASSUME NEW t \in Sessions, NEW event \in {"session-start", "prompt-submit", "stop"},
             NEW to \in Sessions, Fire(t, event, to)
      PROVE  \A s \in Sessions : Awaited(s)' /\ Heard(s)'
  BY <1>0, <1>7, FireHears
<1>8. ASSUME NEW t \in Sessions, HookLoads(t) PROVE \A s \in Sessions : Awaited(s)' /\ Heard(s)'
  BY <1>8, HookLoadsHears
<1>9. ASSUME NEW t \in Sessions, HookScans(t) PROVE \A s \in Sessions : Awaited(s)' /\ Heard(s)'
  BY <1>9, HookScansHears
<1>10. ASSUME NEW t \in Sessions, HookFills(t) PROVE \A s \in Sessions : Awaited(s)' /\ Heard(s)'
  BY <1>10, FillHears
<1>11. ASSUME NEW t \in Sessions, StateLoads(t) \/ StateSaves(t)
       PROVE  \A s \in Sessions : Awaited(s)' /\ Heard(s)'
  BY <1>11, StateHears
<1>12. CASE CaptureNext
  BY <1>2, <1>3, <1>4, <1>5, <1>6, <1>7, <1>8, <1>9, <1>10, <1>11, <1>12 DEF CaptureNext
<1> QED  BY <1>1, <1>12

----------------------------------------------------------------------------
(* The invariant, and what it says.                                         *)

LEMMA CaptureStarts == CaptureInit => CaptureInv
<1> SUFFICES ASSUME CaptureInit PROVE CaptureInv
  OBVIOUS
<1>1. /\ \A s \in Sessions : rec[s] = None /\ agent[s] = NoAgent /\ hook[s] = NoHook
      /\ \A o \in Ops : op[o] = NoOp
  BY DEF CaptureInit
<1>2. WindowsInv
  BY InitWindows
<1>3. RecordsFit /\ OneOwner
  BY <1>1 DEF RecordsFit, OneOwner
<1>4. \A s \in Sessions : PendingFits(s)
  <2>1. \A o \in Ops : op[o].dst = None
    BY <1>1 DEF NoOp
  <2> QED  BY <1>1, <2>1, NoneIsNoList DEF PendingFits
<1>5. \A s \in Sessions : Awaited(s) /\ Heard(s)
  <2>1. \A s \in Sessions : agent[s].chat = None /\ agent[s].heard = FALSE /\ hook[s].pc = "idle"
    BY <1>1 DEF NoAgent, NoHook
  <2> QED  BY <2>1 DEF Awaited, Heard, HeardOf
<1> QED  BY <1>2, <1>3, <1>4, <1>5 DEF CaptureInv

LEMMA CaptureHolds ==
  ASSUME CaptureInv, ~Overlaps, [CaptureNext]_cVars
  PROVE  CaptureInv'
<1>1. WindowsInv /\ RecordsFit /\ OneOwner
  BY DEF CaptureInv
<1>2. WindowsInv'
  BY <1>1, StepKeepsWindows
<1>3. RecordsFit' /\ OneOwner'
  BY <1>1, StepKeepsRecords
<1>4. ASSUME NEW s \in Sessions PROVE PendingFits(s)'
  BY <1>1, StepKeepsPending DEF CaptureInv
<1>5. ASSUME NoneStrays' PROVE \A s \in Sessions : Awaited(s)' /\ Heard(s)'
  <2>1. NoneStrays
    BY <1>1, <1>5, StrayStays
  <2> QED  BY <1>1, <2>1, StepHears DEF CaptureInv
<1> QED  BY <1>2, <1>3, <1>4, <1>5 DEF CaptureInv

LEMMA CaptureTracks == CaptureInv => ChatsAreTracked
<1> SUFFICES ASSUME CaptureInv PROVE ChatsAreTracked
  OBVIOUS
<1>1. OneOwner
  BY DEF CaptureInv
<1>2. LineageKept
  <2> SUFFICES ASSUME NEW s \in Sessions, rec[s] # None, NEW i \in DOMAIN rec[s]
               PROVE  /\ rec[s][i].role = "fork" => rec[s][i].id # rec[s][i].origin
                      /\ rec[s][i].role = "rollover" =>
                           \E j \in 1..(i - 1) : rec[s][j].id = rec[s][i].origin /\ rec[s][j].ended
    BY DEF LineageKept
  <2>1. RefFits(rec[s], i)
    BY DEF CaptureInv, RecordsFit
  <2> QED  BY <2>1 DEF RefFits
<1>3. OnePending
  <2> SUFFICES ASSUME NEW s \in Sessions, rec[s] # None, \A o \in Ops : op[o].dst = s => ~op[o].hasty
               PROVE  \A i, j \in PendingAt(rec[s]) : i = j
    BY DEF OnePending
  <2>1. Patient(s)
    BY DEF Patient
  <2> QED  BY <2>1 DEF CaptureInv, PendingFits
<1>4. PromptCaptures
  <2> SUFFICES ASSUME NoneStrays, NEW s \in Sessions, agent[s].heard PROVE agent[s].chat \in Ids(rec[s])
    BY DEF PromptCaptures, NoneStrays
  <2>1. agent[s].chat \in IdsOf(s)
    BY DEF CaptureInv, Heard
  <2> QED  BY <2>1 DEF IdsOf
<1> QED  BY <1>1, <1>2, <1>3, <1>4 DEF ChatsAreTracked

\* Where the windows between a load and a save of one record do not overlap, the records
\* tell which session has had which chat and where it came from, for any number of sessions,
\* chats and operations, hooks gone astray or not: one owner for each chat, its lineage, one
\* reference waiting at a time, and no prompt whose chat is not recorded.
THEOREM ChatsAreAlwaysTracked == ASSUME ~Overlaps PROVE CaptureSpec => []ChatsAreTracked
<1>1. CaptureInit => CaptureInv
  BY CaptureStarts
<1>2. CaptureInv /\ [CaptureNext]_cVars => CaptureInv'
  BY CaptureHolds
<1>3. CaptureInv => ChatsAreTracked
  BY CaptureTracks
<1> QED  BY <1>1, <1>2, <1>3, PTL DEF CaptureSpec

----------------------------------------------------------------------------
(***************************************************************************)
(* AttachTopology.                                                          *)
(***************************************************************************)

(* Of the pick x of the state in, out, act, alive.                          *)
Undisturbed(x) == x.pc # "none" /\ x.calm

PickType ==
    [pc: {"none", "check", "current", "clients", "panes", "select", "respawn", "exec", "switch", "done"},
     kind: {"attach", "jump", "dash"}, by: Terminals \cup {None}, pane: Panes \cup {None},
     target: Agents \cup {None}, current: Agents \cup Views \cup {None},
     clients: [Panes -> Agents \cup {None}] \cup {<<>>},
     how: {"none", "same", "select", "respawn", "switch", "failed"}, calm: BOOLEAN]

\* A pick from a terminal knows the view it was made in and the pane it covers; the
\* one found for it shows the session, and if none was found none of that view does.
PickKnows(x, in, out, act, alive) ==
    /\ out[x.by] \in Views
    /\ x.pc \notin {"check", "current"} => x.current = out[x.by]
    /\ x.pc # "check" => x.target \in alive
    /\ x.pc # "select" => x.pane = <<out[x.by], act[out[x.by]]>>
    /\ x.pc = "panes" => x.clients = in
    /\ x.pc = "select" => x.pane \in Panes /\ Host(x.pane) = out[x.by] /\ in[x.pane] = x.target
    /\ x.pc \in {"respawn", "exec", "switch"} /\ x.kind = "jump" =>
         \A p \in Panes : Host(p) = out[x.by] => in[p] # x.target

PickFits(x) ==
    /\ x \in PickType
    /\ x.pc # "none" => x.target \in Agents
    /\ x.pc # "none" /\ x.kind # "dash" => x.by \in Terminals /\ x.pane \in Panes
    /\ x.pc = "panes" => x.clients \in [Panes -> Agents \cup {None}]
    /\ x.pc \in {"current", "respawn", "exec", "switch"} => x.kind # "dash"
    /\ x.pc = "select" => x.pane \in Panes
    /\ x.pc = "exec" => x.current \in Views

PickTrue(x, in, out, act, alive) ==
    Undisturbed(x) /\ x.kind # "dash" /\ x.pc # "done" => PickKnows(x, in, out, act, alive)

TopInv ==
    /\ running \subseteq Agents
    /\ inner \in [Panes -> Agents \cup {None}]
    /\ outer \in [Terminals -> Agents \cup Views \cup {None}]
    /\ active \in [Views -> 1..MaxPane]
    /\ PickFits(pick) /\ PickTrue(pick, inner, outer, active, running)
    /\ ring.pc = "panes" /\ ring.calm => ring.nested = inner /\ ring.terms = recent /\ ring.on = outer
    /\ ring.pc \in {"none", "panes", "done"}
    /\ TerminalsShowTheChosen

----------------------------------------------------------------------------
(* The first of the panes.                                                  *)
LEMMA FirstIsIn ==
  ASSUME NEW S \in SUBSET Panes, S # {}
  PROVE  First(S) \in S
<1>1. \A p \in Panes : p = <<p[1], p[2]>> /\ p[1] \in 1..MaxView /\ p[2] \in 1..MaxPane
  BY DEF Panes, Views
<1>2. PICK v \in {p[1] : p \in S} : \A w \in {p[1] : p \in S} : v <= w
  <2>1. {p[1] : p \in S} \in SUBSET (1..MaxView) /\ {p[1] : p \in S} # {}
    BY <1>1
  <2> QED  BY <2>1, LeastExists, TopologyAssumption
<1> DEFINE Own == {p \in S : p[1] = v}
<1>3. PICK k \in {p[2] : p \in Own} : \A l \in {p[2] : p \in Own} : k <= l
  <2>1. {p[2] : p \in Own} \in SUBSET (1..MaxPane) /\ {p[2] : p \in Own} # {}
    BY <1>1
  <2> QED  BY <2>1, LeastExists, TopologyAssumption
<1>4. PICK p \in S : p[1] = v /\ p[2] = k
  OBVIOUS
<1>5. ASSUME NEW q \in S PROVE p = q \/ Precedes(p, q)
  <2>1. v <= q[1] /\ (q[1] = v => k <= q[2])
    BY <1>2, <1>3
  <2>2. p \in Panes /\ q \in Panes
    OBVIOUS
  <2> QED  BY <1>1, <1>4, <2>1, <2>2 DEF Precedes
<1> QED  BY <1>4, <1>5 DEF First

----------------------------------------------------------------------------
LEMMA TopFacts ==
  /\ NoPick \in PickType /\ NoPick.pc = "none" /\ NoRing.pc = "none"
  /\ \A a \in Agents : a \notin Views
  /\ \A p \in Panes : Host(p) \in Views /\ p[2] \in 1..MaxPane /\ p = <<Host(p), p[2]>>
  /\ \A v \in Views, i \in 1..MaxPane : <<v, i>> \in Panes /\ Host(<<v, i>>) = v
  /\ None \notin Views /\ None \notin Agents /\ None \notin Panes /\ None \notin Terminals
<1>1. NoPick \in PickType /\ NoPick.pc = "none" /\ NoRing.pc = "none"
  BY DEF NoPick, NoRing, PickType
<1>2. \A p \in Panes : Host(p) \in Views /\ p[2] \in 1..MaxPane /\ p = <<Host(p), p[2]>>
  BY DEF Panes, Host
<1>3. \A v \in Views, i \in 1..MaxPane : <<v, i>> \in Panes /\ Host(<<v, i>>) = v
  BY DEF Panes, Host
<1>4. /\ \A a \in Agents : a \notin Views
      /\ None \notin Views
  BY TopologyAssumption DEF Views
<1> QED  BY <1>1, <1>2, <1>3, <1>4, TopologyAssumption, PanesAssumption

LEMMA InitTopInv == TopInit => TopInv
<1> SUFFICES ASSUME TopInit PROVE TopInv
  OBVIOUS
<1>1. TerminalsShowTheChosen
  BY TopFacts DEF TopInit, TerminalsShowTheChosen, PickLands, JumpReusesPane, RingIsTrue, Succeeded
<1>2. 1 \in 1..MaxPane
  BY TopologyAssumption
<1> QED  BY <1>1, <1>2, TopFacts DEF TopInit, TopInv, PickFits, PickTrue, Undisturbed

(* What goes on in the pane, when a pick or the ring is disturbed.          *)
LEMMA DisturbedInv ==
  ASSUME TopInv, Disturbs,
         running' \subseteq Agents, inner' \in [Panes -> Agents \cup {None}],
         outer' \in [Terminals -> Agents \cup Views \cup {None}], active' \in [Views -> 1..MaxPane]
  PROVE  TopInv'
<1>1. /\ pick' \in PickType /\ pick'.pc = pick.pc /\ pick'.kind = pick.kind /\ pick'.by = pick.by
      /\ pick'.pane = pick.pane /\ pick'.target = pick.target /\ pick'.clients = pick.clients
      /\ pick'.current = pick.current
      /\ ~Undisturbed(pick')
  <2>1. CASE pick.pc = "none"
    BY <2>1 DEF TopInv, PickFits, Disturbs, Undisturbed
  <2>2. CASE pick.pc # "none"
    <3>1. pick \in PickType /\ pick' = [pick EXCEPT !.calm = FALSE]
      BY <2>2 DEF TopInv, PickFits, Disturbs
    <3> QED  BY <2>2, <3>1 DEF PickType, Undisturbed
  <2> QED  BY <2>1, <2>2
<1>2. ring'.pc \in {"none", "panes", "done"} /\ (ring'.pc # "none" => ~ring'.calm)
  BY DEF TopInv, Disturbs
<1>3. TerminalsShowTheChosen'
  BY <1>1, <1>2 DEF TerminalsShowTheChosen, PickLands, JumpReusesPane, RingIsTrue, Succeeded, Undisturbed
<1> QED  BY <1>1, <1>2, <1>3 DEF TopInv, PickFits, PickTrue

LEMMA UserTopInv ==
  ASSUME TopInv,
         \/ \E t \in Terminals : \/ \E v \in Views : AttachView(t, v)
                                 \/ \E i \in 1..MaxPane : SelectByHand(t, i)
                                 \/ DetachTerminal(t)
         \/ \E p \in Panes : DetachNested(p)
         \/ \E a \in Agents : AgentQuits(a)
  PROVE  TopInv'
<1>1. /\ running \subseteq Agents /\ inner \in [Panes -> Agents \cup {None}]
      /\ outer \in [Terminals -> Agents \cup Views \cup {None}] /\ active \in [Views -> 1..MaxPane]
  BY DEF TopInv
<1>2. ASSUME NEW t \in Terminals, NEW v \in Views, AttachView(t, v) PROVE TopInv'
  BY <1>1, <1>2, DisturbedInv DEF AttachView
<1>3. ASSUME NEW t \in Terminals, NEW i \in 1..MaxPane, SelectByHand(t, i) PROVE TopInv'
  BY <1>1, <1>3, DisturbedInv DEF SelectByHand
<1>4. ASSUME NEW t \in Terminals, DetachTerminal(t) PROVE TopInv'
  BY <1>1, <1>4, DisturbedInv DEF DetachTerminal
<1>5. ASSUME NEW p \in Panes, DetachNested(p) PROVE TopInv'
  BY <1>1, <1>5, DisturbedInv DEF DetachNested
<1>6. ASSUME NEW a \in Agents, AgentQuits(a) PROVE TopInv'
  BY <1>1, <1>6, DisturbedInv DEF AgentQuits
<1> QED  BY <1>2, <1>3, <1>4, <1>5, <1>6

(* A step of the pick that nobody sees.                                     *)
LEMMA PickOnlyInv ==
  ASSUME TopInv, NEW x, pick' = x, UNCHANGED <<running, inner, outer, active, recent, ring>>,
         PickFits(x), PickTrue(x, inner, outer, active, running),
         x.pc = "done" /\ x.how # "failed" => x.how = "same" /\ ShownOn(x.by) = x.target
  PROVE  TopInv'
<1>1. TerminalsShowTheChosen'
  BY DEF TopInv, TerminalsShowTheChosen, PickLands, JumpReusesPane, RingIsTrue, Succeeded, ShownOn, Attached
<1> QED  BY <1>1 DEF TopInv

LEMMA LaunchTopInv ==
  ASSUME TopInv, NEW a \in Agents, NEW t \in Terminals \cup {None}, NEW kind \in {"attach", "jump", "dash"},
         LaunchPick(kind, t, a)
  PROVE  TopInv'
<1> DEFINE x == [NoPick EXCEPT !.pc = "check", !.kind = kind, !.by = t, !.target = a,
                  !.pane = IF t = None THEN None ELSE <<outer[t], active[outer[t]]>>]
<1>1. /\ pick' = x /\ ring.pc = "none" /\ (kind = "dash" <=> t = None) /\ (t # None => outer[t] \in Views)
      /\ UNCHANGED <<running, inner, outer, active>> /\ ring' = ring
  BY DEF LaunchPick, RingDisturbed
<1>2. t # None => t \in Terminals /\ outer[t] \in Views /\ <<outer[t], active[outer[t]]>> \in Panes
  BY <1>1, TopFacts DEF TopInv
<1>3. /\ x \in PickType /\ x.pc = "check" /\ x.kind = kind /\ x.by = t /\ x.target = a
      /\ x.pane = (IF t = None THEN None ELSE <<outer[t], active[outer[t]]>>)
  BY <1>2 DEF NoPick, PickType
<1> HIDE DEF x
<1>4. PickFits(x) /\ PickTrue(x, inner, outer, active, running)
  BY <1>1, <1>2, <1>3 DEF PickFits, PickTrue, PickKnows
<1>5. TerminalsShowTheChosen'
  BY <1>1, <1>3 DEF TerminalsShowTheChosen, PickLands, JumpReusesPane, RingIsTrue, Succeeded
<1> QED  BY <1>1, <1>4, <1>5 DEF TopInv

LEMMA EndsFailed ==
  ASSUME TopInv, pick.pc # "none", EndsPick("failed"), UNCHANGED <<running, inner, outer, active, recent, ring>>
  PROVE  TopInv'
<1> DEFINE x == [pick EXCEPT !.pc = "done", !.how = "failed"]
<1>1. pick' = x /\ PickFits(pick)
  BY DEF EndsPick, Picks, TopInv
<1>0. pick \in PickType
  BY <1>1 DEF PickFits
<1>2. /\ x \in PickType /\ x.pc = "done" /\ x.how = "failed" /\ x.kind = pick.kind /\ x.by = pick.by
      /\ x.pane = pick.pane /\ x.target = pick.target
  <2>1. x \in PickType
    BY <1>0 DEF PickType
  <2>2. "pc" \in DOMAIN pick /\ "how" \in DOMAIN pick
    BY <1>0 DEF PickType
  <2> QED  BY <2>1, <2>2
<1> HIDE DEF x
<1>3. PickFits(x) /\ PickTrue(x, inner, outer, active, running)
  BY <1>1, <1>2 DEF PickFits, PickTrue
<1> QED  BY <1>1, <1>2, <1>3, PickOnlyInv

LEMMA CheckSessionInv == TopInv /\ CheckSession => TopInv'
<1> SUFFICES ASSUME TopInv, CheckSession PROVE TopInv'
  OBVIOUS
<1> DEFINE x == [pick EXCEPT !.pc = IF pick.kind = "dash" THEN "clients" ELSE "current"]
<1>1. /\ pick.pc = "check" /\ pick \in PickType /\ PickFits(pick)
      /\ PickTrue(pick, inner, outer, active, running)
      /\ UNCHANGED <<running, inner, outer, active, recent, ring>>
  BY DEF CheckSession, TopInv, PickFits
<1>2. CASE pick.target \notin running
  BY <1>1, <1>2, EndsFailed DEF CheckSession
<1>3. CASE pick.target \in running
  <2>1. pick' = x
    BY <1>3 DEF CheckSession, Picks
  <2>2. /\ x \in PickType /\ x.pc = (IF pick.kind = "dash" THEN "clients" ELSE "current")
        /\ x.kind = pick.kind /\ x.by = pick.by /\ x.pane = pick.pane /\ x.target = pick.target
        /\ x.calm = pick.calm
    BY <1>1 DEF PickType
  <2> HIDE DEF x
  <2>3. PickFits(x)
    BY <1>1, <2>2 DEF PickFits
  <2>4. PickTrue(x, inner, outer, active, running)
    BY <1>1, <1>3, <2>2 DEF PickTrue, PickKnows, Undisturbed
  <2> QED  BY <1>1, <2>1, <2>2, <2>3, <2>4, PickOnlyInv
<1> QED  BY <1>2, <1>3

LEMMA ReadCurrentInv == TopInv /\ ReadCurrent => TopInv'
<1> SUFFICES ASSUME TopInv, ReadCurrent PROVE TopInv'
  OBVIOUS
<1>1. /\ pick.pc = "current" /\ pick \in PickType /\ PickFits(pick)
      /\ PickTrue(pick, inner, outer, active, running) /\ pick.kind # "dash"
      /\ pick.by \in Terminals /\ pick.target \in Agents
      /\ UNCHANGED <<running, inner, outer, active, recent, ring>>
  BY DEF ReadCurrent, TopInv, PickFits
<1>2. CASE outer[pick.by] = pick.target
  <2> DEFINE x == [pick EXCEPT !.pc = "done", !.how = "same"]
  <2>1. pick' = x
    BY <1>2 DEF ReadCurrent, EndsPick, Picks
  <2>2. /\ x \in PickType /\ x.pc = "done" /\ x.how = "same"
        /\ x.kind = pick.kind /\ x.by = pick.by /\ x.pane = pick.pane /\ x.target = pick.target
    BY <1>1 DEF PickType
  <2> HIDE DEF x
  <2>3. PickFits(x) /\ PickTrue(x, inner, outer, active, running)
    BY <1>1, <2>2 DEF PickFits, PickTrue
  <2>4. ShownOn(x.by) = x.target
    BY <1>1, <1>2, <2>2, TopFacts DEF ShownOn
  <2> QED  BY <1>1, <2>1, <2>2, <2>3, <2>4, PickOnlyInv
<1>3. CASE outer[pick.by] # pick.target
  <2> DEFINE x == [pick EXCEPT !.current = outer[pick.by],
                     !.pc = IF pick.kind = "jump" THEN "clients" ELSE "respawn"]
  <2>1. pick' = x
    BY <1>3 DEF ReadCurrent, Picks
  <2>5. outer[pick.by] \in Agents \cup Views \cup {None}
    BY <1>1 DEF TopInv
  <2>2. /\ x \in PickType /\ x.pc = (IF pick.kind = "jump" THEN "clients" ELSE "respawn")
        /\ x.kind = pick.kind /\ x.by = pick.by /\ x.pane = pick.pane /\ x.target = pick.target
        /\ x.calm = pick.calm /\ x.current = outer[pick.by]
    BY <1>1, <2>5 DEF PickType
  <2> HIDE DEF x
  <2>3. PickFits(x)
    BY <1>1, <2>2 DEF PickFits
  <2>4. PickTrue(x, inner, outer, active, running)
    BY <1>1, <2>2 DEF PickTrue, PickKnows, Undisturbed
  <2> QED  BY <1>1, <2>1, <2>2, <2>3, <2>4, PickOnlyInv
<1> QED  BY <1>2, <1>3

LEMMA ReadClientsInv == TopInv /\ ReadClients => TopInv'
<1> SUFFICES ASSUME TopInv, ReadClients PROVE TopInv'
  OBVIOUS
<1> DEFINE x == [pick EXCEPT !.pc = "panes", !.clients = inner]
<1>1. /\ pick.pc = "clients" /\ pick \in PickType /\ PickFits(pick)
      /\ PickTrue(pick, inner, outer, active, running) /\ inner \in [Panes -> Agents \cup {None}]
      /\ UNCHANGED <<running, inner, outer, active, recent, ring>>
      /\ pick' = x
  BY DEF ReadClients, TopInv, PickFits, Picks
<1>2. /\ x \in PickType /\ x.pc = "panes" /\ x.clients = inner /\ x.current = pick.current
      /\ x.kind = pick.kind /\ x.by = pick.by /\ x.pane = pick.pane /\ x.target = pick.target
      /\ x.calm = pick.calm
  BY <1>1 DEF PickType
<1> HIDE DEF x
<1>3. PickFits(x)
  BY <1>1, <1>2 DEF PickFits
<1>4. PickTrue(x, inner, outer, active, running)
  BY <1>1, <1>2 DEF PickTrue, PickKnows, Undisturbed
<1> QED  BY <1>1, <1>2, <1>3, <1>4, PickOnlyInv

LEMMA ReadPanesInv == TopInv /\ ReadPanes => TopInv'
<1> SUFFICES ASSUME TopInv, ReadPanes PROVE TopInv'
  OBVIOUS
<1> DEFINE found == AttachmentJoin(pick.clients, pick.target)
           own == {p \in found : Host(p) = pick.current}
           pane == PaneForSession(found, pick.current)
           x == [pick EXCEPT !.pc = "select", !.pane = First(found), !.clients = <<>>]
           y == [pick EXCEPT !.pc = "select", !.pane = pane, !.clients = <<>>]
           z == [pick EXCEPT !.pc = "respawn", !.clients = <<>>]
<1>1. /\ pick.pc = "panes" /\ pick \in PickType /\ PickFits(pick)
      /\ PickTrue(pick, inner, outer, active, running) /\ inner \in [Panes -> Agents \cup {None}]
      /\ UNCHANGED <<running, inner, outer, active, recent, ring>>
      /\ pick.target \in Agents
  BY DEF ReadPanes, TopInv, PickFits
<1>2. found \in SUBSET Panes /\ own \in SUBSET Panes /\ own \subseteq found
  BY DEF AttachmentJoin
<1>3. \A p \in found : pick.clients[p] = pick.target
  BY DEF AttachmentJoin
<1>4. \A p \in Panes : pick.clients[p] = pick.target => p \in found
  BY <1>1, TopFacts DEF AttachmentJoin
<1>5. pane = IF own # {} THEN First(own) ELSE IF found # {} THEN First(found) ELSE None
  BY DEF PaneForSession
<1>6. CASE pick.kind = "dash"
  <2>1. CASE found = {}
    BY <1>1, <1>6, <2>1, EndsFailed DEF ReadPanes
  <2>2. CASE found # {}
    <3>1. First(found) \in Panes
      BY <1>2, <2>2, FirstIsIn
    <3>2. pick' = x
      BY <1>6, <2>2 DEF ReadPanes, Picks
    <3>3. /\ x \in PickType /\ x.pc = "select" /\ x.pane = First(found)
          /\ x.kind = "dash" /\ x.target = pick.target
      BY <1>1, <1>6, <3>1 DEF PickType
    <3> HIDE DEF x
    <3>4. PickFits(x) /\ PickTrue(x, inner, outer, active, running)
      BY <1>1, <3>1, <3>3 DEF PickFits, PickTrue
    <3> QED  BY <1>1, <3>2, <3>3, <3>4, PickOnlyInv
  <2> QED  BY <2>1, <2>2
<1>7. CASE pick.kind # "dash" /\ HereAlready(pane)
  <2>1. pane \in found /\ Host(pane) = pick.current
    <3>1. CASE own # {}
      BY <1>2, <1>5, <3>1, FirstIsIn
    <3>2. CASE own = {} /\ found # {}
      BY <1>2, <1>5, <1>7, <3>2, FirstIsIn DEF HereAlready
    <3> QED  BY <1>5, <1>7, <3>1, <3>2 DEF HereAlready
  <2>2. pane \in Panes
    BY <1>2, <2>1
  <2>3. pick' = y
    BY <1>7 DEF ReadPanes, Picks
  <2>4. /\ y \in PickType /\ y.pc = "select" /\ y.pane = pane /\ y.current = pick.current
        /\ y.kind = pick.kind /\ y.target = pick.target /\ y.by = pick.by /\ y.calm = pick.calm
    BY <1>1, <2>2 DEF PickType
  <2> HIDE DEF y, pane, found
  <2>5. PickFits(y)
    BY <1>1, <2>2, <2>4 DEF PickFits
  <2>6. PickTrue(y, inner, outer, active, running)
    BY <1>1, <1>3, <2>1, <2>2, <2>4 DEF PickTrue, PickKnows, Undisturbed
  <2> QED  BY <1>1, <2>3, <2>4, <2>5, <2>6, PickOnlyInv
<1>8. CASE pick.kind # "dash" /\ ~HereAlready(pane)
  <2>1. \A p \in found : Host(p) # pick.current
    <3>1. CASE own # {}
      <4>1. pane \in own
        BY <1>2, <1>5, <3>1, FirstIsIn
      <4> QED  BY <1>2, <1>8, <4>1, TopFacts DEF HereAlready
    <3> QED  BY <3>1
  <2>2. pick' = z
    BY <1>8 DEF ReadPanes, Picks
  <2>3. /\ z \in PickType /\ z.pc = "respawn" /\ z.pane = pick.pane /\ z.current = pick.current
        /\ z.kind = pick.kind /\ z.target = pick.target /\ z.by = pick.by /\ z.calm = pick.calm
    BY <1>1 DEF PickType
  <2> HIDE DEF z, pane, found
  <2>4. PickFits(z)
    BY <1>1, <1>8, <2>3 DEF PickFits
  <2>5. PickTrue(z, inner, outer, active, running)
    BY <1>1, <1>4, <2>1, <2>3 DEF PickTrue, PickKnows, Undisturbed
  <2> QED  BY <1>1, <2>2, <2>3, <2>4, <2>5, PickOnlyInv
<1> QED  BY <1>6, <1>7, <1>8

LEMMA CheckShellInv == TopInv /\ CheckShell => TopInv'
<1> SUFFICES ASSUME TopInv, CheckShell PROVE TopInv'
  OBVIOUS
<1> DEFINE x == [pick EXCEPT !.pc = IF InShell THEN "exec" ELSE "switch"]
<1>1. /\ pick.pc = "respawn" /\ pick \in PickType /\ PickFits(pick)
      /\ PickTrue(pick, inner, outer, active, running)
      /\ UNCHANGED <<running, inner, outer, active, recent, ring>>
      /\ pick' = x /\ (InShell => pick.current \in Views)
  BY DEF CheckShell, TopInv, PickFits, Picks, InShell
<1>2. /\ x \in PickType /\ x.pc = (IF InShell THEN "exec" ELSE "switch") /\ x.current = pick.current
      /\ x.kind = pick.kind /\ x.by = pick.by /\ x.pane = pick.pane /\ x.target = pick.target
      /\ x.calm = pick.calm
  BY <1>1 DEF PickType
<1> HIDE DEF x
<1>3. PickFits(x)
  BY <1>1, <1>2 DEF PickFits
<1>4. PickTrue(x, inner, outer, active, running)
  BY <1>1, <1>2 DEF PickTrue, PickKnows, Undisturbed
<1> QED  BY <1>1, <1>2, <1>3, <1>4, PickOnlyInv

(* A pick that ends and changes what is seen.                               *)
LEMMA EndsSeen ==
  ASSUME TopInv, pick.pc # "none", NEW how \in {"select", "respawn", "switch"}, EndsPick(how), RingDisturbed,
         running' \subseteq Agents, inner' \in [Panes -> Agents \cup {None}],
         outer' \in [Terminals -> Agents \cup Views \cup {None}], active' \in [Views -> 1..MaxPane],
         pick.calm /\ pick.kind # "dash" => ShownOn(pick.by)' = pick.target,
         pick.calm /\ pick.kind = "jump" /\ how = "respawn" =>
           \A p \in Panes : Host(p) = pick.current /\ inner'[p] = pick.target => p = pick.pane
  PROVE  TopInv'
<1> DEFINE x == [pick EXCEPT !.pc = "done", !.how = how]
<1>1. pick' = x /\ PickFits(pick)
  BY DEF EndsPick, Picks, TopInv
<1>0. pick \in PickType
  BY <1>1 DEF PickFits
<1>2. /\ x \in PickType /\ x.pc = "done" /\ x.how = how /\ x.kind = pick.kind /\ x.by = pick.by
      /\ x.pane = pick.pane /\ x.target = pick.target /\ x.calm = pick.calm /\ x.current = pick.current
  <2>1. x \in PickType
    BY <1>0 DEF PickType
  <2>2. "pc" \in DOMAIN pick /\ "how" \in DOMAIN pick
    BY <1>0 DEF PickType
  <2> QED  BY <2>1, <2>2
<1> HIDE DEF x
<1>3. PickFits(x) /\ \A i, o, c, r : PickTrue(x, i, o, c, r)
  BY <1>1, <1>2 DEF PickFits, PickTrue
<1>4. ring'.pc \in {"none", "panes", "done"} /\ (ring'.pc # "none" => ~ring'.calm)
  BY DEF TopInv, RingDisturbed
<1>6. PickLands'
  <2>1. SUFFICES ASSUME pick'.calm, pick'.kind \in {"attach", "jump"} PROVE ShownOn(pick.by)' = pick.target
    BY <1>1, <1>2 DEF PickLands, Succeeded, ShownOn
  <2> QED  BY <1>1, <1>2, <2>1
<1>7. JumpReusesPane' /\ RingIsTrue'
  BY <1>1, <1>2, <1>4 DEF JumpReusesPane, RingIsTrue, Succeeded
<1>8. PickFits(pick)' /\ PickTrue(pick, inner, outer, active, running)'
  BY <1>1, <1>3
<1> QED  BY <1>4, <1>6, <1>7, <1>8 DEF TopInv, TerminalsShowTheChosen

LEMMA SelectPaneInv == TopInv /\ SelectPane => TopInv'
<1> SUFFICES ASSUME TopInv, SelectPane PROVE TopInv'
  OBVIOUS
<1>1. /\ pick.pc = "select" /\ PickFits(pick) /\ pick.pane \in Panes
      /\ PickTrue(pick, inner, outer, active, running)
      /\ running \subseteq Agents /\ inner \in [Panes -> Agents \cup {None}]
      /\ outer \in [Terminals -> Agents \cup Views \cup {None}] /\ active \in [Views -> 1..MaxPane]
      /\ UNCHANGED <<running, inner, outer>> /\ EndsPick("select") /\ RingDisturbed
      /\ active' = [active EXCEPT ![Host(pick.pane)] = pick.pane[2]]
  BY DEF SelectPane, TopInv, PickFits
<1>2. Host(pick.pane) \in Views /\ pick.pane[2] \in 1..MaxPane /\ pick.pane = <<Host(pick.pane), pick.pane[2]>>
  BY <1>1, TopFacts
<1>3. active' \in [Views -> 1..MaxPane] /\ active'[Host(pick.pane)] = pick.pane[2]
  BY <1>1, <1>2
<1>4. ASSUME pick.calm, pick.kind # "dash" PROVE ShownOn(pick.by)' = pick.target
  <2>1. /\ outer[pick.by] \in Views /\ Host(pick.pane) = outer[pick.by] /\ inner[pick.pane] = pick.target
        /\ pick.by \in Terminals
    BY <1>1, <1>4 DEF PickTrue, PickKnows, Undisturbed, PickFits
  <2>2. \A t : t = pick.by => ShownOn(t)' = pick.target
    BY <1>1, <1>2, <1>3, <2>1 DEF ShownOn
  <2>3. pick'.by = pick.by
    BY <1>1 DEF EndsPick, Picks, PickFits, PickType
  <2> QED  BY <2>2, <2>3
<1> QED  BY <1>1, <1>3, <1>4, EndsSeen

LEMMA RespawnPaneInv == TopInv /\ RespawnPane => TopInv'
<1> SUFFICES ASSUME TopInv, RespawnPane PROVE TopInv'
  OBVIOUS
<1>1. /\ pick.pc = "exec" /\ PickFits(pick) /\ pick.pane \in Panes /\ pick.target \in Agents
      /\ PickTrue(pick, inner, outer, active, running) /\ pick.kind # "dash" /\ pick.by \in Terminals
      /\ running \subseteq Agents /\ inner \in [Panes -> Agents \cup {None}]
      /\ outer \in [Terminals -> Agents \cup Views \cup {None}] /\ active \in [Views -> 1..MaxPane]
      /\ UNCHANGED <<running, outer, active>> /\ EndsPick("respawn") /\ RingDisturbed
      /\ inner' = [inner EXCEPT ![pick.pane] = IF pick.target \in running THEN pick.target ELSE None]
  BY DEF RespawnPane, TopInv, PickFits
<1>2. inner' \in [Panes -> Agents \cup {None}]
  BY <1>1
<1>3. ASSUME pick.calm PROVE PickKnows(pick, inner, outer, active, running)
  BY <1>1, <1>3 DEF PickTrue, Undisturbed
<1>4. ASSUME pick.calm PROVE ShownOn(pick.by)' = pick.target
  <2>1. /\ outer[pick.by] \in Views /\ pick.pane = <<outer[pick.by], active[outer[pick.by]]>>
        /\ inner'[pick.pane] = pick.target
    BY <1>1, <1>3, <1>4 DEF PickKnows
  <2>2. \A t : t = pick.by => ShownOn(t)' = pick.target
    BY <1>1, <2>1 DEF ShownOn
  <2>3. pick'.by = pick.by
    BY <1>1 DEF EndsPick, Picks, PickFits, PickType
  <2> QED  BY <2>2, <2>3
<1>5. ASSUME pick.calm, pick.kind = "jump", NEW p \in Panes, Host(p) = pick.current, inner'[p] = pick.target
      PROVE  p = pick.pane
  <2>1. inner[p] # pick.target
    BY <1>1, <1>3, <1>5 DEF PickKnows
  <2> QED  BY <1>1, <1>5, <2>1
<1> QED  BY <1>1, <1>2, <1>4, <1>5, EndsSeen

LEMMA SwitchClientInv == TopInv /\ SwitchClient => TopInv'
<1> SUFFICES ASSUME TopInv, SwitchClient PROVE TopInv'
  OBVIOUS
<1>1. /\ pick.pc = "switch" /\ PickFits(pick) /\ pick.target \in Agents /\ pick.by \in Terminals
      /\ running \subseteq Agents /\ inner \in [Panes -> Agents \cup {None}]
      /\ outer \in [Terminals -> Agents \cup Views \cup {None}] /\ active \in [Views -> 1..MaxPane]
      /\ UNCHANGED <<running, inner, active, recent>>
  BY DEF SwitchClient, TopInv, PickFits
<1>2. CASE pick.target \in running /\ outer[pick.by] # None
  <2>1. outer' = [outer EXCEPT ![pick.by] = pick.target] /\ EndsPick("switch") /\ RingDisturbed
    BY <1>2 DEF SwitchClient
  <2>2. outer' \in [Terminals -> Agents \cup Views \cup {None}] /\ outer'[pick.by] = pick.target
    BY <1>1, <2>1
  <2>3. pick'.by = pick.by
    BY <1>1, <2>1 DEF EndsPick, Picks, PickFits, PickType
  <2>4. \A t : t = pick.by => ShownOn(t)' = pick.target
    BY <1>1, <2>2, TopFacts DEF ShownOn
  <2>5. ShownOn(pick.by)' = pick.target
    BY <2>3, <2>4
  <2> QED  BY <1>1, <2>1, <2>2, <2>5, EndsSeen
<1>3. CASE ~(pick.target \in running /\ outer[pick.by] # None)
  <2>1. EndsPick("failed") /\ UNCHANGED <<outer, ring>>
    BY <1>3 DEF SwitchClient
  <2> QED  BY <1>1, <2>1, EndsFailed
<1> QED  BY <1>2, <1>3

LEMMA ClosePickInv == TopInv /\ ClosePick => TopInv'
<1> SUFFICES ASSUME TopInv, ClosePick PROVE TopInv'
  OBVIOUS
<1>1. pick' = NoPick /\ UNCHANGED <<running, inner, outer, active, recent, ring>>
  BY DEF ClosePick
<1>2. PickFits(NoPick) /\ PickTrue(NoPick, inner, outer, active, running)
  BY TopFacts DEF PickFits, PickTrue, Undisturbed
<1> QED  BY <1>1, <1>2, TopFacts, PickOnlyInv

----------------------------------------------------------------------------
(* The ring, which picks nothing.                                           *)
LEMMA RingOnlyInv ==
  ASSUME TopInv, UNCHANGED <<running, inner, outer, active, recent, pick>>,
         ring'.pc \in {"none", "panes", "done"},
         ring'.pc = "panes" /\ ring'.calm => ring'.nested = inner /\ ring'.terms = recent /\ ring'.on = outer,
         RingIsTrue'
  PROVE  TopInv'
<1>1. PickLands' /\ JumpReusesPane'
  BY DEF TopInv, TerminalsShowTheChosen, PickLands, JumpReusesPane, Succeeded, ShownOn
<1> QED  BY <1>1 DEF TopInv, TerminalsShowTheChosen

LEMMA RingInv == TopInv /\ (RingReadsClients \/ ComputeRing \/ RingSent) => TopInv'
<1> SUFFICES ASSUME TopInv, RingReadsClients \/ ComputeRing \/ RingSent PROVE TopInv'
  OBVIOUS
<1>1. CASE RingReadsClients
  <2> DEFINE x == [NoRing EXCEPT !.pc = "panes", !.nested = inner, !.terms = recent, !.on = outer]
  <2>1. ring' = x /\ UNCHANGED <<running, inner, outer, active, recent, pick>>
    BY <1>1 DEF RingReadsClients
  <2>2. x.pc = "panes" /\ x.nested = inner /\ x.terms = recent /\ x.on = outer
    BY DEF NoRing
  <2> HIDE DEF x
  <2> QED  BY <2>1, <2>2, RingOnlyInv DEF RingIsTrue
<1>2. CASE ComputeRing
  <2> DEFINE x == [NoRing EXCEPT !.pc = "done", !.is = FocusedSessionName, !.calm = ring.calm]
  <2>1. ring' = x /\ ring.pc = "panes" /\ UNCHANGED <<running, inner, outer, active, recent, pick>>
    BY <1>2 DEF ComputeRing
  <2>2. x.pc = "done" /\ x.is = FocusedSessionName /\ x.calm = ring.calm
    BY DEF NoRing
  <2> HIDE DEF x
  <2>3. ASSUME ring.calm
        PROVE  FocusedSessionName = LET last == LastUsed(outer, recent) IN
                                    IF Attached # {} /\ outer[last] \in Views THEN ShownOn(last) ELSE None
    <3>1. ring.nested = inner /\ ring.terms = recent /\ ring.on = outer
      BY <2>1, <2>3 DEF TopInv
    <3>2. Attached = {} <=> \A t \in Terminals : ring.on[t] = None
      BY <3>1 DEF Attached
    <3>3. FocusedHost = outer[LastUsed(outer, recent)]
      BY <3>1 DEF FocusedHost
    <3> QED  BY <3>1, <3>2, <3>3 DEF FocusedSessionName, ShownOn
  <2>4. RingIsTrue'
    BY <2>1, <2>2, <2>3 DEF RingIsTrue, ShownOn, Attached
  <2> QED  BY <2>1, <2>2, <2>4, RingOnlyInv
<1>3. CASE RingSent
  <2>1. ring' = NoRing /\ UNCHANGED <<running, inner, outer, active, recent, pick>>
    BY <1>3 DEF RingSent
  <2> QED  BY <2>1, TopFacts, RingOnlyInv DEF RingIsTrue
<1> QED  BY <1>1, <1>2, <1>3

----------------------------------------------------------------------------
LEMMA StepTopInv == TopInv /\ [TopNext]_topVars => TopInv'
<1> SUFFICES ASSUME TopInv, [TopNext]_topVars PROVE TopInv'
  OBVIOUS
<1>1. CASE UNCHANGED topVars
  <2>1. UNCHANGED <<running, inner, outer, active, recent, ring, pick>>
    BY <1>1 DEF topVars
  <2>2. TerminalsShowTheChosen'
    BY <2>1 DEF TopInv, TerminalsShowTheChosen, PickLands, JumpReusesPane, RingIsTrue, Succeeded, ShownOn, Attached
  <2> QED  BY <2>1, <2>2 DEF TopInv
<1>2. ASSUME NEW a \in Agents, NEW t \in Terminals, NEW kind \in {"attach", "jump"}, LaunchPick(kind, t, a)
      PROVE  TopInv'
  BY <1>2, LaunchTopInv
<1>3. ASSUME NEW a \in Agents, LaunchPick("dash", None, a) PROVE TopInv'
  BY <1>3, LaunchTopInv
<1>4. CASE PickStep
  BY <1>4, CheckSessionInv, ReadCurrentInv, ReadClientsInv, ReadPanesInv, SelectPaneInv, CheckShellInv,
     RespawnPaneInv, SwitchClientInv, ClosePickInv DEF PickStep
<1>5. CASE RingReadsClients \/ ComputeRing \/ RingSent
  BY <1>5, RingInv
<1> QED  BY <1>1, <1>2, <1>3, <1>4, <1>5, UserTopInv DEF TopNext

----------------------------------------------------------------------------
(* The order of the terminals, and who runs in what is shown.               *)

OrderOn(S, order) ==
    /\ order \subseteq S \X S
    /\ \A t, u \in S : t # u => (<<t, u>> \in order <=> <<u, t>> \notin order)
    /\ \A t, u, w \in S : <<t, u>> \in order /\ <<u, w>> \in order => <<t, w>> \in order /\ t # w

TopShows ==
    /\ inner \in [Panes -> running \cup {None}]
    /\ outer \in [Terminals -> running \cup Views \cup {None}]
    /\ OrderOn(Attached, recent)
    /\ DOMAIN ring = {"pc", "nested", "terms", "on", "is", "calm"} /\ ring.is \in Agents \cup {None}
    /\ ring.pc = "panes" => ring.nested \in [Panes -> Agents \cup {None}]

LEMMA OrderWithout ==
  ASSUME OrderOn(Attached, recent), NEW left
  PROVE  OrderOn(Attached \ left, Without(left))
<1>1. \A t, u : <<t, u>> \in Without(left) <=> <<t, u>> \in recent /\ t \notin left /\ u \notin left
  BY DEF Without
<1>2. Without(left) \subseteq (Attached \ left) \X (Attached \ left)
  BY DEF OrderOn, Without
<1> QED  BY <1>1, <1>2 DEF OrderOn

LEMMA OrderFront ==
  ASSUME NEW S, NEW order, OrderOn(S, order), NEW t, t \notin S
  PROVE  OrderOn(S \cup {t}, order \cup ({t} \X S))
<1> DEFINE more == order \cup ({t} \X S)
<1>1. \A u, w : <<u, w>> \in more <=> <<u, w>> \in order \/ (u = t /\ w \in S)
  OBVIOUS
<1>2. more \subseteq (S \cup {t}) \X (S \cup {t})
  BY DEF OrderOn
<1>3. \A u, w : <<u, w>> \in order => u \in S /\ w \in S
  BY DEF OrderOn
<1> HIDE DEF more
<1> QED  BY <1>1, <1>2, <1>3 DEF OrderOn

\* A terminal that is used, attached or not, comes to the front.
LEMMA OrderUsed ==
  ASSUME OrderOn(Attached, recent), NEW t \in Terminals
  PROVE  OrderOn(Attached \cup {t}, UsedNow(t))
<1>1. OrderOn(Attached \ {t}, Without({t}))
  BY OrderWithout
<1>2. OrderOn((Attached \ {t}) \cup {t}, Without({t}) \cup ({t} \X (Attached \ {t})))
  BY <1>1, OrderFront
<1>3. (Attached \ {t}) \cup {t} = Attached \cup {t}
  OBVIOUS
<1> QED  BY <1>2, <1>3 DEF UsedNow

\* A ring that is disturbed has what it had.
LEMMA RingKept ==
  ASSUME TopShows, ring' = ring \/ ring' = [ring EXCEPT !.calm = FALSE]
  PROVE  /\ DOMAIN ring' = {"pc", "nested", "terms", "on", "is", "calm"} /\ ring'.is \in Agents \cup {None}
         /\ ring'.pc = "panes" => ring'.nested \in [Panes -> Agents \cup {None}]
<1>1. ring'.is = ring.is /\ ring'.pc = ring.pc /\ ring'.nested = ring.nested /\ DOMAIN ring' = DOMAIN ring
  BY DEF TopShows
<1> QED  BY <1>1 DEF TopShows

LEMMA InitTopShows == TopInit => TopShows
<1> SUFFICES ASSUME TopInit PROVE TopShows
  OBVIOUS
<1>1. Attached = {} /\ OrderOn({}, {})
  BY DEF TopInit, Attached, OrderOn
<1>2. ring.is = None /\ ring.pc = "none" /\ DOMAIN ring = {"pc", "nested", "terms", "on", "is", "calm"}
  BY DEF TopInit, NoRing
<1> QED  BY <1>1, <1>2 DEF TopInit, TopShows

LEMMA StepTopShows == TopInv /\ TopShows /\ [TopNext]_topVars => TopShows'
<1> SUFFICES ASSUME TopInv, TopShows, [TopNext]_topVars PROVE TopShows'
  OBVIOUS
<1>0. /\ running \subseteq Agents /\ inner \in [Panes -> running \cup {None}]
      /\ outer \in [Terminals -> running \cup Views \cup {None}]
      /\ OrderOn(Attached, recent) /\ ring.is \in Agents \cup {None}
  BY DEF TopInv, TopShows
<1>1. CASE UNCHANGED topVars
  BY <1>1 DEF topVars, TopShows, Attached
<1>2. ASSUME NEW t \in Terminals, NEW v \in Views, AttachView(t, v) PROVE TopShows'
  <2>1. /\ outer' = [outer EXCEPT ![t] = v] /\ recent' = UsedNow(t)
        /\ ring' = ring \/ ring' = [ring EXCEPT !.calm = FALSE]
        /\ UNCHANGED <<running, inner>>
    BY <1>2 DEF AttachView, Disturbs
  <2>2. Attached' = Attached \cup {t}
    BY <1>0, <2>1, TopFacts DEF Attached
  <2> QED  BY <1>0, <2>1, <2>2, OrderUsed, RingKept DEF TopShows
<1>3. ASSUME NEW t \in Terminals, NEW i \in 1..MaxPane, SelectByHand(t, i) PROVE TopShows'
  <2>1. /\ outer[t] \in Views /\ recent' = UsedNow(t) /\ UNCHANGED <<running, inner, outer>>
        /\ ring' = ring \/ ring' = [ring EXCEPT !.calm = FALSE]
    BY <1>3 DEF SelectByHand, Disturbs
  <2>2. Attached' = Attached \cup {t}
    BY <2>1, TopFacts DEF Attached
  <2> QED  BY <1>0, <2>1, <2>2, OrderUsed, RingKept DEF TopShows
<1>4. ASSUME NEW t \in Terminals, DetachTerminal(t) PROVE TopShows'
  <2>1. /\ outer' = [outer EXCEPT ![t] = None] /\ recent' = Without({t})
        /\ ring' = ring \/ ring' = [ring EXCEPT !.calm = FALSE]
        /\ UNCHANGED <<running, inner>>
    BY <1>4 DEF DetachTerminal, Disturbs
  <2>2. Attached' = Attached \ {t}
    BY <1>0, <2>1 DEF Attached
  <2>3. OrderOn(Attached \ {t}, Without({t}))
    BY <1>0, OrderWithout
  <2> QED  BY <1>0, <2>1, <2>2, <2>3, RingKept DEF TopShows
<1>5. ASSUME NEW p \in Panes, DetachNested(p) PROVE TopShows'
  <2>1. /\ inner' = [inner EXCEPT ![p] = None] /\ UNCHANGED <<running, outer, recent>>
        /\ ring' = ring \/ ring' = [ring EXCEPT !.calm = FALSE]
    BY <1>5 DEF DetachNested, Disturbs
  <2> QED  BY <1>0, <2>1, RingKept DEF TopShows, Attached
<1>6. ASSUME NEW a \in Agents, AgentQuits(a) PROVE TopShows'
  <2> DEFINE Left == {t \in Terminals : outer[t] = a}
  <2>1. /\ running' = running \ {a}
        /\ inner' = [p \in Panes |-> IF inner[p] = a THEN None ELSE inner[p]]
        /\ outer' = [t \in Terminals |-> IF outer[t] = a THEN None ELSE outer[t]]
        /\ recent' = Without(Left)
        /\ ring' = ring \/ ring' = [ring EXCEPT !.calm = FALSE]
    BY <1>6 DEF AgentQuits, Disturbs
  <2>2. Attached' = Attached \ Left
    BY <1>0, <2>1 DEF Attached
  <2>3. OrderOn(Attached \ Left, Without(Left))
    BY <1>0, OrderWithout
  <2>4. /\ inner' \in [Panes -> running' \cup {None}]
        /\ outer' \in [Terminals -> running' \cup Views \cup {None}]
    BY <1>0, <2>1, TopFacts
  <2> QED  BY <2>1, <2>2, <2>3, <2>4, RingKept DEF TopShows
<1>7. ASSUME NEW a \in Agents, NEW t \in Terminals, NEW kind \in {"attach", "jump"}, LaunchPick(kind, t, a)
      PROVE  TopShows'
  <2>1. t # None /\ outer[t] \in Views
    BY <1>7, TopFacts DEF LaunchPick
  <2>2. /\ recent' = UsedNow(t) /\ UNCHANGED <<running, inner, outer>>
        /\ ring' = ring \/ ring' = [ring EXCEPT !.calm = FALSE]
    BY <1>7, <2>1 DEF LaunchPick, RingDisturbed
  <2>3. Attached' = Attached \cup {t}
    BY <2>1, <2>2, TopFacts DEF Attached
  <2> QED  BY <1>0, <2>2, <2>3, OrderUsed, RingKept DEF TopShows
<1>8. ASSUME NEW a \in Agents, LaunchPick("dash", None, a) PROVE TopShows'
  <2>1. /\ UNCHANGED <<running, inner, outer, recent>>
        /\ ring' = ring \/ ring' = [ring EXCEPT !.calm = FALSE]
    BY <1>8 DEF LaunchPick, RingDisturbed
  <2> QED  BY <1>0, <2>1, RingKept DEF TopShows, Attached
<1>9. CASE CheckSession \/ ReadCurrent \/ ReadClients \/ ReadPanes \/ CheckShell \/ ClosePick \/ SelectPane
  <2>1. /\ UNCHANGED <<running, inner, outer, recent>>
        /\ ring' = ring \/ ring' = [ring EXCEPT !.calm = FALSE]
    BY <1>9 DEF CheckSession, ReadCurrent, ReadClients, ReadPanes, CheckShell, ClosePick, SelectPane, RingDisturbed
  <2> QED  BY <1>0, <2>1, RingKept DEF TopShows, Attached
<1>10. CASE RespawnPane
  <2>1. /\ inner' = [inner EXCEPT ![pick.pane] = IF pick.target \in running THEN pick.target ELSE None]
        /\ UNCHANGED <<running, outer, recent>>
        /\ ring' = ring \/ ring' = [ring EXCEPT !.calm = FALSE]
    BY <1>10 DEF RespawnPane, RingDisturbed
  <2> QED  BY <1>0, <2>1, RingKept DEF TopShows, Attached
<1>11. CASE SwitchClient
  <2>1. /\ UNCHANGED <<running, inner, recent>>
        /\ ring' = ring \/ ring' = [ring EXCEPT !.calm = FALSE]
        /\ \/ /\ pick.target \in running /\ outer[pick.by] # None
              /\ outer' = [outer EXCEPT ![pick.by] = pick.target]
           \/ outer' = outer
    BY <1>11 DEF SwitchClient, RingDisturbed
  <2>2. outer' \in [Terminals -> running' \cup Views \cup {None}] /\ Attached' = Attached
    BY <1>0, <2>1, TopFacts DEF Attached
  <2> QED  BY <1>0, <2>1, <2>2, RingKept DEF TopShows
<1>12. CASE RingReadsClients
  <2>1. /\ UNCHANGED <<running, inner, outer, recent>>
        /\ ring' = [NoRing EXCEPT !.pc = "panes", !.nested = inner, !.terms = recent, !.on = outer]
    BY <1>12 DEF RingReadsClients
  <2>2. /\ ring'.is = None /\ ring'.nested = inner
        /\ DOMAIN ring' = {"pc", "nested", "terms", "on", "is", "calm"}
    BY <2>1 DEF NoRing
  <2> QED  BY <1>0, <2>1, <2>2 DEF TopShows, Attached
<1>13. CASE ComputeRing
  <2>1. /\ UNCHANGED <<running, inner, outer, recent>> /\ ring.pc = "panes"
        /\ ring' = [NoRing EXCEPT !.pc = "done", !.is = FocusedSessionName, !.calm = ring.calm]
    BY <1>13 DEF ComputeRing
  <2>2. /\ ring'.is = FocusedSessionName /\ ring'.pc = "done"
        /\ DOMAIN ring' = {"pc", "nested", "terms", "on", "is", "calm"}
    BY <2>1 DEF NoRing
  <2>3. FocusedSessionName \in Agents \cup {None}
    <3>1. ring.nested \in [Panes -> Agents \cup {None}] /\ active \in [Views -> 1..MaxPane]
      BY <2>1 DEF TopShows, TopInv
    <3>2. FocusedHost \in Views => ring.nested[<<FocusedHost, active[FocusedHost]>>] \in Agents \cup {None}
      BY <3>1, TopFacts
    <3> QED  BY <3>2 DEF FocusedSessionName
  <2> QED  BY <1>0, <2>1, <2>2, <2>3 DEF TopShows, Attached
<1>14. CASE RingSent
  <2>1. /\ UNCHANGED <<running, inner, outer, recent>> /\ ring'.is = None /\ ring'.pc = "none"
        /\ DOMAIN ring' = {"pc", "nested", "terms", "on", "is", "calm"}
    BY <1>14 DEF RingSent, NoRing
  <2> QED  BY <1>0, <2>1 DEF TopShows, Attached
<1> QED  BY <1>1, <1>2, <1>3, <1>4, <1>5, <1>6, <1>7, <1>8, <1>9, <1>10, <1>11, <1>12, <1>13, <1>14
         DEF TopNext, PickStep

LEMMA TopTyping == TopInv /\ TopShows => TopTypeOK
<1> SUFFICES ASSUME TopInv, TopShows PROVE TopTypeOK
  OBVIOUS
<1>1. pick.pc \in {"none", "check", "current", "clients", "panes", "select", "respawn", "exec", "switch", "done"}
      /\ pick.how \in {"none", "same", "select", "respawn", "switch", "failed"}
  BY DEF TopInv, PickFits, PickType
<1> QED  BY <1>1 DEF TopInv, TopShows, TopTypeOK, OrderOn

\* For any number of views, panes, agents and terminals: an attach or a jump that nobody
\* disturbs leaves its session on the terminal it was made at, a jump takes the pane of
\* that view that shows it already, and the dashboard rings what is seen (tmux.py, cli.py).
THEOREM TerminalsAlwaysShow == TopSpec => []TerminalsShowTheChosen
<1>1. TopInv => TerminalsShowTheChosen
  BY DEF TopInv
<1> QED  BY <1>1, InitTopInv, StepTopInv, PTL DEF TopSpec

----------------------------------------------------------------------------
(***************************************************************************)
(* The instance.  A step is of one component and leaves the others alone,   *)
(* so that each keeps its own invariant, and with it its types.             *)
(***************************************************************************)

LEMMA WorkspaceInvTypes ==
  /\ WorkInv => WorkTypeOK
  /\ SyncInv => SyncTypeOK
  /\ CaptureInv => CaptureTypeOK
<1>1. WorkInv => WorkTypeOK
  BY Zenon DEF WorkInv, WorkTypeOK, SpawnerType, WorkerType
<1>2. ASSUME SyncInv PROVE SyncTypeOK
  <2>1. \A h \in Homes : sync[h].got # Absent <=> sync[h].pc \in {"verdict", "put", "write"}
    BY <1>2 DEF SyncInv, SyncSound, Carries
  <2> QED  BY <1>2, <2>1 DEF SyncInv, SyncType, SyncTypeOK
<1>3. ASSUME CaptureInv PROVE CaptureTypeOK
  <2>1. CaptureType
    BY <1>3 DEF CaptureInv, WindowsInv
  <2>2. ASSUME NEW s \in Sessions, rec[s] # None, NEW i \in DOMAIN rec[s] PROVE rec[s][i] \in Refs
    <3>1. rec[s] \in Seq(Refs)
      BY <2>1, <2>2 DEF CaptureType, Copies
    <3> QED  BY <2>2, <3>1
  <2>3. ASSUME NEW s \in Sessions
        PROVE  /\ agent[s].chat \in Chats \cup {None}
               /\ hook[s].to \in Sessions \cup {None} /\ agent[s].strayed \in BOOLEAN
               /\ hook[s].pc \in {"idle", "load", "scan", "fill", "state load", "state save"}
    <3>1. agent[s] \in AgentType /\ hook[s] \in HookType
      BY <2>1 DEF CaptureType
    <3>2. agent[s].strayed \in BOOLEAN
      BY <3>1, Zenon DEF AgentType
    <3> QED  BY <3>1, <3>2 DEF AgentType, HookType
  <2>4. ASSUME NEW o \in Ops
        PROVE  /\ op[o].pc \in {"idle", "launch", "record", "load", "save", "over"}
               /\ op[o].kind \in Kinds /\ op[o].hasty \in BOOLEAN
    <3>1. op[o] \in OpType
      BY <2>1 DEF CaptureType
    <3>2. op[o].hasty \in BOOLEAN
      BY <3>1, Zenon DEF OpType
    <3> QED  BY <3>1, <3>2 DEF OpType
  <2> QED  BY <2>2, <2>3, <2>4, Zenon DEF CaptureTypeOK
<1> QED  BY <1>1, <1>2, <1>3

\* Under what the components ask of their surroundings, for any number of workers,
\* homes, sessions and terminals: every variable keeps its type, names and suffixes their
\* bounds, clocks and positions theirs, a sync carries something exactly between reading a
\* key and having written it, a pane shows a session that runs, and the terminals that are
\* attached stay in one order, of their last use.
THEOREM WorkspaceTyping ==
  ASSUME QuietUsers, ResumesVacant, ~LateFailures, Calm, ~Overlaps
  PROVE  Spec => []TypeOK
<1> DEFINE Inv == WorkInv /\ SyncInv /\ CaptureInv /\ TopInv /\ TopShows
<1>1. Init => Inv
  BY InitWorkInv, InitSyncInv, CaptureStarts, InitTopInv, InitTopShows DEF Init
<1>2. [Next]_vars => [WorkNext]_wVars /\ [SyncNext]_sVars /\ [CaptureNext]_cVars /\ [TopNext]_topVars
  BY DEF Next, vars
<1>3. Inv /\ [Next]_vars => Inv'
  BY <1>2, WorkNextKeepsInv, SyncNextKeepsInv, CaptureHolds, StepTopInv, StepTopShows
<1>4. Inv => TypeOK
  BY WorkspaceInvTypes, TopTyping DEF TypeOK
<1> QED  BY <1>1, <1>3, <1>4, PTL DEF Spec
=============================================================================
