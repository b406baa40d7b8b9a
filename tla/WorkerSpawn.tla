---------------------------- MODULE WorkerSpawn ----------------------------
(***************************************************************************)
(* Agents and their checkouts (lib/tx/worktree.py, spawn_worker and _spawn  *)
(* of lib/tx/service.py, `tx resume` of lib/tx/cli.py) in one repository:   *)
(* a worker is started in a git worktree of its own, or continued in the    *)
(* one its record names; a spawn that fails takes its worktree back.        *)
(* Suffix n stands for the name "<base>-n" and for the worktree of that     *)
(* name.                                                                    *)
(***************************************************************************)
EXTENDS Naturals, FiniteSets

CONSTANTS
    Workers,        \* the sessions; each is spawned or resumed at most once
    MaxSuffix,      \* bound: the names next_name tries (99 in the code)
    QuietUsers,     \* a resume or a rename runs while no other spawn does
    ResumesVacant,  \* users resume no session whose checkout is in use
    LateFailures    \* a spawn may fail or die between the launch and the save

ASSUME WorkerAssumption ==
    /\ MaxSuffix \in Nat \ {0}
    /\ {QuietUsers, ResumesVacant, LateFailures} \subseteq BOOLEAN

NameSuffixes == 1..MaxSuffix

VARIABLES
    trees,    \* the worktrees git has registered, and their directories
    views,    \* the names of live views
    worker,   \* the sessions: name, worktree, tmux session, record
    spawner   \* the process that spawns each worker

wVars == <<trees, views, worker, spawner>>

NoWorker == [name |-> 0, tree |-> 0, tmux |-> FALSE, rec |-> "none"]
NoSpawner == [pc |-> "idle", taken |-> {}, name |-> 0, new |-> TRUE]

WorkTypeOK ==
    /\ trees \subseteq NameSuffixes /\ views \subseteq NameSuffixes
    /\ worker \in [Workers -> [name: 0..MaxSuffix, tree: 0..MaxSuffix, tmux: BOOLEAN,
                               rec: {"none", "live", "ended"}]]
    /\ spawner \in [Workers -> [pc: {"idle", "names", "create", "prepare", "name free",
                                     "launch", "save", "clean up", "over", "dead"},
                                taken: SUBSET NameSuffixes, name: 0..MaxSuffix, new: BOOLEAN]]

WorkInit ==
    /\ trees = {} /\ views \in {{}, {1}}
    /\ worker = [w \in Workers |-> NoWorker]
    /\ spawner = [w \in Workers |-> NoSpawner]

LiveNames == {worker[w].name : w \in {v \in Workers : worker[v].rec = "live"}}

In(w, pc) == spawner[w].pc = pc
Moves(w, pc) == spawner' = [spawner EXCEPT ![w].pc = pc]
Over(w, pc) == spawner' = [spawner EXCEPT ![w] = [NoSpawner EXCEPT !.pc = pc]]

\* spawn_worker removes what it created when a later step raises; the worktree
\* of a resumed session it leaves alone.
CleansTree(w) == spawner[w].new

\* A step raises: the spawn ends, by way of the clean-up if there is one.
Raises(w) == IF CleansTree(w) THEN Moves(w, "clean up") ELSE Over(w, "over")

Spawning(w) == spawner[w].pc \notin {"idle", "over", "dead"}
NoSpawn == \A w \in Workers : ~Spawning(w)

----------------------------------------------------------------------------
(* next_name and create.                                                    *)

\* spawn_worker reads the live names once.
ReadNames(w) ==
    /\ In(w, "idle")
    /\ QuietUsers => \A v \in Workers : Spawning(v) => spawner[v].new
    /\ spawner' = [spawner EXCEPT ![w].pc = "names", ![w].taken = LiveNames]
    /\ UNCHANGED <<trees, views, worker>>

Free(n, taken) == n \notin taken /\ n \notin trees

LeastOf(names) == CHOOSE n \in names : \A k \in names : n <= k

NextName(w) ==
    /\ In(w, "names")
    /\ LET free == {n \in NameSuffixes : Free(n, spawner[w].taken)}
       IN  IF free = {} THEN Over(w, "over")
           ELSE spawner' = [spawner EXCEPT ![w] = [@ EXCEPT !.pc = "create", !.taken = {},
                                                          !.name = LeastOf(free)]]
    /\ UNCHANGED <<trees, views, worker>>

\* A slip: the worktree is made inside the try whose clean-up removes it.
CreateTreeInTry(w) ==
    /\ In(w, "create")
    /\ \/ /\ spawner[w].name \notin trees
          /\ trees' = trees \cup {spawner[w].name} /\ Moves(w, "prepare")
       \/ Raises(w) /\ UNCHANGED trees
    /\ UNCHANGED <<views, worker>>

\* git worktree add: atomic, and refused when the path is there already.
CreateTree(w) ==
    /\ In(w, "create")
    /\ \/ /\ spawner[w].name \notin trees
          /\ trees' = trees \cup {spawner[w].name} /\ Moves(w, "prepare")
       \/ Over(w, "over") /\ UNCHANGED trees
    /\ UNCHANGED <<views, worker>>

\* `tx resume` of an ended session under its own name: its worktree is used
\* again if it is still there.
ResumeWorker(w, old) ==
    /\ In(w, "idle") /\ worker[old].rec = "ended" /\ worker[old].tree \in trees
    /\ QuietUsers => NoSpawn
    /\ ResumesVacant => \A v \in Workers : worker[v].tmux => worker[v].tree # worker[old].tree
    /\ spawner' = [spawner EXCEPT ![w] = [NoSpawner EXCEPT
                     !.pc = "prepare", !.name = worker[old].name, !.new = FALSE]]
    /\ worker' = [worker EXCEPT ![w].tree = worker[old].tree]
    /\ UNCHANGED <<trees, views>>

----------------------------------------------------------------------------
(* _prepare_worker_access and _spawn.                                       *)

Tree(w) == IF spawner[w].new THEN spawner[w].name ELSE worker[w].tree

\* Hooks that are not installed, a sandbox that cannot be set up: it raises.
Prepare(w) ==
    /\ In(w, "prepare")
    /\ Moves(w, "name free") \/ Raises(w)
    /\ UNCHANGED <<trees, views, worker>>

NameTaken(n) == n \in LiveNames \cup views

RequireNameFree(w) ==
    /\ In(w, "name free")
    /\ IF NameTaken(spawner[w].name) THEN Raises(w) ELSE Moves(w, "launch")
    /\ UNCHANGED <<trees, views, worker>>

LaunchWorker(w) ==
    /\ In(w, "launch")
    /\ \/ /\ Moves(w, "save")
          /\ worker' = [worker EXCEPT ![w] = [@ EXCEPT
                          !.name = spawner[w].name, !.tree = Tree(w), !.tmux = TRUE]]
       \/ Raises(w) /\ UNCHANGED worker
    /\ UNCHANGED <<trees, views>>

SaveWorker(w) ==
    /\ In(w, "save")
    /\ \/ /\ Over(w, "over")
          /\ worker' = [worker EXCEPT ![w].rec = "live"]
       \/ LateFailures /\ Raises(w) /\ UNCHANGED worker
    /\ UNCHANGED <<trees, views>>

\* git worktree remove --force; an error of it is swallowed.
CleanUp(w) ==
    /\ In(w, "clean up") /\ Over(w, "over")
    /\ trees' = trees \ {Tree(w)}
    /\ UNCHANGED <<views, worker>>

----------------------------------------------------------------------------
(* The sessions afterwards.                                                 *)

\* The agent ends, and a sweep stamps its record; one that was never saved is
\* only gone from tmux.
WorkerEnds(w) ==
    /\ worker[w].tmux
    /\ worker' = [worker EXCEPT ![w].tmux = FALSE,
                                ![w].rec = IF @ = "live" THEN "ended" ELSE @]
    /\ UNCHANGED <<trees, views, spawner>>

RenameWorker(w, n) ==
    /\ worker[w].rec = "live" /\ ~NameTaken(n) /\ (QuietUsers => NoSpawn)
    /\ worker' = [worker EXCEPT ![w].name = n]
    /\ UNCHANGED <<trees, views, spawner>>

\* The user removes the worktree of a session that has ended, if nobody uses it.
PruneTree(w) ==
    /\ worker[w].rec = "ended" /\ worker[w].tree \in trees
    /\ \A v \in Workers : worker[v].tmux \/ Spawning(v) =>
         worker[w].tree \notin {worker[v].tree, Tree(v)}
    /\ trees' = trees \ {worker[w].tree}
    /\ UNCHANGED <<views, worker, spawner>>

SpawnerDies(w) ==
    /\ Spawning(w)
    /\ In(w, "save") => LateFailures
    /\ spawner' = [spawner EXCEPT ![w].pc = "dead", ![w].taken = {}]
    /\ UNCHANGED <<trees, views, worker>>

WorkNext ==
    \E w \in Workers :
        \/ ReadNames(w) \/ NextName(w) \/ CreateTree(w) \/ Prepare(w)
        \/ RequireNameFree(w) \/ LaunchWorker(w) \/ SaveWorker(w) \/ CleanUp(w)
        \/ WorkerEnds(w) \/ PruneTree(w) \/ SpawnerDies(w)
        \/ \E v \in Workers : ResumeWorker(w, v)
        \/ \E n \in NameSuffixes : RenameWorker(w, n)

WorkSpec == WorkInit /\ [][WorkNext]_wVars

----------------------------------------------------------------------------
(* Properties.                                                              *)

\* Two live agents never work in one checkout, however spawns and resumes
\* interleave, fail and die (service.py:103-105: the placement invariant).
OneAgentPerCheckout ==
    \A v, w \in Workers : v # w /\ worker[v].tmux /\ worker[w].tmux =>
      worker[v].tree # worker[w].tree

\* The checkout of a running agent is never removed under it
\* (worktree.py:120-121: after a pre-launch failure, or the helper's exit).
CheckoutOutlivesAgent == \A w \in Workers : worker[w].tmux => worker[w].tree \in trees

\* A failed spawn leaves no worktree: every worktree belongs to a session, or
\* to a spawn that is under way or has died (service.py:141-146).
NoStrayTree ==
    \A n \in trees : \E w \in Workers :
      worker[w].tree = n \/ (spawner[w].pc \notin {"idle", "over"} /\ spawner[w].name = n)

\* The names of live sessions of the repository are unique though two spawns
\* may have chosen one name: the worktree of that name can be made only once.
WorkerNamesUnique ==
    \A v, w \in Workers : v # w /\ worker[v].rec = "live" /\ worker[w].rec = "live" =>
      worker[v].name # worker[w].name

\* Workers never come into each other's way, though a spawn takes many steps, each of
\* which may fail or be the last: every agent has a checkout to itself, it has it as
\* long as it runs, no checkout is left without an owner, and no name is taken twice
\* (service.py:101-146).
WorkersKeepApart ==
    /\ OneAgentPerCheckout
    /\ CheckoutOutlivesAgent
    /\ NoStrayTree
    /\ WorkerNamesUnique
=============================================================================
