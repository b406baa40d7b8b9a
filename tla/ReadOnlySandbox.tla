-------------------------- MODULE ReadOnlySandbox --------------------------
(***************************************************************************)
(* The outer sandbox of read-only workers (lib/tx/read_only.py and the      *)
(* calls of service.py): what it denies is fixed when the worker starts,    *)
(* while the worktrees of the repository come and go.                       *)
(***************************************************************************)
EXTENDS Null, Naturals, FiniteSets, Sequences, SequencesExt

CONSTANTS
    ReadOnlyWorkers,
    MaxTxTrees,       \* bound: names under tx's root
    ResumesElsewhere  \* the user resumes a worker in a worktree of his own (--cwd)

ASSUME SandboxAssumption ==
    /\ None \notin ReadOnlyWorkers
    /\ MaxTxTrees \in 1..3 /\ ResumesElsewhere \in BOOLEAN

(* Canonical paths, from the root of the file system down.                  *)
Checkout == <<"repo">>
GitDirectory == <<"repo", ".git">>
TxRoot == <<"tx", "worktrees", "key">>
TxTrees == {Append(TxRoot, <<"w1", "w2", "w3">>[n]) : n \in 1..MaxTxTrees}
UserTrees == {<<"repo", "nested">>, <<"work", "other">>, <<"top">>, <<"tx", "mine">>}
WhatAgentsWrite ==
    {<<"tx", "sessions">>, <<"tx", "agy-logs">>, <<"tx", "worktrees", "other">>, <<"home">>}
Paths == {Checkout, GitDirectory, TxRoot} \cup TxTrees \cup UserTrees \cup WhatAgentsWrite

VARIABLES
    registered, \* the worktrees git lists
    sandbox     \* the running read-only workers

boxVars == <<registered, sandbox>>

BoxTypeOK ==
    /\ Checkout \in registered /\ registered \subseteq {Checkout} \cup TxTrees \cup UserTrees
    /\ \A w \in ReadOnlyWorkers : sandbox[w] # None =>
         /\ sandbox[w].tree \in registered /\ sandbox[w].known \subseteq TxTrees \cup UserTrees \cup {Checkout}
         /\ \A b, c \in sandbox[w].boundaries : b # <<>> /\ (IsPrefix(b, c) => b = c)

BoxInit == registered = {Checkout} /\ sandbox = [w \in ReadOnlyWorkers |-> None]

----------------------------------------------------------------------------
(* The boundaries.                                                          *)

ParentOf(path) == Front(path)

\* A slip: the worktree itself is denied, not the root it is under.
OwnTreeOnly(workspace) == {workspace, GitDirectory} \cup registered
\* worker_launch_command: what the repository owns, and where tx puts its next trees.
OwnedPaths(workspace) == {ParentOf(workspace), GitDirectory} \cup registered

\* A slip: every path is passed on as it is.
AllBoundaries(paths) == paths

\* _minimal_boundaries: denying a directory denies what is in it.
MinimalBoundaries(paths) == {p \in paths : \A q \in paths : IsPrefix(q, p) => q = p}

Denies(boundaries, path) == \E b \in boundaries : IsPrefix(b, path)

----------------------------------------------------------------------------

\* Bound to its final checkout, and refused if a boundary would be the whole system.
Wrapped(w, workspace, trees) ==
    LET paths == OwnedPaths(workspace) \cup trees IN
    /\ sandbox[w] = None /\ <<>> \notin paths
    /\ sandbox' = [sandbox EXCEPT ![w] =
         [tree |-> workspace, known |-> trees, boundaries |-> MinimalBoundaries(paths)]]

\* Spawn, fork, handover, and a resume under another name: in a new worktree.
SpawnReadOnly(w, tree) ==
    /\ tree \notin registered /\ registered' = registered \cup {tree}
    /\ Wrapped(w, tree, registered')

\* A resume under the old name: in the linked worktree it is asked for.
ResumeReadOnly(w, tree) ==
    /\ tree \in registered \ {Checkout} /\ (tree \in TxTrees \/ ResumesElsewhere)
    /\ Wrapped(w, tree, registered)
    /\ UNCHANGED registered

KillReader(w) ==
    /\ sandbox[w] # None /\ sandbox' = [sandbox EXCEPT ![w] = None]
    /\ UNCHANGED registered

\* Other workers, and the user, add worktrees and remove them.
TreeAppears(tree) ==
    /\ registered' = registered \cup {tree} /\ tree \notin registered
    /\ UNCHANGED sandbox

TreeGoes(tree) ==
    /\ tree \in registered \ {Checkout}
    /\ \A w \in ReadOnlyWorkers : sandbox[w] # None => sandbox[w].tree # tree
    /\ registered' = registered \ {tree}
    /\ UNCHANGED sandbox

BoxNext ==
    \/ \E w \in ReadOnlyWorkers :
         \/ \E tree \in TxTrees : SpawnReadOnly(w, tree)
         \/ \E tree \in TxTrees \cup UserTrees : ResumeReadOnly(w, tree)
         \/ KillReader(w)
    \/ \E tree \in TxTrees \cup UserTrees : TreeAppears(tree) \/ TreeGoes(tree)

BoxSpec == BoxInit /\ [][BoxNext]_boxVars

----------------------------------------------------------------------------
(* Properties.                                                              *)

\* A read-only worker can write to no checkout of its repository: not to its own, not
\* to any that was registered when it started, not to any tx has made since then, and
\* not to the shared Git directory (read_only.py: all repository-owned paths read-only).
RepositoryDenied ==
    \A w \in ReadOnlyWorkers : sandbox[w] # None =>
      \A path \in sandbox[w].known \cup TxTrees \cup {GitDirectory} :
        Denies(sandbox[w].boundaries, path)

\* It can write everywhere else, to its records and logs in the home of tx above all,
\* without which its hooks fail and its chat is never captured (read_only.py:41:
\* the parent of a worktree is denied, and the parent is tx's root for one repository).
NothingElseDenied ==
    \A w \in ReadOnlyWorkers : sandbox[w] # None =>
      \A path \in Paths : Denies(sandbox[w].boundaries, path) =>
        \E owned \in sandbox[w].known \cup {TxRoot, GitDirectory} : IsPrefix(owned, path)

\* The sandbox is as large as it must be and no larger: the repository and the worktrees
\* to come are inside it, and nothing else is (read_only.py:30-60).
SandboxFits == RepositoryDenied /\ NothingElseDenied
=============================================================================
