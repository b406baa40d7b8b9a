----------------------------- MODULE MCCommands -----------------------------
(***************************************************************************)
(* Instances for TLC of the sides of a launch: the command lines of a chain *)
(* of sessions, what the launches leave in their checkouts, the sandbox of  *)
(* read-only workers, and the mirror of the chat that was launched.  A      *)
(* behaviour is one of a single component, which part names.                *)
(***************************************************************************)
EXTENDS LaunchCommands, WorkspaceGrants, ReadOnlySandbox, HistoryIngest, TLC

\* Checkouts, skills and ingests are interchangeable.
Alike == Permutations(Checkouts) \cup Permutations(Skills) \cup Permutations(Ingests)

\* Each launch of a chain has a chat, and each worker a worktree, of its own.
ChatIds == <<"c1", "c2", "c3", "c4", "c5">>
TreeIds == <<"t1", "t2", "t3", "t4", "t5">>

VARIABLE part

vars == <<part, lcVars, gVars, boxVars, hVars>>

Init ==
    /\ part \in {"commands", "grants", "sandbox", "history"}
    /\ LaunchInit /\ GrantInit /\ BoxInit /\ HistInit
    /\ part # "grants" => Granted({"R"}) = Skills

Next ==
    \/ part = "commands" /\ LaunchNext /\ UNCHANGED <<part, gVars, boxVars, hVars>>
    \/ part = "grants" /\ GrantNext /\ UNCHANGED <<part, lcVars, boxVars, hVars>>
    \/ part = "sandbox" /\ BoxNext /\ UNCHANGED <<part, lcVars, gVars, hVars>>
    \/ part = "history" /\ HistNext /\ UNCHANGED <<part, lcVars, gVars, boxVars>>

Spec == Init /\ [][Next]_vars

----------------------------------------------------------------------------
\* The variables of the components keep their types: a command derived from
\* another has no shell control in it, and a mirror is of versions that were.
TypeOK == LaunchTypeOK /\ GrantTypeOK /\ BoxTypeOK /\ HistTypeOK
=============================================================================
