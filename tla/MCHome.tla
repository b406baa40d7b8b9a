------------------------------- MODULE MCHome -------------------------------
(***************************************************************************)
(* Instances for TLC of the components that keep a home in order and of     *)
(* what the dashboards show of it: the migration, the Codex updates; the    *)
(* hub that pushes feeds to the tabs, the effort groups, the usage strip.   *)
(* A behaviour is one of a single component, which part names; no step of   *)
(* the hub is enabled in the initial state, so its fairness asks nothing of *)
(* the others.                                                              *)
(***************************************************************************)
EXTENDS HomeMigration, CodexUpdate, FeedHub, EffortGroups, UsageFeed

VARIABLE part

keepVars == <<mVars, uVars>>
showVars == <<hubVars, grpVars, usgVars>>
vars == <<part, keepVars, showVars>>

Init ==
    /\ part \in {"migration", "update", "hub", "groups", "usage"}
    /\ MigInit /\ UpdInit /\ HubInit /\ GroupInit /\ UsageInit
    /\ part # "migration" => live = {}
    /\ part # "hub" => focus = CHOOSE p \in Places : TRUE
    /\ part # "groups" => \A s \in 1..MaxLegacy :
         rec[s].alive /\ rec[s].name = Hub /\ rec[s].parent = Hub

Next ==
    \/ part = "migration" /\ MigNext /\ UNCHANGED <<part, uVars, showVars>>
    \/ part = "update" /\ UpdNext /\ UNCHANGED <<part, mVars, showVars>>
    \/ part = "hub" /\ HubNext /\ UNCHANGED <<part, keepVars, grpVars, usgVars>>
    \/ part = "groups" /\ GroupNext /\ UNCHANGED <<part, keepVars, hubVars, usgVars>>
    \/ part = "usage" /\ UsageNext /\ UNCHANGED <<part, keepVars, hubVars, grpVars>>

Spec == Init /\ [][Next]_vars

\* HubFairness; and a migration that stopped is run again, to its end.
FairSpec ==
    /\ Spec /\ HubFairness
    /\ \A m \in Migrators : WF_mVars(part = "migration" /\ MigrationStep(m))

----------------------------------------------------------------------------
\* Every variable of the components keeps its type: the bounds are those of the
\* records and clocks the code can produce.
TypeOK ==
    /\ MigTypeOK /\ UpdTypeOK /\ HubTypeOK /\ GroupTypeOK /\ UsageTypeOK

\* At every moment of a migration a live view is known as one, nothing that was written
\* meanwhile is undone, and a home that is migrated again and again is migrated in the
\* end (migrations/__init__.py:22-26, 55-57).
MigratesWhole ==
    /\ []ViewsStayViews
    /\ MigrationKeepsWrites
    /\ part = "migration" => MigrationFinishes
=============================================================================
