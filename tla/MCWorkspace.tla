---------------------------- MODULE MCWorkspace ----------------------------
(***************************************************************************)
(* Instances for TLC of the components that act on different things of a    *)
(* workspace: worker spawns, the sync of homes, the capture of chats, and   *)
(* the terminals attached to its sessions.  A behaviour is one of a single  *)
(* component, which part names.                                             *)
(***************************************************************************)
EXTENDS WorkerSpawn, HomeSync, ChatCapture, AttachTopology, TLC

SomeKeys == <<"bundle", "record">>

\* Sessions are interchangeable.
Alike == Permutations(Sessions)

VARIABLE part

vars == <<part, wVars, sVars, cVars, topVars>>

Init ==
    /\ part \in {"spawn", "sync", "capture", "terminals"}
    /\ WorkInit /\ SyncInit /\ CaptureInit /\ TopInit
    /\ part # "spawn" => views = {}

Next ==
    \/ part = "spawn" /\ WorkNext /\ UNCHANGED <<part, sVars, cVars, topVars>>
    \/ part = "sync" /\ SyncNext /\ UNCHANGED <<part, wVars, cVars, topVars>>
    \/ part = "capture" /\ CaptureNext /\ UNCHANGED <<part, wVars, sVars, topVars>>
    \/ part = "terminals" /\ TopNext /\ UNCHANGED <<part, wVars, sVars, cVars>>

Spec == Init /\ [][Next]_vars

----------------------------------------------------------------------------
\* Every variable of the components keeps its type; the bounds in it are those of
\* the names, clocks and lists of chats the code can produce; a pane shows a session
\* that runs, and the attached terminals are in one order, of their last use.
TypeOK == WorkTypeOK /\ SyncTypeOK /\ CaptureTypeOK /\ TopTypeOK
=============================================================================
