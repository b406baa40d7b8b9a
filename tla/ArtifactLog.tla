----------------------------- MODULE ArtifactLog -----------------------------
(***************************************************************************)
(* What the artifact subsystem promises of one durable artifact            *)
(* (lib/tx/artifact.py): an append-only log of revisions, each naming its   *)
(* author and its content.  Every commit differs from the revision before   *)
(* it, no committed revision is ever lost, reordered, changed or credited   *)
(* to somebody else, and the group override is metadata beside the log.     *)
(***************************************************************************)
EXTENDS Sequences, Naturals

CONSTANTS Authors, Contents, Groups, None

VARIABLES entries, group

logVars == <<entries, group>>

\* A revision identical to the last one is never committed.
Fresh(c) == entries = <<>> \/ entries[Len(entries)].content # c

Commit(by, c) ==
    /\ Fresh(c)
    /\ entries' = Append(entries, [by |-> by, content |-> c])
    /\ IF entries = <<>> THEN group' \in Groups \cup {None} ELSE UNCHANGED group

SetGroup(g) ==
    /\ entries # <<>>
    /\ group' = g
    /\ UNCHANGED entries

LogInit == entries = <<>> /\ group = None

LogNext ==
    \/ \E by \in Authors, c \in Contents : Commit(by, c)
    \/ \E g \in Groups \cup {None} : SetGroup(g)

LogSpec == LogInit /\ [][LogNext]_logVars
=============================================================================
