------------------------------ MODULE ChatOps ------------------------------
(***************************************************************************)
(* Handover and rollover of lib/tx/chat.py.  An operation has a directory   *)
(* chat-ops/<op-id>/ with the entries spec.json, claim/ and done.  A        *)
(* temporary agent, the distiller, writes a brief and runs the finish; a    *)
(* detached watchdog runs it when the distiller does not, and tears the     *)
(* operation down.  The finish starts the continuation: a new worker for a  *)
(* handover, a fresh chat in the same pane for a rollover.  Processes share *)
(* only files; one action is one file or tmux operation.                    *)
(***************************************************************************)
EXTENDS Naturals, FiniteSets

CONSTANTS
    Ops,            \* operation ids, all on one source session
    Slugs,          \* the slugs that handover tasks are shortened to
    FreshPaths,     \* whether no two operations share an artifact path
    Prompt,         \* whether a live finish ends within the watchdog's wait
    DiesInFinish,   \* whether a distiller may end while its finish runs
    ToolsSurvive,   \* whether that finish outlives the distiller's session
    MaxFaults,      \* BOUND: processes that raise or die, removed sources
    None

ASSUME ChatOpsAssumption ==
    /\ FreshPaths \in BOOLEAN
    /\ Prompt \in BOOLEAN
    /\ DiesInFinish \in BOOLEAN
    /\ ToolsSurvive \in BOOLEAN
    /\ MaxFaults \in Nat
    /\ None \notin Ops \cup Slugs \cup Nat
    /\ IsFiniteSet(Ops)

VARIABLES
    entries,    \* op -> what exists of its directory, "dir" being itself
    path,       \* op -> the artifact its spec names, NoPath before it starts
    brief,      \* artifact path -> the op whose distiller wrote it, or None
    distiller,  \* op -> its distiller
    expired,    \* op -> whether WATCH_TIMEOUT_SECONDS have passed
    launched,   \* op -> how many continuations it has started
    linked,     \* op -> whether the continuation's ChatRef is recorded
    source,     \* whether the source record exists
    pc,         \* op -> role -> the next step of that process
    doomed,     \* op -> the entries its teardown has still to remove
    faults      \* faults still to come

disk == <<entries, brief, launched, linked>>
vars == <<disk, path, distiller, expired, source, pc, doomed, faults>>

\* The processes of an operation: the command that started it (and, without
\* a distiller, finishes it), the finish run by the distiller, the watchdog.
Roles == {"start", "tool", "watch"}

Entries == {"dir", "spec", "claim", "done"}

Kinds == {"handover", "rollover"}

\* handover-<slug>.md, rollover-<n>.md, or none for self-catch-up.
NoPath    == <<"none">>
SelfPaths == {<<kind, None>> : kind \in Kinds}
Paths     == {<<"handover", s>> : s \in Slugs} \cup
             {<<"rollover", n>> : n \in 1..Cardinality(Ops)}

Distilled(op) == path[op] \in Paths

Started(op) == path[op] # NoPath

FinishSteps == {"load", "check", "claim", "source", "launch", "link", "done"}

Steps == FinishSteps \cup
         {"idle", "distill", "detach", "poll", "grace", "ensure", "await",
          "kill", "list", "remove"}

Goto(op, r, step) == pc' = [pc EXCEPT ![op][r] = step]

\* A finish that has made the claim and not yet written done.
Finishing(op, r) == pc[op][r] \in {"source", "launch", "link", "done"}

Running(op) == distiller[op] \in {"working", "written"}

-----------------------------------------------------------------------------
(* handover and rollover, up to the detached watchdog.                      *)

\* _next_rollover_note counts the notes that exist.
RolloverNotes == Cardinality({p \in DOMAIN brief : p[1] = "rollover" /\ brief[p] # None})

\* A slip: notes are numbered from zero.
NextNoteFromZero == RolloverNotes

NextNote == RolloverNotes + 1

ArtifactPath(kind, s) ==
    IF kind = "handover" THEN <<"handover", s>> ELSE <<"rollover", NextNote>>

\* The spec is saved before the distiller is spawned; without one the command
\* goes on to the finish, itself or (rollover) in a detached process.
StartOp(op, kind, s, selfCatchUp) ==
    LET p == IF selfCatchUp THEN <<kind, None>> ELSE ArtifactPath(kind, s) IN
    /\ ~Started(op)
    /\ source
    /\ FreshPaths /\ ~selfCatchUp =>
          brief[p] = None /\ \A o \in Ops : path[o] # p
    /\ path' = [path EXCEPT ![op] = p]
    /\ entries' = [entries EXCEPT ![op] = {"dir", "spec"}]
    /\ Goto(op, "start", IF selfCatchUp THEN "load" ELSE "distill")
    /\ UNCHANGED <<brief, launched, linked, distiller, expired, source, doomed, faults>>

SpawnDistiller(op) ==
    /\ pc[op]["start"] = "distill"
    /\ distiller' = [distiller EXCEPT ![op] = "working"]
    /\ Goto(op, "start", "detach")
    /\ UNCHANGED <<disk, path, expired, source, doomed, faults>>

DetachWatch(op) ==
    /\ pc[op]["start"] = "detach"
    /\ pc' = [pc EXCEPT ![op]["start"] = "idle", ![op]["watch"] = "poll"]
    /\ UNCHANGED <<disk, path, distiller, expired, source, doomed, faults>>

-----------------------------------------------------------------------------
(* chat_op_finish, run by any of the three processes.                       *)

\* Where a finish goes when it returns: the watchdog waits for done.
Returned(r) == IF r = "watch" THEN "await" ELSE "idle"

\* ChatOpSpec.load raises when the spec is gone; that ends the process, the
\* watchdog included.
LoadSpec(op, r) ==
    /\ pc[op][r] = "load"
    /\ Goto(op, r, IF "spec" \in entries[op] THEN "check" ELSE "idle")
    /\ UNCHANGED <<disk, path, distiller, expired, source, doomed, faults>>

CheckDone(op, r) ==
    /\ pc[op][r] = "check"
    /\ Goto(op, r, IF "done" \in entries[op] THEN Returned(r) ELSE "claim")
    /\ UNCHANGED <<disk, path, distiller, expired, source, doomed, faults>>

\* A slip: an existing claim is taken over.
ClaimFreeAlways(op) == "dir" \in entries[op]

ClaimFree(op) == "claim" \notin entries[op]

\* mkdir of claim/: the winner goes on, the loser returns, and without the
\* directory of the operation mkdir raises.
Claim(op, r) ==
    /\ pc[op][r] = "claim"
    /\ \/ /\ "dir" \in entries[op] /\ ClaimFree(op)
          /\ entries' = [entries EXCEPT ![op] = @ \cup {"claim"}]
          /\ Goto(op, r, "source")
       \/ /\ "dir" \in entries[op] /\ ~ClaimFree(op)
          /\ Goto(op, r, Returned(r))
          /\ UNCHANGED entries
       \/ /\ "dir" \notin entries[op]
          /\ Goto(op, r, "idle")
          /\ UNCHANGED entries
    /\ UNCHANGED <<brief, launched, linked, path, distiller, expired, source, doomed, faults>>

\* The source record is loaded and its transcript ingested; without the
\* record the finish raises and leaves its claim behind.
LoadSource(op, r) ==
    /\ pc[op][r] = "source"
    /\ Goto(op, r, IF source THEN "launch" ELSE "idle")
    /\ UNCHANGED <<disk, path, distiller, expired, source, doomed, faults>>

\* spawn_worker or respawn_pane.
Launch(op, r) ==
    /\ pc[op][r] = "launch"
    /\ launched' = [launched EXCEPT ![op] = @ + 1]
    /\ Goto(op, r, "link")
    /\ UNCHANGED <<entries, brief, linked, path, distiller, expired, source, doomed, faults>>

\* _record_seeded_chat loads the record of the continuation, for a rollover
\* the source's own, and raises when that is gone.
Link(op, r) ==
    /\ pc[op][r] = "link"
    /\ IF path[op][1] = "handover" \/ source
       THEN linked' = [linked EXCEPT ![op] = TRUE] /\ Goto(op, r, "done")
       ELSE UNCHANGED linked /\ Goto(op, r, "idle")
    /\ UNCHANGED <<entries, brief, launched, path, distiller, expired, source, doomed, faults>>

\* Only an operation without a distiller cleans up after its own finish.
CleansUp(op) == ~Distilled(op)

WriteDone(op, r) ==
    /\ pc[op][r] = "done"
    /\ \/ /\ "dir" \in entries[op]
          /\ entries' = [entries EXCEPT ![op] = @ \cup {"done"}]
          /\ Goto(op, r, IF CleansUp(op) THEN "list" ELSE Returned(r))
       \/ /\ "dir" \notin entries[op]
          /\ Goto(op, r, "idle")
          /\ UNCHANGED entries
    /\ UNCHANGED <<brief, launched, linked, path, distiller, expired, source, doomed, faults>>

-----------------------------------------------------------------------------
(* chat_op_watch.                                                           *)

\* A slip: the poll does not look for the artifact.
BriefLandedAlways(op) == Distilled(op)

BriefLanded(op) == brief[path[op]] # None

\* A slip: the poll has no deadline.
PollOverWithoutDeadline(op) == "done" \in entries[op] \/ BriefLanded(op)

PollOver(op) == "done" \in entries[op] \/ BriefLanded(op) \/ expired[op]

PollEnds(op) ==
    /\ pc[op]["watch"] = "poll"
    /\ PollOver(op)
    /\ Goto(op, "watch", "grace")
    /\ UNCHANGED <<disk, path, distiller, expired, source, doomed, faults>>

\* The grace window passes, or done appears in it.
GraceEnds(op) ==
    /\ pc[op]["watch"] = "grace"
    /\ Goto(op, "watch", "ensure")
    /\ UNCHANGED <<disk, path, distiller, expired, source, doomed, faults>>

\* A slip: the watchdog leaves the finish to the distiller.
NeedsFinishNever(op) == FALSE

NeedsFinish(op) == "done" \notin entries[op]

\* A slip: a finish that is under way is taken for ended.
EnsureWithoutWait(op) ==
    /\ pc[op]["watch"] = "ensure"
    /\ Goto(op, "watch", IF NeedsFinish(op) /\ "claim" \notin entries[op] THEN "load" ELSE "kill")
    /\ UNCHANGED <<disk, path, distiller, expired, source, doomed, faults>>

Ensure(op) ==
    /\ pc[op]["watch"] = "ensure"
    /\ Goto(op, "watch", IF NeedsFinish(op) THEN "load" ELSE "await")
    /\ UNCHANGED <<disk, path, distiller, expired, source, doomed, faults>>

\* Ten polls for done; a finish that is Prompt does not outlast them.
AwaitEnds(op) ==
    /\ pc[op]["watch"] = "await"
    /\ \/ "done" \in entries[op]
       \/ Prompt => \A r \in Roles : ~Finishing(op, r)
    /\ Goto(op, "watch", "kill")
    /\ UNCHANGED <<disk, path, distiller, expired, source, doomed, faults>>

\* The distiller's session ends: a finish it runs ends with it, unless the
\* agent runs its tools in a session of their own.
DistillerEnds(op, step) ==
    /\ distiller' = [distiller EXCEPT ![op] = "dead"]
    /\ \E tool \in {"idle"} \cup (IF ToolsSurvive THEN {pc[op]["tool"]} ELSE {}) :
          pc' = [pc EXCEPT ![op] = [@ EXCEPT !.tool = tool, !.watch = step]]

\* _cleanup_op: kill the distiller, then remove the directory.
KillDistiller(op) ==
    /\ pc[op]["watch"] = "kill"
    /\ DistillerEnds(op, "list")
    /\ UNCHANGED <<disk, path, expired, source, doomed, faults>>

\* rmtree lists the directory, removes what it listed, and at last the
\* directory itself unless something new is in it; errors are ignored.
ListDir(op, r) ==
    /\ pc[op][r] = "list"
    /\ doomed' = [doomed EXCEPT ![op] = entries[op] \ {"dir"}]
    /\ Goto(op, r, "remove")
    /\ UNCHANGED <<disk, path, distiller, expired, source, faults>>

RemoveEntry(op, r, e) ==
    /\ pc[op][r] = "remove"
    /\ e \in doomed[op]
    /\ entries' = [entries EXCEPT ![op] = @ \ {e}]
    /\ doomed' = [doomed EXCEPT ![op] = @ \ {e}]
    /\ UNCHANGED <<brief, launched, linked, path, distiller, expired, source, pc, faults>>

RemoveDir(op, r) ==
    /\ pc[op][r] = "remove"
    /\ doomed[op] = {}
    /\ entries' = [entries EXCEPT ![op] = @ \ (IF @ = {"dir"} THEN @ ELSE {})]
    /\ Goto(op, r, "idle")
    /\ UNCHANGED <<brief, launched, linked, path, distiller, expired, source, doomed, faults>>

-----------------------------------------------------------------------------
(* The distiller and the rest of the world.                                 *)

\* The distiller saves its brief.
WriteBrief(op) ==
    /\ distiller[op] = "working"
    /\ distiller' = [distiller EXCEPT ![op] = "written"]
    /\ brief' = [brief EXCEPT ![path[op]] = op]
    /\ UNCHANGED <<entries, launched, linked, path, expired, source, pc, doomed, faults>>

\* It runs `tx _chat-op-finish`, at any time and more than once.
StartTool(op) ==
    /\ Running(op)
    /\ pc[op]["tool"] = "idle"
    /\ Goto(op, "tool", "load")
    /\ UNCHANGED <<disk, path, distiller, expired, source, doomed, faults>>

\* Its agent quits or its session is closed.
DistillerDies(op) ==
    /\ Running(op)
    /\ DiesInFinish \/ ~Finishing(op, "tool")
    /\ DistillerEnds(op, pc[op]["watch"])
    /\ UNCHANGED <<disk, path, expired, source, doomed, faults>>

Expire(op) ==
    /\ pc[op]["watch"] = "poll"
    /\ expired' = [expired EXCEPT ![op] = TRUE]
    /\ UNCHANGED <<disk, path, distiller, source, pc, doomed, faults>>

\* `tx rm` of the source record.
RemoveSource ==
    /\ faults > 0 /\ source
    /\ faults' = faults - 1
    /\ source' = FALSE
    /\ UNCHANGED <<disk, path, distiller, expired, pc, doomed>>

\* A process raises (git, tmux or an engine refuses) or is killed.
Crash(op, r) ==
    /\ faults > 0
    /\ faults' = faults - 1
    /\ pc[op][r] # "idle"
    /\ Goto(op, r, "idle")
    /\ UNCHANGED <<disk, path, distiller, expired, source, doomed>>

Init ==
    /\ entries = [op \in Ops |-> {}]
    /\ path = [op \in Ops |-> NoPath]
    /\ brief = [p \in Paths |-> None]
    /\ distiller = [op \in Ops |-> "none"]
    /\ expired = [op \in Ops |-> FALSE]
    /\ launched = [op \in Ops |-> 0]
    /\ linked = [op \in Ops |-> FALSE]
    /\ source = TRUE
    /\ pc = [op \in Ops |-> [r \in Roles |-> "idle"]]
    /\ doomed = [op \in Ops |-> {}]
    /\ faults = MaxFaults

Finish(op, r) ==
    \/ LoadSpec(op, r) \/ CheckDone(op, r) \/ Claim(op, r) \/ LoadSource(op, r)
    \/ Launch(op, r) \/ Link(op, r) \/ WriteDone(op, r)

Cleanup(op, r) ==
    \/ ListDir(op, r) \/ RemoveDir(op, r)
    \/ \E e \in Entries : RemoveEntry(op, r, e)

Watch(op) ==
    PollEnds(op) \/ GraceEnds(op) \/ Ensure(op) \/ AwaitEnds(op) \/ KillDistiller(op)

\* The steps of the processes tx itself starts.
Step(op) ==
    \/ SpawnDistiller(op) \/ DetachWatch(op) \/ Watch(op)
    \/ \E r \in Roles : Finish(op, r) \/ Cleanup(op, r)

Start(op) ==
    \E kind \in Kinds, s \in Slugs, selfCatchUp \in BOOLEAN :
        StartOp(op, kind, s, selfCatchUp)

World(op) ==
    \/ WriteBrief(op) \/ StartTool(op) \/ DistillerDies(op) \/ Expire(op)
    \/ \E r \in Roles : Crash(op, r)

Next ==
    \/ \E op \in Ops : Start(op) \/ Step(op) \/ World(op)
    \/ RemoveSource

Spec == Init /\ [][Next]_vars

\* The operating system runs every started process and time passes.  Nothing
\* is asked of the distiller.
Fairness ==
    \A op \in Ops :
        /\ WF_vars(SpawnDistiller(op)) /\ WF_vars(DetachWatch(op))
        /\ WF_vars(Watch(op)) /\ WF_vars(Expire(op))
        /\ \A r \in Roles : WF_vars(Finish(op, r)) /\ WF_vars(Cleanup(op, r))

FairSpec == Spec /\ Fairness

-----------------------------------------------------------------------------
(* Properties.                                                              *)

TypeOK ==
    /\ entries \in [Ops -> SUBSET Entries]
    /\ path \in [Ops -> Paths \cup SelfPaths \cup {NoPath}]
    /\ brief \in [Paths -> Ops \cup {None}]
    /\ distiller \in [Ops -> {"none", "working", "written", "dead"}]
    /\ expired \in [Ops -> BOOLEAN]
    /\ launched \in [Ops -> Nat]
    /\ linked \in [Ops -> BOOLEAN]
    /\ source \in BOOLEAN
    /\ pc \in [Ops -> [Roles -> Steps]]
    /\ doomed \in [Ops -> SUBSET (Entries \ {"dir"})]
    /\ faults \in 0..MaxFaults

\* Whoever finishes, however often, one operation starts one continuation
\* (chat_op_finish: "an atomic claim/ mkdir gives single execution").
SingleExecution == \A op \in Ops : launched[op] <= 1

\* No process of tx has raised or died and the source is still there.
NoFault == faults = MaxFaults

\* The watchdog has reached its teardown, or an operation without one is gone.
TornDown(op) ==
    \/ pc[op]["watch"] \in {"list", "remove"} \/ pc[op]["start"] \in {"list", "remove"}
    \/ Started(op) /\ entries[op] = {}

\* What is torn down was completed: the continuation runs, its chat is
\* recorded and no distiller is left ("so a flaked distiller never leaves the
\* op half-done").
TornDownWhole ==
    \A op \in Ops :
        NoFault /\ TornDown(op) => launched[op] = 1 /\ linked[op] /\ ~Running(op)

\* The watchdog takes the finish over from a distiller that is still at its
\* brief only when the deadline has passed ("a slow opus distiller is never
\* cut off early").
NeverCutOffEarly ==
    [][\A op \in Ops :
          (pc[op]["watch"] = "ensure" /\ pc'[op]["watch"] = "load")
              => distiller[op] # "working" \/ expired[op]]_vars

\* The teardown never kills a distiller whose finish holds the claim ("we
\* wait for its `done` before teardown so we never kill a distiller spawning
\* the worker"), which holds where a finish is Prompt: the wait has an end.
NeverKillsFinisher ==
    [][\A op \in Ops :
          (pc[op]["watch"] = "kill" /\ pc'[op]["watch"] # "kill")
              => ~(Running(op) /\ Finishing(op, "tool"))]_vars

\* Whatever the distiller does or fails to do, a started operation gets its
\* continuation ...
Continues ==
    \A op \in Ops : Started(op) ~> (NoFault => launched[op] = 1 /\ linked[op])

\* ... and is cleared away, directory and distiller, for good.
Ends ==
    \A op \in Ops : Started(op) ~> [](NoFault => entries[op] = {} /\ ~Running(op))

\* An operation without a fault always completes: its chat goes on, and nothing of it
\* is left behind (chat.py: the watchdog "never leaves the op half-done").
Completes == Continues /\ Ends
=============================================================================
