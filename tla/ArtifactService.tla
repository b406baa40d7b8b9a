--------------------------- MODULE ArtifactService ---------------------------
(***************************************************************************)
(* One artifact of lib/tx/artifact_service.py, as the files of              *)
(* lib/tx/artifact_store.py hold it: the record <id>.json (authoritative),  *)
(* the immutable revs/<n> files, the working copy `current`, and the lines  *)
(* of the event log.  Any number of `tx artifact` processes change it with  *)
(* no lock but the exclusive creation of revs/<n>; each may die between two *)
(* of its file operations.  One action is one file operation.  Artifacts    *)
(* share no file, so one stands for all.                                    *)
(***************************************************************************)
EXTENDS Naturals, Sequences

CONSTANTS
    Procs,       \* slots for concurrently running `tx` processes
    Authors,     \* session ids, or "user"
    Contents,    \* file contents
    Groups,      \* effort groups
    Commands,    \* the commands that are run
    Alone,       \* those run only while no other is: "run when QUIESCENT"
    MaxRev,      \* BOUND: the highest revision number
    MaxCrashes,  \* BOUND: how many processes die before they are done
    None

ArtifactCommands == {"create", "modify", "snapshot", "group", "repair"}

Revs == 0..MaxRev

ASSUME ArtifactAssumption ==
    /\ Commands \subseteq ArtifactCommands
    /\ Alone \subseteq ArtifactCommands
    /\ MaxRev \in Nat
    /\ MaxCrashes \in Nat
    /\ None \notin Contents \cup Groups \cup Authors

VARIABLES
    record,   \* the record file, NoRecord when there is none
    files,    \* rev number -> its content, None when there is no such file
    current,  \* the working copy, None when there is none
    log,      \* the revs that have a create or modify line in the event log
    pc,       \* process -> its next step
    job,      \* process -> the command line it is executing
    copy,     \* process -> the record it has in memory
    doomed,   \* process -> the rev files its repair has still to remove
    crashes   \* crashes still to come

disk == <<record, files, current, log>>
vars == <<disk, pc, job, copy, doomed, crashes>>

Touch    == [by: Authors, rev: Revs]
Record   == [history: Seq(Touch), group: Groups \cup {None}]
NoRecord == [history |-> <<>>, group |-> None]

\* A record has at least the touch of its creation.
Present(r) == r.history # <<>>

LatestRev(r) == r.history[Len(r.history)].rev

\* The rev a writer claims: the create claims 0, a modify the one after the
\* latest its copy of the record knows.
NextRev(r) == IF Present(r) THEN LatestRev(r) + 1 ELSE 0

\* A slip: the touch does not name its author.
TouchedByNobody(r, by) == [r EXCEPT !.history = Append(@, [by |-> None, rev |-> NextRev(r)])]

Touched(r, by) == [r EXCEPT !.history = Append(@, [by |-> by, rev |-> NextRev(r)])]

Recorded(r) == {r.history[i].rev : i \in DOMAIN r.history}

OnDisk == {n \in Revs : files[n] # None}

\* A slip: the latest revision counts as unreferenced.
OrphansFromLatest(r) == OnDisk \ {n \in Recorded(r) : n # LatestRev(r)}

\* orphan_revs: rev files the record does not reference.
Orphans(r) == OnDisk \ Recorded(r)

Steps == {"idle", "load", "readCurrent", "compare", "claim", "writeCurrent",
          "save", "log", "saveGroup", "list", "remove"}

Job == [cmd:     ArtifactCommands \cup {"none"},
        by:      Authors \cup {None},
        content: Contents \cup {None},
        group:   Groups \cup {None}]

NoJob == [cmd |-> "none", by |-> None, content |-> None, group |-> None]

Goto(p, step) == pc' = [pc EXCEPT ![p] = step]

\* The process exits: it is done, it raised, or it died.
Finish(p) ==
    /\ Goto(p, "idle")
    /\ job'    = [job EXCEPT ![p] = NoJob]
    /\ copy'   = [copy EXCEPT ![p] = NoRecord]
    /\ doomed' = [doomed EXCEPT ![p] = {}]

Idle(p) == pc[p] = "idle"

-----------------------------------------------------------------------------
(* Commands.                                                               *)

Begin(p, cmd, by, c, g, step) ==
    /\ Idle(p)
    /\ cmd \in Commands
    /\ cmd \in Alone => \A q \in Procs : Idle(q)
    /\ \A q \in Procs : job[q].cmd \notin Alone
    /\ job' = [job EXCEPT ![p] = [cmd |-> cmd, by |-> by, content |-> c, group |-> g]]
    /\ Goto(p, step)
    /\ UNCHANGED <<disk, doomed, crashes>>

\* create: the uuid is fresh, so only one process ever creates this artifact.
\* The record it will save exists in memory from the start.
StartCreate(p, by, c, g) ==
    /\ OnDisk = {} /\ \A q \in Procs : job[q].cmd # "create"
    /\ ~Present(record)
    /\ Begin(p, "create", by, c, g, "claim")
    /\ copy' = [copy EXCEPT ![p] = [NoRecord EXCEPT !.group = g]]

StartModify(p, by, c)   == Begin(p, "modify", by, c, None, "load") /\ UNCHANGED copy
StartSnapshot(p, by)    == Begin(p, "snapshot", by, None, None, "load") /\ UNCHANGED copy
StartSetGroup(p, by, g) == Begin(p, "group", by, None, g, "load") /\ UNCHANGED copy
StartRepair(p)          == Begin(p, "repair", None, None, None, "load") /\ UNCHANGED copy

AfterLoad(cmd) ==
    CASE cmd = "modify"   -> "compare"
      [] cmd = "snapshot" -> "readCurrent"
      [] cmd = "group"    -> "saveGroup"
      [] OTHER            -> "list"

\* _require raises for an artifact without a record; repair_orphans goes
\* through store.all(), which does not list it.
Load(p) ==
    /\ pc[p] = "load"
    /\ \/ /\ Present(record)
          /\ copy' = [copy EXCEPT ![p] = record]
          /\ Goto(p, AfterLoad(job[p].cmd))
          /\ UNCHANGED <<job, doomed>>
       \/ /\ ~Present(record)
          /\ Finish(p)
    /\ UNCHANGED <<disk, crashes>>

\* snapshot_current takes the working copy for its content.
ReadCurrent(p) ==
    /\ pc[p] = "readCurrent"
    /\ \/ /\ current # None
          /\ job' = [job EXCEPT ![p].content = current]
          /\ Goto(p, "compare")
          /\ UNCHANGED <<copy, doomed>>
       \/ /\ current = None
          /\ Finish(p)
    /\ UNCHANGED <<disk, crashes>>

\* _apply_modify, first part: content equal to the latest rev is a no-op, and
\* a rev whose file is gone raises.  BOUND: past MaxRev the modify gives up.
Compare(p) ==
    LET last == files[LatestRev(copy[p])] IN
    /\ pc[p] = "compare"
    /\ \/ /\ last \notin {None, job[p].content}
          /\ NextRev(copy[p]) \in Revs
          /\ Goto(p, "claim")
          /\ UNCHANGED <<job, copy, doomed>>
       \/ /\ last \in {None, job[p].content} \/ NextRev(copy[p]) \notin Revs
          /\ Finish(p)
    /\ UNCHANGED <<disk, crashes>>

\* A slip: the claim overwrites whatever the slot holds.
SlotFreeAlways(n) == n \in Revs

SlotFree(n) == files[n] = None

\* claim_rev: os.link makes the rev appear whole, or fails on a taken slot.
Claim(p) ==
    LET n == NextRev(copy[p]) IN
    /\ pc[p] = "claim"
    /\ \/ /\ SlotFree(n)
          /\ files' = [files EXCEPT ![n] = job[p].content]
          /\ Goto(p, "writeCurrent")
          /\ UNCHANGED <<job, copy, doomed>>
       \/ /\ ~SlotFree(n)
          /\ Finish(p)
          /\ UNCHANGED files
    /\ UNCHANGED <<record, current, log, crashes>>

WriteCurrent(p) ==
    /\ pc[p] = "writeCurrent"
    /\ current' = job[p].content
    /\ Goto(p, "save")
    /\ UNCHANGED <<record, files, log, job, copy, doomed, crashes>>

\* The whole in-memory record with the new touch is the commit.
Save(p) ==
    /\ pc[p] = "save"
    /\ record' = Touched(copy[p], job[p].by)
    /\ copy' = [copy EXCEPT ![p] = Touched(copy[p], job[p].by)]
    /\ Goto(p, "log")
    /\ UNCHANGED <<files, current, log, job, doomed, crashes>>

\* A slip: the line names the revision the modify started from.
LoggedRevBefore(r) == IF Len(r.history) = 1 THEN 0 ELSE LatestRev(r) - 1

LoggedRev(r) == LatestRev(r)

AppendLog(p) ==
    /\ pc[p] = "log"
    /\ log' = log \cup {LoggedRev(copy[p])}
    /\ Finish(p)
    /\ UNCHANGED <<record, files, current, crashes>>

\* set_group saves the whole record it loaded, with another group.
SaveGroup(p) ==
    /\ pc[p] = "saveGroup"
    /\ record' = [copy[p] EXCEPT !.group = job[p].group]
    /\ Finish(p)
    /\ UNCHANGED <<files, current, log, crashes>>

\* repair_orphans: list the rev files, then remove the orphans one by one.
ListOrphans(p) ==
    /\ pc[p] = "list"
    /\ doomed' = [doomed EXCEPT ![p] = Orphans(copy[p])]
    /\ Goto(p, "remove")
    /\ UNCHANGED <<disk, job, copy, crashes>>

RemoveRev(p, n) ==
    /\ pc[p] = "remove"
    /\ n \in doomed[p] /\ \A m \in doomed[p] : n <= m
    /\ files' = [files EXCEPT ![n] = None]
    /\ doomed' = [doomed EXCEPT ![p] = @ \ {n}]
    /\ UNCHANGED <<record, current, log, pc, job, copy, crashes>>

RepairEnds(p) ==
    /\ pc[p] = "remove"
    /\ doomed[p] = {}
    /\ Finish(p)
    /\ UNCHANGED <<disk, crashes>>

-----------------------------------------------------------------------------
(* The environment.                                                        *)

\* The user saves the working copy in the nvim view (`tx artifact open`).
UserEdits(c) ==
    /\ Present(record) /\ current # None
    /\ current' = c
    /\ UNCHANGED <<record, files, log, pc, job, copy, doomed, crashes>>

Crash(p) ==
    /\ crashes > 0
    /\ crashes' = crashes - 1
    /\ ~Idle(p)
    /\ Finish(p)
    /\ UNCHANGED disk

Init ==
    /\ record = NoRecord
    /\ files = [n \in Revs |-> None]
    /\ current = None
    /\ log = {}
    /\ pc = [p \in Procs |-> "idle"]
    /\ job = [p \in Procs |-> NoJob]
    /\ copy = [p \in Procs |-> NoRecord]
    /\ doomed = [p \in Procs |-> {}]
    /\ crashes = MaxCrashes

Start(p) ==
    \/ StartRepair(p)
    \/ \E by \in Authors :
          \/ StartSnapshot(p, by)
          \/ \E c \in Contents : StartModify(p, by, c)
          \/ \E g \in Groups \cup {None} : StartSetGroup(p, by, g)
          \/ \E c \in Contents, g \in Groups \cup {None} : StartCreate(p, by, c, g)

Step(p) ==
    \/ Load(p) \/ ReadCurrent(p) \/ Compare(p) \/ Claim(p) \/ WriteCurrent(p)
    \/ Save(p) \/ AppendLog(p) \/ SaveGroup(p) \/ ListOrphans(p) \/ RepairEnds(p)
    \/ \E n \in Revs : RemoveRev(p, n)

Next ==
    \/ \E p \in Procs : Start(p) \/ Step(p) \/ Crash(p)
    \/ \E c \in Contents : UserEdits(c)

Spec == Init /\ [][Next]_vars

-----------------------------------------------------------------------------
(* Properties.                                                             *)

TypeOK ==
    /\ record \in Record
    /\ files \in [Revs -> Contents \cup {None}]
    /\ current \in Contents \cup {None}
    /\ log \subseteq Revs
    /\ pc \in [Procs -> Steps]
    /\ job \in [Procs -> Job]
    /\ copy \in [Procs -> Record]
    /\ doomed \in [Procs -> SUBSET Revs]
    /\ crashes \in 0..MaxCrashes

\* The record as the log of its revisions: what `tx artifact show`, `diff`
\* and `open --rev` read through it.
Log == INSTANCE ArtifactLog WITH
    entries <- [i \in DOMAIN record.history |->
                   [by      |-> record.history[i].by,
                    content |-> files[record.history[i].rev]]],
    group <- record.group

\* Concurrent creates, modifies and snapshots, dying at any step, implement an
\* append-only log: no touch is lost and no committed revision ever changes,
\* although nothing but the slot claim serializes the writers
\* (artifact_service.py: "overwriting a live claim is a lost touch (the P0)").
ImplementsLog == Log!LogSpec

\* Every revision the record names has its file: the record is saved last,
\* and repair removes nothing that is referenced (doctor: "history revs whose
\* file is missing").
CommittedRevsExist == Recorded(record) \subseteq OnDisk

\* When no process runs and none has died, doctor finds no debris: no orphan
\* rev, no content directory without a record, no unlogged touch.
DoctorFindsNoDebris ==
    ((\A p \in Procs : Idle(p)) /\ crashes = MaxCrashes) =>
        /\ Orphans(record) = {}
        /\ Recorded(record) \subseteq log
        /\ (current = None) <=> ~Present(record)

\* Repair never removes a committed rev (artifact_store.py, remove_rev: "Never
\* called on a committed rev"): the log line is written after the commit, so a
\* rev that has one was committed.
CommittedRevsKept == [][\A n \in log : files[n] # None => files'[n] # None]_vars

-----------------------------------------------------------------------------
(* The inductive invariant behind the last three properties.               *)

\* Each step belongs to a command, with the arguments that command has.
JobFits(p) ==
    LET j == job[p] IN
    /\ Idle(p) => j = NoJob /\ copy[p] = NoRecord
    /\ ~Idle(p) => j.cmd \in Commands
    /\ pc[p] = "load" => j.cmd \in {"modify", "snapshot", "group", "repair"}
    /\ pc[p] \in {"load", "readCurrent", "compare", "claim", "writeCurrent", "save", "log"}
          => \/ j.cmd \in {"create", "modify", "snapshot"} /\ j.by \in Authors
             \/ pc[p] = "load" /\ j.cmd \in {"group", "repair"}
    /\ pc[p] \in {"compare", "claim", "writeCurrent", "save"} => j.content \in Contents
    /\ pc[p] = "load" /\ j.cmd = "modify" => j.content \in Contents
    /\ pc[p] = "readCurrent" => j.cmd = "snapshot"
    /\ pc[p] = "saveGroup" => j.cmd = "group"
    /\ pc[p] \in {"list", "remove"} => j.cmd = "repair"
    /\ pc[p] \in {"readCurrent", "compare", "saveGroup", "list", "log"} => Present(copy[p])
    /\ pc[p] \in {"claim", "writeCurrent", "save"} => NextRev(copy[p]) \in Revs
    /\ doomed[p] # {} => pc[p] = "remove"

JobsFit == \A p \in Procs : JobFits(p)

\* A command of Alone has the files to itself.
AloneRuns == \A p, q \in Procs : p # q /\ job[p].cmd \in Alone => Idle(q)

\* The record names the revs 0 .. n-1, each with its file, and at most the
\* slot n is taken besides.
HistoryOnDisk ==
    /\ \A i \in 1..Len(record.history) : record.history[i].rev = i - 1
    /\ \A m \in Revs : /\ m < Len(record.history) => files[m] # None
                       /\ m > Len(record.history) => files[m] = None

\* What a process has in memory is an earlier version of the record, with its
\* present group; a group change and a repair have the present record.
CopyTrails(p) ==
    /\ Len(copy[p].history) <= Len(record.history)
    /\ \A i \in 1..Len(copy[p].history) : copy[p].history[i] = record.history[i]
    /\ Present(copy[p]) => copy[p].group = record.group
    /\ pc[p] \in {"saveGroup", "list", "remove"} => copy[p] = record

\* Between its claim and its save a writer holds the slot after the latest
\* rev, alone, and what it is about to commit is new.
Writing(p) == pc[p] \in {"writeCurrent", "save"}

HoldsSlot(p) ==
    /\ pc[p] = "claim" /\ Present(copy[p]) => files[LatestRev(copy[p])] # job[p].content
    /\ Writing(p) =>
          /\ copy[p].history = record.history
          /\ files[Len(record.history)] = job[p].content
          /\ Present(record) => files[LatestRev(record)] # job[p].content

OneWriter == \A p, q \in Procs : Writing(p) /\ Writing(q) => p = q

\* A repair has listed only revs the record does not name.
SparesRecorded(p) == \A m \in doomed[p] : m >= Len(record.history)

ProcInv(p) == CopyTrails(p) /\ HoldsSlot(p) /\ SparesRecorded(p)

IInv ==
    /\ TypeOK /\ JobsFit /\ AloneRuns
    /\ HistoryOnDisk /\ OneWriter
    /\ \A p \in Procs : ProcInv(p)
=============================================================================
