-------------------------- MODULE SessionLifecycle --------------------------
(***************************************************************************)
(* The life of the session records kept by `tx`: one JSON file per tmux    *)
(* session (lib/tx/store.py), changed by short-lived `tx` processes that   *)
(* share nothing else: agent hooks (hooks.py), the reconcile sweep          *)
(* (reconcile.py) and user commands (service.py).  There is no daemon and   *)
(* no lock: a process loads a whole record, changes its copy and saves the  *)
(* whole record, so what a save overwrites is decided by the interleaving.  *)
(* One action is one file or tmux operation with the pure code around it.   *)
(***************************************************************************)
EXTENDS Naturals, FiniteSets

CONSTANTS
    Ids,          \* session uuids: record file name and tmux session name
    LlmIds,       \* the sessions whose role is llm (an LlmSession record)
    Established,  \* the sessions already spawned when the behaviour starts
    Names,        \* human display names
    ViewNames,    \* names held by live @tx_view sessions, which are no records
    Procs,        \* slots for concurrently running `tx` processes
    Commands,     \* the user commands a run issues
    Events,       \* the hook events agents fire
    MaxCommands,  \* BOUND: how many user commands are issued in a behaviour
    Crashes,      \* whether a process may die between two of its steps
    None

UserCommands == {"spawn", "kill", "archive", "rm", "label", "rename"}

\* "stop" stands for the yield notifications too, which have its effect.
HookEvents == {"session-start", "prompt-submit", "working", "stop", "session-end"}

ASSUME LifecycleAssumption ==
    /\ LlmIds \subseteq Ids
    /\ Established \subseteq Ids
    /\ ViewNames \subseteq Names
    /\ Commands \subseteq UserCommands
    /\ Events \subseteq HookEvents
    /\ MaxCommands \in Nat
    /\ Crashes \in BOOLEAN
    /\ None \notin Names \cup Ids

VARIABLES
    tmux,     \* id -> the tmux session named by it
    pane,     \* id -> what its pane runs, as pane_current_command tells
    store,    \* id -> the record file, NoRecord when there is none
    pc,       \* process -> its next step
    job,      \* process -> the command line it is executing
    copy,     \* process -> the record it has in memory
    scan,     \* process -> the list-sessions answer of its sweep
    batch,    \* process -> the records its sweep has still to look at
    budget    \* user commands still to come

local == <<pc, job, copy, scan, batch>>
vars  == <<tmux, pane, store, local, budget>>

-----------------------------------------------------------------------------
(* Records.                                                                *)

LiveStates     == {"idle", "working", "waiting", "alive"}
TerminalStates == {"exited", "archived"}

\* A deleted or never written file is the record whose state is "absent".
Record == [state: LiveStates \cup TerminalStates \cup {"absent"},
           ended: BOOLEAN,                          \* ended_at is set
           turn:  {"unarmed", "fresh", "old"},      \* age of turn_started_at
           chat:  {"none", "pending", "bound"},     \* the latest ChatRef
           name:  Names \cup {None}]

NoRecord == [state |-> "absent", ended |-> FALSE, turn |-> "unarmed",
             chat |-> "none", name |-> None]

Present(r)  == r.state # "absent"
IsAlive(r)  == r.state \in LiveStates

InitialFor(id) == IF id \in LlmIds THEN "idle" ELSE "alive"

ValidFor(id) == TerminalStates \cup
                (IF id \in LlmIds THEN {"idle", "working", "waiting"} ELSE {"alive"})

\* A plain llm spawn records a pending chat; a chat operation records its own.
NewRecord(id, n, c) == [state |-> InitialFor(id), ended |-> FALSE,
                        turn |-> "unarmed", chat |-> c, name |-> n]

ChatsAtSpawn(id) == IF id \in LlmIds THEN {"pending", "none"} ELSE {"none"}

\* A slip: the terminal states are not absorbing.
CanTransitionFromAny(r, s) == Present(r) /\ s # r.state

\* The guard of Session.transition_to: a real change, out of a live state.
CanTransition(r, s) == IsAlive(r) /\ s # r.state

\* kill, archive and the sweep stamp the end together with the state.
Ended(r, s) == IF CanTransition(r, s)
               THEN [r EXCEPT !.state = s, !.ended = TRUE]
               ELSE r

\* A slip: a turn start leaves the stuck-turn clock alone.
AppliedWithoutClock(r, s) == [r EXCEPT !.state = s,
                                       !.ended = @ \/ s \in TerminalStates]

\* record_state: a turn start also arms the stuck-turn clock.
Applied(r, s) == [r EXCEPT !.state = s,
                           !.turn  = IF s = "working" THEN "fresh" ELSE @,
                           !.ended = @ \/ s \in TerminalStates]

\* The stuck threshold passes for every clock armed so far.
Aged(r) == [r EXCEPT !.turn = IF @ = "fresh" THEN "old" ELSE @]

-----------------------------------------------------------------------------
(* Processes.                                                              *)

CapturesChat(ev) == ev \in {"session-start", "prompt-submit"}

StateForEvent(ev) ==
    CASE ev \in {"prompt-submit", "working"}  -> "working"
      [] ev = "stop"                          -> "waiting"
      [] ev = "session-end"                   -> "idle"
      [] OTHER                                -> "none"

Steps == {"idle", "hookLoad", "hookCapture", "hookState", "hookSave",
          "scan", "read", "sweep", "nameCheck", "newSession", "setTxId",
          "spawnSave", "load", "killTmux", "write", "delete"}

Job == [cmd:  UserCommands \cup {"none", "hook", "reconcile"},
        id:   Ids \cup {None},
        ev:   HookEvents \cup {"none"},
        name: Names \cup {None}]

NoJob     == [cmd |-> "none", id |-> None, ev |-> "none", name |-> None]
EmptyScan == [live |-> {}, agents |-> {}]
NoBatch   == [id \in Ids |-> NoRecord]

Goto(p, step) == pc' = [pc EXCEPT ![p] = step]

\* The process exits, by returning, by raising or by dying.
Finish(p) ==
    /\ Goto(p, "idle")
    /\ job'   = [job EXCEPT ![p] = NoJob]
    /\ copy'  = [copy EXCEPT ![p] = NoRecord]
    /\ scan'  = [scan EXCEPT ![p] = EmptyScan]
    /\ batch' = [batch EXCEPT ![p] = NoBatch]

Save(id, r) == store' = [store EXCEPT ![id] = r]

Begin(p, j, step) ==
    /\ pc[p] = "idle"
    /\ job' = [job EXCEPT ![p] = j]
    /\ Goto(p, step)
    /\ UNCHANGED <<tmux, pane, store, copy, scan, batch>>

-----------------------------------------------------------------------------
(* tmux, the panes and time.                                               *)

\* A tmux session ends: its pane exits, the user closes it, the server dies.
SessionEnds(id) ==
    /\ tmux[id] \in {"untagged", "live"}
    /\ tmux' = [tmux EXCEPT ![id] = "dead"]
    /\ UNCHANGED <<pane, store, local, budget>>

\* The agent crashes or is quit under a pane that stays open.
AgentExits(id) ==
    /\ id \in LlmIds
    /\ tmux[id] \in {"untagged", "live"}
    /\ pane[id] = "agent"
    /\ pane' = [pane EXCEPT ![id] = "shell"]
    /\ UNCHANGED <<tmux, store, local, budget>>

\* stuck_working_threshold_seconds pass.
Elapse ==
    /\ store' = [id \in Ids |-> Aged(store[id])]
    /\ copy'  = [p \in Procs |-> Aged(copy[p])]
    /\ batch' = [p \in Procs |-> [id \in Ids |-> Aged(batch[p][id])]]
    /\ UNCHANGED <<tmux, pane, pc, job, scan, budget>>

-----------------------------------------------------------------------------
(* Agent hooks: `tx hook <event>`, a process of its own that may outlive   *)
(* the session that fired it.                                              *)

StartHook(p, id, ev) ==
    /\ tmux[id] \in {"untagged", "live"}
    /\ id \in LlmIds => pane[id] = "agent"
    /\ Begin(p, [NoJob EXCEPT !.cmd = "hook", !.id = id, !.ev = ev], "hookLoad")
    /\ UNCHANGED budget

\* dispatch loads the record and goes on only with an LlmSession.
HookLoad(p) ==
    LET id == job[p].id IN
    /\ pc[p] = "hookLoad"
    /\ \/ /\ Present(store[id]) /\ id \in LlmIds
          /\ copy' = [copy EXCEPT ![p] = store[id]]
          /\ Goto(p, IF CapturesChat(job[p].ev) THEN "hookCapture" ELSE "hookState")
          /\ UNCHANGED <<job, scan, batch>>
       \/ /\ ~(Present(store[id]) /\ id \in LlmIds)
          /\ Finish(p)
    /\ UNCHANGED <<tmux, pane, store, budget>>

\* A pending ChatRef is completed in the copy dispatch loaded, and that copy
\* is saved; a re-fired, malformed, not-ready or foreign payload is skipped.
HookCapture(p) ==
    /\ pc[p] = "hookCapture"
    /\ \/ /\ copy[p].chat = "pending"
          /\ copy' = [copy EXCEPT ![p].chat = "bound"]
          /\ Save(job[p].id, [copy[p] EXCEPT !.chat = "bound"])
       \/ UNCHANGED <<copy, store>>
    /\ Goto(p, "hookState")
    /\ UNCHANGED <<tmux, pane, job, scan, batch, budget>>

\* A slip: an event without a state goes on to record_state.
DrivesAlways(r, s) == Present(r) /\ CanTransition(r, s)

\* The event has a state, and the record exists and can make the transition.
Drives(r, s) == s # "none" /\ Present(r) /\ CanTransition(r, s)

\* record_state loads the record again and refuses a void transition.
HookState(p) ==
    LET r == store[job[p].id]
        s == StateForEvent(job[p].ev)
    IN
    /\ pc[p] = "hookState"
    /\ \/ /\ Drives(r, s)
          /\ copy' = [copy EXCEPT ![p] = Applied(r, s)]
          /\ Goto(p, "hookSave")
          /\ UNCHANGED <<job, scan, batch>>
       \/ /\ ~Drives(r, s)
          /\ Finish(p)
    /\ UNCHANGED <<tmux, pane, store, budget>>

HookSave(p) ==
    /\ pc[p] = "hookSave"
    /\ Save(job[p].id, copy[p])
    /\ Finish(p)
    /\ UNCHANGED <<tmux, pane, budget>>

-----------------------------------------------------------------------------
(* The reconcile sweep, run by every read and by the session-closed hook,  *)
(* and as the first half of the display-name check.                        *)

StartReconcile(p) ==
    /\ Begin(p, [NoJob EXCEPT !.cmd = "reconcile"], "scan")
    /\ UNCHANGED budget

\* One list-sessions: the tagged sessions, and those whose pane is an agent.
Scan(p) ==
    LET live == {id \in Ids : tmux[id] = "live"} IN
    /\ pc[p] = "scan"
    /\ scan' = [scan EXCEPT ![p] =
                   [live |-> live, agents |-> {id \in live : pane[id] = "agent"}]]
    /\ Goto(p, "read")
    /\ UNCHANGED <<tmux, pane, store, job, copy, batch, budget>>

\* store.all(): every record is in memory before the first one is handled.
ReadAll(p) ==
    /\ pc[p] = "read"
    /\ batch' = [batch EXCEPT ![p] = store]
    /\ Goto(p, "sweep")
    /\ UNCHANGED <<tmux, pane, store, job, copy, scan, budget>>

\* A working turn whose clock ran out and whose pane has no agent any more.
IsStuck(p, id) ==
    /\ id \in LlmIds
    /\ batch[p][id].state = "working"
    /\ batch[p][id].turn = "old"
    /\ id \notin scan[p].agents

\* A slip: a session counts as live only while its pane runs an agent.
SweptByPane(p, id) ==
    IF id \notin scan[p].agents THEN Ended(batch[p][id], "exited") ELSE batch[p][id]

\* A slip: a session that waits for its user counts as live.
SweptSparingWaiting(p, id) ==
    IF id \notin scan[p].live /\ batch[p][id].state # "waiting"
    THEN Ended(batch[p][id], "exited")
    ELSE IF IsStuck(p, id) THEN [batch[p][id] EXCEPT !.state = "idle"]
    ELSE batch[p][id]

\* What the sweep makes of one record it read.
Swept(p, id) ==
    IF id \notin scan[p].live THEN Ended(batch[p][id], "exited")
    ELSE IF IsStuck(p, id) THEN [batch[p][id] EXCEPT !.state = "idle"]
    ELSE batch[p][id]

\* One record of the batch: saved only when the sweep changes it.
SweepOne(p, id) ==
    /\ pc[p] = "sweep"
    /\ Present(batch[p][id])
    /\ IF Swept(p, id) # batch[p][id]
       THEN Save(id, Swept(p, id))
       ELSE UNCHANGED store
    /\ batch' = [batch EXCEPT ![p][id] = NoRecord]
    /\ UNCHANGED <<tmux, pane, pc, job, copy, scan, budget>>

\* The batch is done: a plain sweep exits, a name check goes on.
SweepEnds(p) ==
    /\ pc[p] = "sweep"
    /\ \A id \in Ids : ~Present(batch[p][id])
    /\ \/ /\ job[p].cmd = "reconcile"
          /\ Finish(p)
       \/ /\ job[p].cmd \in {"spawn", "rename"}
          /\ Goto(p, "nameCheck")
          /\ scan' = [scan EXCEPT ![p] = EmptyScan]
          /\ UNCHANGED <<job, copy, batch>>
    /\ UNCHANGED <<tmux, pane, store, budget>>

\* A slip: only views are asked for the name.
NameFreeOfViews(n) == n \notin ViewNames

\* Second half of _require_name_free, on a fresh store.all().
NameFree(n) ==
    /\ \A id \in Ids : ~(IsAlive(store[id]) /\ store[id].name = n)
    /\ n \notin ViewNames

NameCheck(p) ==
    /\ pc[p] = "nameCheck"
    /\ \/ /\ NameFree(job[p].name)
          /\ Goto(p, IF job[p].cmd = "spawn" THEN "newSession" ELSE "write")
          /\ UNCHANGED <<job, copy, scan, batch>>
       \/ /\ ~NameFree(job[p].name)
          /\ Finish(p)
    /\ UNCHANGED <<tmux, pane, store, budget>>

-----------------------------------------------------------------------------
(* User commands.                                                          *)

Issue(p, cmd, id, n, step) ==
    /\ cmd \in Commands
    /\ budget > 0
    /\ budget' = budget - 1
    /\ Begin(p, [NoJob EXCEPT !.cmd = cmd, !.id = id, !.name = n], step)

\* spawn: a fresh uuid, the name check, then tmux, the tag and the record.
StartSpawn(p, id, n) ==
    /\ tmux[id] = "unborn"
    /\ \A q \in Procs : job[q].cmd = "spawn" => job[q].id # id
    /\ Issue(p, "spawn", id, n, "scan")

NewSession(p) ==
    LET id == job[p].id IN
    /\ pc[p] = "newSession"
    /\ tmux' = [tmux EXCEPT ![id] = "untagged"]
    /\ pane' = [pane EXCEPT ![id] = IF id \in LlmIds THEN "agent" ELSE "shell"]
    /\ Goto(p, "setTxId")
    /\ UNCHANGED <<store, job, copy, scan, batch, budget>>

\* Tagging a session that has already ended raises, and no record is written.
SetTxId(p) ==
    LET id == job[p].id IN
    /\ pc[p] = "setTxId"
    /\ \/ /\ tmux[id] = "untagged"
          /\ tmux' = [tmux EXCEPT ![id] = "live"]
          /\ Goto(p, "spawnSave")
          /\ UNCHANGED <<job, copy, scan, batch>>
       \/ /\ tmux[id] = "dead"
          /\ Finish(p)
          /\ UNCHANGED tmux
    /\ UNCHANGED <<pane, store, budget>>

SpawnSave(p) ==
    /\ pc[p] = "spawnSave"
    /\ \E c \in ChatsAtSpawn(job[p].id) :
          Save(job[p].id, NewRecord(job[p].id, job[p].name, c))
    /\ Finish(p)
    /\ UNCHANGED <<tmux, pane, budget>>

\* Every other command resolves its target to a record first.  "label" is
\* tag, set_group and bind_artifact: they save the record they loaded with
\* a field no other code here depends on.
StartCommand(p, cmd, id) ==
    /\ cmd \in {"kill", "archive", "rm", "label"}
    /\ Issue(p, cmd, id, None, "load")

StartRename(p, id, n) == Issue(p, "rename", id, n, "load")

AfterLoad(cmd) ==
    CASE cmd = "kill"                 -> "killTmux"
      [] cmd = "rm"                   -> "delete"
      [] cmd = "rename"               -> "scan"
      [] OTHER                        -> "write"

\* _require / _resolve: no record raises; a rename to the same name returns.
Load(p) ==
    LET r == store[job[p].id] IN
    /\ pc[p] = "load"
    /\ \/ /\ Present(r)
          /\ job[p].cmd = "rename" => job[p].name # r.name
          /\ copy' = [copy EXCEPT ![p] = r]
          /\ Goto(p, AfterLoad(job[p].cmd))
          /\ UNCHANGED <<job, scan, batch>>
       \/ /\ \/ ~Present(r)
             \/ job[p].cmd = "rename" /\ job[p].name = r.name
          /\ Finish(p)
    /\ UNCHANGED <<tmux, pane, store, budget>>

KillTmux(p) ==
    LET id == job[p].id IN
    /\ pc[p] = "killTmux"
    /\ tmux' = [tmux EXCEPT ![id] = IF @ \in {"untagged", "live"} THEN "dead" ELSE @]
    /\ Goto(p, "write")
    /\ UNCHANGED <<pane, store, job, copy, scan, batch, budget>>

\* What the command writes back: always a whole record, always its own copy.
Written(p) ==
    CASE job[p].cmd = "kill"    -> Ended(copy[p], "exited")
      [] job[p].cmd = "archive" -> Ended(copy[p], "archived")
      [] job[p].cmd = "rename"  -> [copy[p] EXCEPT !.name = job[p].name]
      [] OTHER                  -> copy[p]

Write(p) ==
    /\ pc[p] = "write"
    /\ Save(job[p].id, Written(p))
    /\ Finish(p)
    /\ UNCHANGED <<tmux, pane, budget>>

Delete(p) ==
    /\ pc[p] = "delete"
    /\ Save(job[p].id, NoRecord)
    /\ Finish(p)
    /\ UNCHANGED <<tmux, pane, budget>>

\* A `tx` process is killed (Ctrl-C, its pane or popup closes, power loss).
Crash(p) ==
    /\ Crashes
    /\ pc[p] # "idle"
    /\ Finish(p)
    /\ UNCHANGED <<tmux, pane, store, budget>>

-----------------------------------------------------------------------------
(* The specification.                                                      *)

Init ==
    /\ tmux = [id \in Ids |-> IF id \in Established THEN "live" ELSE "unborn"]
    /\ pane = [id \in Ids |-> IF id \in Established \cap LlmIds THEN "agent" ELSE "shell"]
    /\ \E n \in [Established -> Names], c \in [Established -> {"none", "pending"}] :
          /\ \A i, j \in Established : n[i] = n[j] => i = j
          /\ \A i \in Established : c[i] \in ChatsAtSpawn(i)
          /\ store = [id \in Ids |-> IF id \in Established
                                     THEN NewRecord(id, n[id], c[id])
                                     ELSE NoRecord]
    /\ pc = [p \in Procs |-> "idle"]
    /\ job = [p \in Procs |-> NoJob]
    /\ copy = [p \in Procs |-> NoRecord]
    /\ scan = [p \in Procs |-> EmptyScan]
    /\ batch = [p \in Procs |-> NoBatch]
    /\ budget = MaxCommands

Start(p) ==
    \/ StartReconcile(p)
    \/ \E id \in Ids :
          \/ \E ev \in Events : StartHook(p, id, ev)
          \/ \E cmd \in UserCommands : StartCommand(p, cmd, id)
          \/ \E n \in Names : StartSpawn(p, id, n) \/ StartRename(p, id, n)

Step(p) ==
    \/ HookLoad(p) \/ HookCapture(p) \/ HookState(p) \/ HookSave(p)
    \/ Scan(p) \/ ReadAll(p) \/ SweepEnds(p) \/ NameCheck(p)
    \/ \E id \in Ids : SweepOne(p, id)
    \/ NewSession(p) \/ SetTxId(p) \/ SpawnSave(p)
    \/ Load(p) \/ KillTmux(p) \/ Write(p) \/ Delete(p)

Environment ==
    \/ \E id \in Ids : SessionEnds(id) \/ AgentExits(id)
    \/ Elapse

Next ==
    \/ \E p \in Procs : Start(p) \/ Step(p) \/ Crash(p)
    \/ Environment

Spec == Init /\ [][Next]_vars

\* The scheduler runs every process it started, time passes, and a sweep is
\* started again and again: the picker reloads about once a second and every
\* session close runs one, each in a process of its own, so the slots the
\* other processes compete for must not starve it (strong fairness).
Fairness ==
    /\ \A p \in Procs : WF_vars(Step(p)) /\ SF_vars(StartReconcile(p))
    /\ WF_vars(Elapse)

FairSpec == Spec /\ Fairness

-----------------------------------------------------------------------------
(* Properties.                                                             *)

TypeOK ==
    /\ tmux \in [Ids -> {"unborn", "untagged", "live", "dead"}]
    /\ pane \in [Ids -> {"agent", "shell"}]
    /\ store \in [Ids -> Record]
    /\ pc \in [Procs -> Steps]
    /\ job \in [Procs -> Job]
    /\ copy \in [Procs -> Record]
    /\ scan \in [Procs -> [live: SUBSET Ids, agents: SUBSET Ids]]
    /\ batch \in [Procs -> [Ids -> Record]]
    /\ budget \in Nat

\* A record is coherent for the session it belongs to: its state fits the
\* role, ended_at is set exactly in the terminal states, and a working turn
\* has its clock armed (without one the stuck-turn sweep skips it forever).
Coherent(id, r) ==
    Present(r) => /\ r.state \in ValidFor(id)
                  /\ r.ended <=> r.state \in TerminalStates
                  /\ r.state = "working" => r.turn # "unarmed"

\* A process never mistakes what it is doing: the step it is at fits the
\* command it runs, and a command that needs a session or a name has one.
JobFits(p) ==
    LET cmd == job[p].cmd IN
    /\ cmd \in UserCommands \cup {"hook"} => job[p].id \in Ids
    /\ cmd \in {"spawn", "rename"} => job[p].name \in Names
    /\ cmd = "spawn" => job[p].id \notin Established
    /\ pc[p] = "idle" => job[p] = NoJob
    /\ pc[p] \in {"idle", "hookLoad", "load"} => copy[p] = NoRecord
    /\ pc[p] = "hookLoad" => cmd = "hook"
    /\ pc[p] \in {"hookCapture", "hookState", "hookSave"} =>
          cmd = "hook" /\ job[p].id \in LlmIds
    /\ pc[p] \in {"scan", "read", "sweep"} => cmd \in {"reconcile", "spawn", "rename"}
    /\ pc[p] = "nameCheck" => cmd \in {"spawn", "rename"}
    /\ pc[p] \in {"newSession", "setTxId", "spawnSave"} => cmd = "spawn"
    /\ pc[p] = "load" => cmd \in {"kill", "archive", "rm", "label", "rename"}
    /\ pc[p] = "killTmux" => cmd = "kill"
    /\ pc[p] = "write" => cmd \in {"kill", "archive", "label", "rename"}
    /\ pc[p] = "delete" => cmd = "rm"

JobsFit == \A p \in Procs : JobFits(p)

\* However the loads and saves of hooks, sweeps and commands interleave,
\* every record file is coherent: three fields that four handlers write at
\* different times never disagree.
StoreCoherent == \A id \in Ids : Coherent(id, store[id])

\* Its inductive form: the copies in flight are as coherent as the files.
CopiesCoherent ==
    /\ StoreCoherent
    /\ \A p \in Procs : /\ Coherent(job[p].id, copy[p])
                        /\ \A id \in Ids : Coherent(id, batch[p][id])

\* A session that was fully spawned before the sweeps around it began is
\* never recorded as exited while tmux still runs it, whatever the processes
\* do concurrently (reconcile.py: only vanished sessions are stamped).
EstablishedExitIsReal ==
    \A id \in Established : store[id].state = "exited" => tmux[id] = "dead"

\* Its inductive form: no copy, no sweep and no kill in flight believes an
\* established session ended while tmux runs it.
EstablishedInv ==
    \A id \in Established :
        /\ tmux[id] \in {"live", "dead"}
        /\ tmux[id] = "live" =>
              /\ store[id].state # "exited"
              /\ \A p \in Procs :
                    /\ batch[p][id].state # "exited"
                    /\ job[p].id = id => copy[p].state # "exited"
                    /\ pc[p] \in {"read", "sweep"} => id \in scan[p].live
                    /\ ~(pc[p] = "write" /\ job[p].cmd = "kill" /\ job[p].id = id)

\* The same of every session, those being spawned included: the claim of
\* service.py that the sweeps "stamp only genuinely-vanished records".
ExitIsReal ==
    \A id \in Ids : store[id].state = "exited" => tmux[id] = "dead"

\* At most one live record holds a display name (service.py: live human-name
\* uniqueness is enforced against the store).
LiveNamesUnique ==
    \A i, j \in Ids :
        IsAlive(store[i]) /\ IsAlive(store[j]) /\ store[i].name = store[j].name => i = j

\* Terminal states are absorbing: a record that has ended never becomes live
\* again (the docstring of Session.transition_to).
TerminalAbsorbing ==
    [][\A id \in Ids : store[id].state \in TerminalStates => ~IsAlive(store'[id])]_vars

\* The store as its readers see it.
Registry == INSTANCE SessionRegistry WITH
    entry <- [id \in Ids |-> [state |-> store[id].state, name |-> store[id].name]],
    gone  <- {id \in Ids : tmux[id] = "dead"}

\* One `tx` process at a time implements the atomic registry: sessions and
\* agents may come and go at any moment and the process may die between any
\* two steps, and still every change a reader sees is an edge of the registry.
ImplementsRegistry == Registry!RegistrySpec

\* Without a daemon the store still converges: once the user stops issuing
\* commands, the record of every session that has ended is terminal (or
\* gone) for good, although late hooks and stale saves may revive it on the
\* way.
EndedSessionsSettle ==
    <>[](\A id \in Ids : tmux[id] = "dead" => ~IsAlive(store[id]))

\* A turn whose agent has left the pane does not stay "working": the sweep
\* demotes the record, or the session ends.
StuckTurnsEnd ==
    \A id \in Ids :
        (tmux[id] = "live" /\ pane[id] = "shell" /\ store[id].state = "working")
            ~> (tmux[id] = "dead" \/ store[id].state # "working")

\* As long as one `tx` process runs at a time, the store never says what is not so:
\* no two live records are called alike and no running session is recorded exited.
RecordsAreReal == LiveNamesUnique /\ ExitIsReal

\* However late the last hooks and saves come, a quiet store settles: ended sessions
\* stay ended in it and abandoned turns are demoted (service.py, reconcile.py).
StoreSettles == EndedSessionsSettle /\ StuckTurnsEnd
=============================================================================
