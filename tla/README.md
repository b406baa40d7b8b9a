# Specifications of tx-ide

`tx` is a command-line program that turns tmux into a workspace for coding agents. It
runs agents and editors in tmux sessions, keeps a JSON record of each, follows what the
agents do through their hooks, forks and rolls over their conversations, archives their
transcripts, and stores versioned artifacts they produce.

There is no daemon. All state is in files under `$TX_IDE_HOME` and in the tmux server,
and it is changed by many short-lived `tx` processes: agent hooks, the sweep that the
session picker starts about once a second, detached watchdogs, and commands of users and
agents. Almost nothing is locked. What makes the program hard is therefore not any one
function but the interleaving of their loads and saves, and processes that die in
between. That is what these modules are about: **one action is one file or tmux
operation**, together with the pure code around it, and any number of processes take
such steps in any order.

Paths below are relative to `src/lib/tx/` unless they say otherwise.

## Inventory

### Session records
*`store.py`, `session.py`, `service.py`, `hooks.py`, `reconcile.py`*

- **State.** One file `sessions/<uuid>.json` per session: role, name, tags, group, a state
  (`idle`, `working`, `waiting`, `alive`; terminal `exited`, `archived`), `ended_at`, the
  clock of the current turn, the list of chats. Beside it, the tmux session of that uuid
  and the command its pane runs.
- **Operations.** spawn, kill, archive, rm, tag, group, bind artifact, rename; a hook per
  agent event (`record_state`, chat capture); reconcile (list the tmux sessions, read all
  records, stamp the vanished ones `exited`, demote stuck turns).
- **Interaction.** Every save replaces the whole record with the process's copy. Spawn and
  rename call reconcile inside their name check. Kill ends a session, whose closing makes
  tmux start another reconcile.
- **Hard.** Lost updates between hooks, sweeps and commands; decisions on stale copies; a
  name checked long before it is taken; death between tmux and file operations.
- **Correct when.** A record never contradicts itself; `exited` is recorded of ended
  sessions only, and of all of them in the end; a terminal record stays terminal; live
  names are unique; an abandoned turn does not stay `working`.

### Artifacts
*`artifact.py`, `artifact_store.py`, `artifact_service.py`*

- **State.** Per artifact the record `<id>.json` (history of touches, group), immutable
  files `revs/<n>`, the working copy `current`, and lines in the event log.
- **Operations.** create, modify, snapshot of the working copy, group, repair of orphans;
  reads, diff and doctor change nothing.
- **Hard.** Concurrent modifies whose only serialization is the exclusive creation of
  `revs/<n>`; a crash after the claim; repair beside a live modify; the group change,
  which saves a whole record.
- **Correct when.** The artifact is an append-only log of revisions, each with its file.

### Chat operations
*`chat.py`*

- **State.** `chat-ops/<op>/spec.json`, a `claim` directory, a `done` file; a distiller
  session; the brief or note it writes; the pending chat reference of the successor.
- **Operations.** fork, handover, rollover; the finish, called by the distiller and by the
  watchdog; the watchdog's wait, grace, finish, wait and teardown.
- **Hard.** Two finishers, timeouts against slow work, a finisher that dies with the
  claim, teardown by name, two operations on one session.
- **Correct when.** The continuation is started at most once, and once if anyone survives;
  nothing is torn down under a running finish.

### Chat capture
*`hooks.py`, `cli.py`, `chat.py`*

- **State.** A pending reference in a record, filled with the chat id of the first hook
  payload that fits.
- **Hard.** Hooks that come before the reference is recorded; whole-record saves that lose
  it; one chat id offered to two sessions.
- **Correct when.** A chat belongs to one session, and every session's chat is captured.

### History ingest
*`history.py`*

- **State.** A bundle per chat, a lock file, the source transcript written by the agent.
- **Operations.** Blocking and coalescing mirrors; append past the mirrored length, or copy
  anew when the tail differs; sidecar files copied when absent.
- **Correct when.** The mirror is a prefix of the transcript and catches up with it.

### The other parts

| Part | State and operations | Hard | Correct when |
|---|---|---|---|
| Sync (`sync.py`, `storage.py`) | push and pull of records, bundles and log against a remote, key by key | equal clocks; local writers meanwhile; a put that dies | a newer record is never overwritten by an older one; a sync that ends has brought everything over |
| Effort groups (`grouping.py`) | own override, parents, bound artifact, first tag, name, resolved at every read | names that are reused; records without parents; cycles | the answer changes only for whom an edit is meant |
| Worker spawn (`worktree.py`, `spawn.py`, `service.py:94`, `read_only.py`) | a name free in records and worktrees; worktree, access, session, record; clean-up | allocation races, failure half-way, resumes | one agent per checkout, no checkout lost or removed under its agent |
| Read-only workers (`read_only.py`) | the directories a sandbox denies, fixed at the start | worktrees that come later | the repository is denied, nothing else is |
| Launch (`engines/`, `service.py`, `cli.py:533`) | the recorded command, from which resume, fork, handover and rollover derive the next | flags that are inherited, replaced or stripped, in three grammars | settings are inherited; chat, prompt, access and directory are its own |
| Grants (`skills.py`, `roles.py`, `prepare_workspace`) | links to skills and agy's rules in a checkout, `info/exclude`, agy's trust list | launches that die or race on shared files | what a launch adds is current and hidden; others' lines survive |
| Migrations (`migrations/`) | records rewritten one by one, views marked instead | hooks meanwhile, errors, death | a rerun completes it and undoes nothing |
| Codex update (`engines/codex_update.py`) | the log file as lock and as clock | parent and child share the lock | one installer, one check per interval |
| Messages (`service.py:531`, `messages.py`) | text, pause, Enter into a pane; the stream read back from transcripts | two typists; mirrors and forks that repeat turns | each message arrives alone, and is in the stream once |
| Attachment topology, picker (`tmux.py`, `cli.py`) | which client shows which session; pick, jump, focus | several tmux calls per operation | the terminal shows what was chosen |
| Sessions graph (`prototypes/sessions-graph`) | a poll loop, pokes, a queue per tab; the usage strip | threads; change detectors read before the data | a tab that stays open catches up |
| Remote control (`prototypes/remote-control`) | dialogs answered from a phone; pages of earlier dialogue | a page that is behind; pushes between pages | keys reach the dialog that was shown; nothing shown twice or skipped |
| Artifact browser (`prototypes/artifact-browser`) | caches over growing transcripts; lanes of a timeline | threads; half lines; replaced files | a cached answer is that of a fresh read |
| Event log (`events.py`) | one `O_APPEND` write per line, cut to `PIPE_BUF` | cut before escaping | no line exceeds the bound |

The remaining parts (rendering, argument parsing, tmux and shell configuration, installers,
the Neovim configuration, the mailbox experiment, the port tests) are pure string
building, pure I/O or configuration. `PROJECT.json` lists each with its status and reason,
and under `hazards` what is hard to test in all of them.

## What is modelled

| Module | Role |
|---|---|
| `SessionLifecycle` | session records, their tmux sessions and every process that changes them |
| `SessionRegistry` | abstract: the registry the store promises its readers, atomic changes only |
| `ArtifactService` | one artifact: its files and every process that changes them |
| `ArtifactLog` | abstract: an append-only log of revisions with a group label |
| `ChatOps` | handover and rollover: command, distiller, finish, watchdog, teardown |
| `ChatCapture` | the chats of a record: pending references and the hooks that fill them |
| `HistoryIngest` | the mirror of a chat and its ingests |
| `HomeMigration` | `tx migrate` beside hooks and views |
| `CodexUpdate` | the check for a new Codex at a launch |
| `HomeSync` | `tx sync push` and `pull` between homes and a remote |
| `WorkerSpawn` | names, worktrees, sessions and records of workers |
| `ReadOnlySandbox` | what a read-only worker may not write to |
| `LaunchCommands` | the command of an agent along a chain of operations |
| `WorkspaceGrants` | skills, rules and exclude lines of a checkout |
| `EffortGroups` | the group a session or an artifact belongs to |
| `AttachTopology` | picks, jumps and the ring over views, agents and terminals |
| `MessageFeed` | messages typed into panes, and the stream read back |
| `FeedHub`, `UsageFeed` | the live dashboard: its threads and tabs, its usage strip |
| `DialogAnswer`, `ThreadPages` | the phone: answers to dialogs, pages of dialogue |
| `TranscriptCache`, `TimelineLanes`, `TailStamp` | the browser: rows, lanes, last times |
| `SessionLifecycleProofs`, `ArtifactServiceProofs`, `ChatOpsProofs` | theorems about the module they are named after |
| `WorkspaceProofs` | theorems about `WorkerSpawn`, `HomeSync`, `ChatCapture`, `AttachTopology`, and the types of `MCWorkspace` |
| `ConversationProofs` | theorems about `TailStamp`, `TranscriptCache`, `DialogAnswer`, `MessageFeed`, `ThreadPages`, `TimelineLanes`, and the types of `MCConversation` |
| `HomeProofs` | theorems about `CodexUpdate`, `HomeMigration`, `EffortGroups`, `UsageFeed`, `FeedHub`, and the types of `MCHome` |
| `CommandsProofs` | theorems about `LaunchCommands`, `WorkspaceGrants`, `ReadOnlySandbox`, `HistoryIngest`, and the types of `MCCommands` |
| `NumberLemmas` | a set of numbers has a least and a greatest one; induction for what a set can say |
| `MCSessionLifecycle`, `MCArtifactService`, `MCChatOps` | instances for TLC of one component |
| `MCHome`, `MCWorkspace`, `MCConversation`, `MCCommands` | instances of several: a behaviour is one of a single component, which `part` names |
| `Null` | the constant `None`, shared by the modules those instances combine |

Components that share files are one module. Where two of them meet in less, the one is in
the other as far as it matters there: session records appear in `ChatCapture` as their
chat lists, in `WorkerSpawn` as name, worktree and state, in `EffortGroups` as labels and
parents; a launch is one step of `ChatOps` and is spelled out in `WorkerSpawn`,
`WorkspaceGrants` and `LaunchCommands`. The instances that combine components do so to
run them together, not to let them interact: every step is of the part that was chosen.

### SessionLifecycle

`tmux` and `pane` are the tmux server, `store` the record files. A process `p` has a
program counter `pc[p]`, the command it runs `job[p]`, the record in its memory
`copy[p]`, and during a sweep the answer of `list-sessions` (`scan[p]`) and the records
read (`batch[p]`). Process slots are reused, so the number of processes over time is not
bounded.

- *Hooks:* `StartHook`, `HookLoad`, `HookCapture`, `HookState`, `HookSave` follow
  `dispatch`. The capture works on the copy loaded first; `record_state` loads again.
- *Sweep:* `Scan`, `ReadAll`, `SweepOne` per record, `SweepEnds`. The same steps are the
  first half of the name check of spawn and rename; `NameCheck` is the second.
- *Commands:* `Load`, then `KillTmux`, `Write` or `Delete`. `label` stands for tag, group
  and bind artifact, which save the record they loaded with a field nothing here reads.
- *Environment:* sessions end, agents leave their pane, time passes, processes die.

Abstractions. `turn_started_at` is unset, fresh or older than the stuck threshold, and
`Elapse` ages every clock, those in memory included. Chats are none, pending or
bound. The notifications that mean "the agent waits" act as `stop` does. Reading
all records is one step, listing the tmux sessions never fails, and the display-only
snapshots (`attached_to`, `last_activity`), the fallback of kill to views and the sweep
of launch scripts are left out.

### ArtifactService

`record`, `files`, `current` and `log` are the files of one artifact; artifacts share no
file, so one stands for all. `copy[p]` is the record a process loaded; `doomed[p]` what
its repair still has to remove. `modify` is `Load`, `Compare` (identical content is a
no-op), `Claim` (the exclusive creation of the next rev file, or failure),
`WriteCurrent`, `Save`, `AppendLog`; `snapshot` adds `ReadCurrent`; `create` starts at
`Claim` with the record in memory. `StartSetGroup`, `SaveGroup` and `StartRepair`,
`ListOrphans`, `RemoveRev`, `RepairEnds` are the other two commands. The user may save the
working copy, and a process may die, at any moment.

Abstractions. The staging file of an atomic write, titles, file names and times are left
out, the event log is the set of revisions that have a create or modify line (the line of
a group change is left out), and reads are left out.

The constant `Alone` names the commands that run only while nothing else does. The
docstring of `repair_orphans` asks for that ("run it when QUIESCENT"). The group change
needs it too, though no document says so: that is the finding of run `stale_group`.

### ChatOps

`entries[op]` is the operation's directory, `brief` the briefs and notes by path,
`distiller[op]` the helper session. `pc[op]` has the three processes of an operation: the
command that starts it (`StartOp`, `SpawnDistiller`, `DetachWatch`, and without a distiller
the finish itself), the finish the distiller runs (`tool`), and the watchdog (`PollEnds`,
`GraceEnds`, `Ensure`, `AwaitEnds`, `KillDistiller`). The finish is `LoadSpec`,
`CheckDone`, `Claim`, `LoadSource`, `Launch`, `Link`, `WriteDone` for each of them. The
teardown's `rmtree` lists the directory, removes its entries one by one and the directory
last. `WriteBrief`, `StartTool` and `DistillerDies` let the distiller write its brief, run
the finish and end at any time, in any order, or never.

Constants say what the world may do. `Prompt`: a live finish ends within the watchdog's
twenty seconds of waiting. `DiesInFinish`: a distiller may end while its finish holds the
claim. `ToolsSurvive`: such a finish outlives its distiller. `FreshPaths`: no two operations
write to one brief.

Abstractions. `launched` counts worker spawns and pane respawns alike. Left out: the text
the continuation starts with, the watchdog's reading of the spec at its start (nothing can
have removed it), the second save of the spec when the distiller got another name, and the
removal of the distiller's worktree. The distiller is taken not to finish a rollover, whose
respawn kills what runs in the pane, in the milliseconds before the rollover command there
has detached its watchdog. fork is one spawn and is in `ChatCapture`.


### ChatCapture

`rec[s]` is the list of chats on a record, `agent[s]` the agent in the pane and the chat it
reports, `hook[s]` its hook with the record it loaded, `op[o]` a spawn or chat operation.
A hook is `HookLoads`, the ownership scan, the save, and the second load and save of
`record_state`; an operation launches its agent, and loads and saves the record it appends
a reference to (`resume` saves the one its spawn returned). An agent waits for the hook it
runs; a forked agent may report its source's id first. `LeakyEnvs`: a hook may report to a
session that is not its agent's. `Overlaps` lets two load-save windows of one record
overlap; the run has it off, because with it on a fork's pending reference is lost.

### HistoryIngest

A file is a sequence of blocks; the bundle's copy says of each block which version of the
transcript it was read from. An ingest is `Begin`, `Locate`, `TakeLock` (waiting for
`archive`, skipping for hooks), `Stat`, `Compare`, `OpenSource`, one `CopyBlock` after the
other, `CopySidecar`, `Unlock`, `Stamp`. Meanwhile the agent appends, rewrites or adds
sidecar files, and an ingest may die at every step. `Window` is the tail that the prefix
test reads. `SafeRewrites`: no rewrite falls between the prefix test and the opening.

### HomeMigration

`record[f]` is a file's schema and how often it was written. A migration lists the files,
classifies one after the other, saves the upgraded body it read (`SaveUpgraded`), or for a
view probes tmux, marks and unlinks. Hooks, closing views, new views, errors of one file
and the death of the migration come in between. The fairness of `MCHome` has
the user run it again.

### CodexUpdate

`claims` are the launches that hold the lock of the log, `installers` the children that
inherited it. `logFresh` is what the mtime says. `TryClaim`, `CheckDue`, `Truncate`,
`WriteHeader`, `StartInstaller` (or its failure), `Close`, `InstallerEnds`; every process
may die, which releases what it alone held. Passing intervals make the log stale.

### HomeSync

`data[p][k]` is key `k` at a home or the remote: a clock, one of two texts of that clock,
absent, or torn. A sync reads one key (`get`), compares it (`verdict`), truncates the
destination (`put`) and writes it; homes edit, other homes sync, and a sync may die
between any two of these. `Calm`: nobody else writes the key between verdict and put.

### WorkerSpawn

The suffix `n` stands for the name `<base>-n` and the worktree of that name. `spawner[w]`
walks through `ReadNames`, `NextName`, `CreateTree`, `Prepare`, `RequireNameFree`,
`LaunchWorker`, `SaveWorker`, `CleanUp`; the checks read what other spawns have not
written yet. Agents end, users resume, rename and prune, spawners die. `QuietUsers`: no
resume or rename runs beside a spawn. `ResumesVacant`: a session is resumed only where
nobody else is. `LateFailures`: a spawn fails after its launch.

### ReadOnlySandbox

Paths are sequences of directories: a checkout with its `.git`, tx's home with its
worktrees root, four places for worktrees of the user. `OwnedPaths` and
`MinimalBoundaries` compute what the sandbox denies; worktrees come and go afterwards.
`ResumesElsewhere`: a worker is resumed in a worktree of the user's.

### LaunchCommands

A command is a sequence of flags, words and shell control; what a flag means is a table
per engine. The strips of inherited identity and access, the additions of each operation
and the binding to a directory are the adapters' scans, token by token; the engine's own
reading of the result is written down separately, and the properties compare the two. A
chain is a spawn, with any hand-written command of `MaxBlocks` flags, and `MaxLinks`
operations; `Chats` and `Trees` name the chat and the worktree of each.
`OddForms` adds `--flag=value` to the hand-written commands of claude and codex.

### WorkspaceGrants

A launch reads role files, links the skills, installs agy's rules, reads and rewrites
`info/exclude` (`write` is the moment between its truncation and its writing), and adds
its directory to agy's trusted ones; it may die at every step and be run again. The user moves and
removes skills and role files. `OneAtATime`: reads and writes of the shared files by two
launches do not overlap, and none dies while it writes.

### EffortGroups

Records with name, group, tag, parent (an id, or a name before version 4) and the artifact
a view renders; artifacts with a group and their authors. The resolver is a definition:
`Candidates` and `Parent` find a parent among records of its name (`Foremost` of them),
`Lineage` climbs to a hub step by step (`Climb`), `OverrideWhile` says what overrides each
session while some artifacts are already being resolved (the `seen` set of the code, which
ends a circle of views and authors), `SessionGroup` and `ArtifactGroup` choose. A walk of
the code that comes round stops; `Climb` goes on for as many steps as there are sessions and
meets nothing new. Actions are what commands change: spawns,
renames, tags, groups, kills, removals, touches. `Undated`: records of before version 4 have no date
of birth; the run has it off, since a session born later may then capture a lineage.

### AttachTopology

`outer` is what each terminal shows, `inner` what the nested client in each pane of a view
shows. A pick reads the current session, the clients and the panes in three steps, then
acts: nothing to do, select the pane, respawn it, switch the client. The ring joins two
readings; `recent` says of two attached terminals which was used later, as tmux's
`client_activity` does. `calm` is whether anything moved meanwhile. One pick and one ring are under way
at a time: their interplay is that of either with the user.

### MessageFeed

A letter is typed (`TypeLetter`) and entered (`EnterLetter`) as a turn of whatever is in
the box. The reader of the stream takes bundles and live transcripts one after the other
while letters arrive, chats are forked, mirrored, ended and removed. `OneTypist`: one
sender at a time types into a pane.

### FeedHub and UsageFeed

The loop of `FeedHub` signs, builds and pushes four feeds in turn; a tab's thread sends
snapshots and then what is queued; every poke is a thread that computes the focus, compares and
pushes. `world` is a version per watched thing. `QuietFocus`: focus moves and tabs
connect while no poke is under way. `UsageFeed` has the loop's third feed in detail:
rollouts with times and torn lines, listed, sorted and read one by one.

### DialogAnswer and ThreadPages

`DialogAnswer`: the agent opens and closes dialogs, the page renders one (`card`), a tap
is checked against what is there now and relayed key by key. `landed` has every key, meant
for which dialog and received by which. `Alike`: prompts that hash alike. `QuietPane`:
nobody types meanwhile. `DialogKinds` are the kinds the agent opens. `ThreadPages`: `thread` is the live window of a feed built from
the last entries, `older` the pages above it, `fetch` the request for one.

### TranscriptCache, TimelineLanes, TailStamp

`TranscriptCache`: a line is two bytes, so it may be half written; a poll takes size and mtime,
reads from the cached offset up to the last newline and folds the rows. The file grows or
is replaced in between. `TimelineLanes`: records with name, chats and source, rows in
transcripts; `Lanes`, `Segments` and `Edges` are definitions over them; a segment
lasts at least `MinSeg`, and a lane without rows has none. `TailStamp`: the
cache of last times, filled by threads from two files that grow, are touched and go.

## What the runs check

| Run | Checks |
|---|---|
| `lifecycle_races` | one running agent, two processes, every command but spawn, crashes: records never contradict themselves, no running session is recorded ended |
| `lifecycle_sequential` | every command, one process at a time, crashes: the store implements `SessionRegistry`, live names are unique, `exited` is true |
| `lifecycle_settles` | one session from its spawn on, two fair processes: the store converges |
| `artifact_races` | one artifact, two processes, crashes: it implements `ArtifactLog`; no committed revision is without its file; after a repair doctor finds nothing but what a dead create left |
| `chat_operation` | one operation of any kind, two faults: one continuation, whole teardown, and both in the end |
| `home_and_dashboards` | `MigratesWhole`, `UpdatesAreSpaced`, `TabsStayCurrent`, `EditsStayLocal`, `UsageIsCurrent` |
| `workspace` | `WorkersKeepApart`, `SyncsKeepWork`, `ChatsAreTracked`, `TerminalsShowTheChosen` |
| `conversation` | `MessagesArrive`, `TapsDoAsShown`, `ThreadIsTrue`, `RowsAreTheFile`, `LanesAreWhole`, `TailIsTrue` |
| `commands` | `CommandIsItsOwn`, `CheckoutIsPrepared`, `SandboxFits`, `MirrorIsSound`, `MirrorsKeepUp` |
| `late_save_revives` | violated: a hook that loaded before a kill writes the record back alive (`session.py:296-298`) |
| `sweep_crosses_spawn` | violated: a sweep stamps a session exited that was spawned after it listed the sessions (`service.py:326-328`) |
| `stale_group` | violated: a group change drops a revision committed since it loaded, and repair deletes it |

Each property of the last four passing runs is a conjunction of named parts, one per
promise of its component; the comment above each part quotes or names the code.

### Disagreements without a run of their own

Each was met by relaxing a constant or is read off the code; the constants that exclude
them say so by name.

- *Chat operations.* A finish slower than twenty seconds is killed with its distiller
  (`chat.py:556-561`; `Prompt`). A finisher that dies after its claim leaves the
  operation unfinished (`chat.py:419` against `540-542`; `DiesInFinish`). A second
  handover of one task takes the first one's brief for its own (`chat.py:293`, `65`). With
  finishes that outlive their session, a second continuation starts (`ToolsSurvive`).
- *Session records.* `tx rename` alone revives a session that its own sweep found vanished; two spawns of
  one name both pass the name check; a modify on an orphan's slot fails until
  `doctor --repair`, though `orphan_revs` says it is overwritten; `list_sessions` turns
  a failure of tmux into "no session". `cli.py:558` asks tmux for the human name, though
  agents' sessions are called by their uuid, and `tmux.py:77` matches names by prefix.
- *Capture.* A fork's pending reference is lost when another writer of the record
  overlaps (`Overlaps`).
- *History.* A skipped ingest may be the last one (`history.py:17-19` against `124`). A
  rewrite between the prefix test and the append splices the mirror (`SafeRewrites`). A
  sidecar whose copy was cut off by a death is never completed (`history.py:183-198`).
- *Sync.* A torn put makes every later sync raise (`storage.py:181-184`, `sync.py:56`);
  labels do not move the clock of last-writer-wins; `log.jsonl` goes by direction alone and
  loses the other side's events.
- *Workers.* A failure after the launch removes the worktree of a running agent
  (`LateFailures`). Spawn, end, resume, rename, resume of the first again: two agents in
  one checkout (`ResumesVacant`; `worktree.py:1`, `service.py:101-106`). A read-only worker
  resumed under its old name elsewhere may write to later worktrees (`ResumesElsewhere`).
- *Commands* (`OddForms`). `--flag=value` is unknown to the strips of claude and codex, so
  an inherited `--resume=id` stays (`claude.py:195-199`); removing codex's update check
  can glue the prompt to a list of images (`codex_update.py:44-63`); agy stops parsing at
  the first positional while the strip goes on.
- *Grants* (`OneAtATime`). Two launches, or one that dies while it writes, lose lines of
  `info/exclude`, the user's included.
- *Migrations.* A tmux error while a view is marked ends the run.
- *Dashboards.* The forest is pushed at every tick, since its time is hashed with it; the
  poll thread ends with any exception; feeds whose signature does not watch labels stay
  stale after a rename; the ring is empty on a terminal that shows an agent's session
  directly; two pokes at once may push the older focus last (`QuietFocus`).
- *Phone.* Identical permission prompts hash alike (`Alike`). A question is known from the
  transcript: when it was answered at the terminal and neither its result nor the hook is
  recorded yet, the digit of a tap goes to whatever the pane shows by then (the kind
  `question`, which the run leaves out); a page that is exactly one
  run of tool calls is fetched again and again; a turn that arrives while a page is under
  way may leave a gap.
- *Messages.* Two senders at once arrive as one turn (`OneTypist`); turns without a uuid
  are told apart by time and length only.
- *Browser.* A transcript rewritten to a size past the offset gives spliced rows
  (`PollsShrink`; `timeline.py:262-265`); `splitlines` splits at U+2028 too; a resume in
  another worktree copies the transcript, and two lanes show its rows; two dead lanes of
  one name and day have one label. `server.py:488` says the freshest rate limits are in
  the file written last, which another session's line without limits falsifies.

## Bounds, and why they are enough

Every bound is a constant. What limits a behaviour is how often the world acts (commands,
faults, edits); the code's own loops are never cut.

- *Records.* Races of the store are between two writers of one record: each needs a copy
  taken before the other's save. Two process slots, which are reused, and two commands
  give every such order, with hooks and sweeps unbounded in number. Names and views need
  two sessions, hence the sequential run, with four commands, and two names besides that of
  the view: with fewer no rename gets past its name check.
- *Artifacts.* Three revisions are a base, a revision and one that is lost or overwritten;
  two crashes leave two orphans.
- *Chat operations.* One operation has all its processes; its finishes are unlimited.
  Two faults let one recovery fail as well. What two operations do to each other is under
  the disagreements.
- *`home_and_dashboards`.* Two old records, a view and a malformed file are every kind of
  file. Three launches in two intervals: one checks, one finds the lock,
  one comes after it. One tab and one change of the world, with connecting and closing any
  number of times. Three sessions, one of an old schema, two labels, two touches. Three
  rollouts of which two are read.
- *`workspace`.* Three workers and three suffixes: two that choose one name and a third
  that may take what they leave. Two homes, a record and a bundle. Two sessions, three
  chats and three operations: source, fork, and a rollover of either. Two terminals, two
  views of two panes and one agent: a ring that follows the other terminal, an agent in a
  wrong pane. With `Restless` FALSE the user does one thing during a pick or a ring, at any of its
  moments; the theorems leave `Restless` open.
- *`conversation`.* Two panes, two letters, one at least from an agent. Two dialogs, two taps: a stale tap and one
  that meets the next dialog. Six entries in a tail of four and pages of two. Three lines
  and one rewrite. Three records on two transcripts with two rows and three instants.
  Two threads and four moments.
- *`commands`.* Any two flags in front of any prompt, and two operations: what the first
  leaves, the second inherits. Two checkouts, two skills, one edit, two launches. One
  worker, two worktrees of tx, four of the user. Two ingests, two blocks, two versions
  and a window of one block make a stale prefix and a splice possible.

Symmetry is used in runs that check safety only: processes (`lifecycle_races`), processes, authors
and contents (`artifact_races`), sessions (`workspace`), letters and names
(`conversation`), checkouts, skills and ingests (`commands`). Deadlock is not checked in `chat_operation`, where every operation ends,
nor in the four combined instances, where a component may come to rest.

## Fairness

- `lifecycle_settles`: weak fairness of every process's next step (the scheduler runs
  it), strong fairness of starting a sweep (the picker starts one about once a second),
  weak fairness of time. Nothing is asked of agents or users.
- `chat_operation`: weak fairness of the command, of a finish that was started, of the
  watchdog and of the clock; none of the distiller, which may do nothing at all.
- `TabsStayCurrent`: weak fairness of the loop, of each poke and of each tab's thread; no
  tab has to stay.
- `MigratesWhole`: weak fairness of a migration's steps, and of running it again; its
  faults are finite in number.

## What is proved

`tlapm` checks these for every value of the constants that satisfies the named
hypotheses. Each hypothesis holds in the run that checks the property; it excludes a
behaviour that is listed under the disagreements, or says what a comment of the code asks
for. An invariant is rarely inductive by itself: the last column has the strengthening.

| Theorem | States | Where | Inductive invariant |
|---|---|---|---|
| `SessionLifecycleProofs!Typing` | `TypeOK` | | itself |
| `RecordsStayCoherent` | `StoreCoherent` | | `CopiesCoherent`: every copy a process may still save is coherent; `JobsFit`: which command has which step |
| `EstablishedExitsAreReal` | `EstablishedExitIsReal` | | `EstablishedInv`: a session that was in tmux before the processes began is in every list a sweep still uses |
| `RecordsStayReal` | `RecordsAreReal` | one process at a time | `SeqInv`, below |
| `StoreImplementsRegistry` | `ImplementsRegistry` | one process at a time | `SeqInv` |
| `ArtifactServiceProofs!Typing` | `TypeOK` | | itself |
| `RevisionsExist`, `ArtifactImplementsLog` | `CommittedRevsExist`, `ImplementsLog` | `QuietCommands` | `IInv`: the history is on disk, a slot has one writer and he holds it, loaded copies are prefixes of the record, a repair spares what is recorded |
| `DoctorFindsNothing` | `DoctorFindsNoDebris` | `QuietCommands` | `DebrisInv`: while no process has died, what a doctor could find belongs to one that runs |
| `ChatOpsProofs!Typing` | `TypeOK` | | `BriefsOwned`: a brief is of the operation whose path it has, so that the next note finds a number |
| `AtMostOneContinuation` | `SingleExecution` | `~ToolsSurvive` | `OnceInv`: one finish is past its claim; a directory whose claim was removed is `Closed` to finishes |
| `FinisherIsSpared` | `NeverKillsFinisher` | `Prompt`, `~ToolsSurvive` | `CInv`: who may hold a claim, and how far he is |
| `TeardownIsWhole` | `TornDownWhole` | also `~DiesInFinish` | `TearInv`: what is done was launched and linked |
| `SlowDistillersAreSpared` | `NeverCutOffEarly` | `PathsNotShared`: `FreshPaths`, or one operation | `EarlyInv`: past its poll a watchdog has a `done`, a deadline or a brief of its own operation, which makes the distiller done with it |
| `WorkersAreApart` | `WorkersKeepApart` | `QuietUsers`, `ResumesVacant`, `~LateFailures` | `WorkInv`: which spawn or agent uses which worktree, never two the same; a new worker has the name of its worktree |
| `SyncsLoseNothing` | `SyncsKeepWork` | `Calm` | `SyncInv`: what is to be overwritten is not newer; a sync nobody disturbed has lost nothing of the keys it passed; two syncs never overwrite one key |
| `ChatsAreAlwaysTracked` | `ChatsAreTracked` | `~Overlaps` | `CaptureInv`: a record has one writer at a time, whose copy is the record; a chat has one owner; a chat that is not recorded yet is awaited by a reference or an operation |
| `TailTimesAreTrue` | `TailIsTrue` | | `TailInv`: what is read while a file is as it was stat-ed is what the cache may say of it |
| `TapsAreNeverStale` | `TapsDoAsShown` | `PanePrompts`: `QuietPane`, `~Alike`, no `question` | `DialogInv`: how far a tap has come with the dialog that is open |
| `MessagesAlwaysArrive` | `MessagesArrive` | `OneTypist` | `DeskInv`: a box holds the letter being typed and no other; `ReaderInv`: what was in scope was read, or is in a source still to be read |
| `CachedRowsAreTheFile` | `RowsAreTheFile` | `PollsShrink` | `CacheInv`: the entry, and what a poll goes on from, are of the first lines of the file as it is, or its time has moved on |
| `ThreadsAreTrue` | `ThreadIsTrue` | | `PageInv`: older turns end before the boundary that the window has reached, and miss nothing while the transcript stands still |
| `LanesAlwaysWhole` | `LanesAreWhole` | | `LaneInv`: a transcript that two records share is the first of the later one; a resumed record begins with one of the record it goes on with; rows are dated in order |
| `UpdatesKeepSpacing` | `UpdatesAreSpaced` | | `LockHeld`: who writes or installs has the lock, alone; `LogTells`: a second check in the interval would find the log fresh |
| `ViewsAreAlwaysKnown` | `ViewsStayViews` | | `MigInv`: a view whose file is about to be unlinked is marked, or its session is gone |
| `MigrationsKeepWrites` | `MigrationKeepsWrites` | `OneMigration` | `MigInv` and `ReadIsFresh`: the record about to be saved is as it was read |
| `EditsAlwaysStayLocal` | `EditsStayLocal` | `~Undated` | `GrpInv`: a record names as parent, by id, only sessions born before it, and authors exist when they touch |
| `EditsKeepOthers` | `NeverRefiled`, `NoLeakThroughHub`, `TagsStayOwn` | | `GrpInv` |
| `TerminalsAlwaysShow` | `TerminalsShowTheChosen` | | `TopInv`: what a pick has read is so as long as it is `calm` |
| `RingIsAlwaysRight` | `RingIsRight` of `TabsStayCurrent` | `QuietFocus` | `FocusInv`: what a tab shows once its queue is through is the focus, or a poke is on its way that will say it |
| `UsageStaysCurrent` | `UsageIsCurrent` | | `UsageInv`: while the signature is of the present, what is left of the walk is newest first, and what is not in it tells nothing |
| `ChainCommandIsItsOwn` | `CommandIsItsOwn` | `~OddForms` | `Settled`: what an adapter keeps of the recorded command is built of items, has the persona, and says no chat; below |
| `ChainTypes` | `LaunchTypeOK` | `~OddForms` | the same |
| `MirrorsStaySound` | `MirrorIsSound` | `SafeRewrites` | `OneMirror`: who mirrors has the lock; `SameVersion`: the open file is the version that was copied |
| `MirrorsHoldWhatWasThere` | `MirrorsKeepUp` | `SafeRewrites` | `KeepInv`: what the copy must cover for each ingest, step by step |
| `SandboxesFit` | `SandboxFits` | `~ResumesElsewhere` | `BoxInv`: what is denied are the minimal boundaries of what there was at the start |
| `CheckoutsArePrepared` | `CheckoutIsPrepared` | `OneAtATime` | `GrantInv`: a shared file has one editor, who saw what is in it; how far a launch has come says which lines and links are there |
| `WorkspaceTyping`, `ConversationTyping`, `HomeTyping`, `CommandsTyping` | `TypeOK` of each combined instance | what the components of the instance ask for; nothing in `HomeTyping` | the invariants of the components, with `TopShows`, `CacheBounds`, `PageBounds`, `UsageBounds` beside them, below |

**One process at a time.** The sequential run allows one process, in which sweeps, hooks
and commands follow each other, die, and meet sessions that end. `SeqInv` says what that
process knows at each step. `Recorded`: an exited record has a dead session. `CopyKnows`: the
copy a process holds is the record in the store, except that a rename holds its copy across
its own sweep (`AsBeforeSweep`). `SweepKnows`: what a sweep listed and read still holds.
`SpawnKnows` and `NameKnown`: a spawn is alone with its session, and a name that was free
stays free until it is taken. The refinement has one step per action; the saves are shown
to be edges of the abstract registry (`Edge`, `SavesAnEdge`). One edge was missing from the
registry until the proof asked for it: a rename runs a sweep inside its name check and then
saves the record it loaded before, so that alone, without another process, it publishes as
live a session that its own sweep recorded as exited.

**Recursive functions.** The rows of a transcript and the turns of a tail are recursive
functions over lines and entries. The library's induction theorems take an operator as a
parameter, which the provers cannot instantiate; `NumberLemmas!SetInduction` takes a set of
numbers instead, and the statement to prove is a set defined in the proof. `StepsExist` and
`ReadingExists` show in this way that such a function exists, and the lemmas after them that
to go on from the rows of the first lines is to parse them all (`ParsedGoesOn`), that the
turns of a tail are what is said in it, in order (`DialogueIsSaid`), and how many of them
come after one of them (`TurnsAfter`), which is what a window of the last turns needs. The
lanes, the rows and the segments of the timeline are recursive functions too, each with an
invariant of its own over what was placed so far (`LanesSound`, `RowsUpTo`, `ReadUpTo`): no two
lanes of one name share a transcript, because a record shares with the earlier ones at most its
first (`SharesWithOne`), and the run that is open ends at the last time read.

**The resolver of groups.** Its two recursions are over the steps of a walk and over the set of
artifacts being resolved; `ClimbIs` and `Resolve` show that both functions exist and satisfy
their equations, `ResolvingInduction` goes up the sets from the largest one down. What an edit
leaves alone is then said once for each recursion: walks that agree above a session agree
(`ClimbsAgree`), and sessions filed alike by every walk and every artifact have the same override
(`SameFiling`, `SameOverride`). A spawn adds a record that is younger than every other, so it is a
candidate for nobody's parent: only there the dates of birth are needed.

**The commands of a chain.** The adapters scan a recorded command token by token, and how many
words a flag takes with it depends on the flag, on its engine and on the words behind it. The
proof never follows a scan. A command is `Built` of items, a flag with its words each, and has
one of four forms: items and at most a prompt, or codex's verb and chat in front, and either with
a shell control behind. `FilteredIs` says what one pass over a list computes; `PassesBuilt`,
by induction over how a command is built, that a pass of an adapter drops whole items, those of
the settings it is after, and keeps the others in their order; `Reads` that what the agent reads in
the result are the settings that were kept and those put in front. What holds of the chain is then
about sets of settings: the adapter drops every setting with a chat, an access or a directory of
the session before (`IdentityDrops`, `AccessDrops`, `BindingDrops`), none of the persona's, and
each operation adds its own. `OddForms` is needed because a `--flag=value` is an item the passes of claude
and codex do not know.

**The ring of the dashboard.** A tab gets the focus in three ways: from the snapshot it opens with,
from the poke of a moved focus, and from what another thread has put into its queue.
`FocusInv` says of a state with no poke under way that the hub has no focus yet or the right one, and
that every open tab is told: the last item about the focus in its queue is the focus or, if there is
none and its snapshot is past the focus, what it shows is (`ToldFocus`). With a poke under way
(`PokeFits`), the hub's focus is still another one until the poke has compared, what it computed is
the focus, and at its push every open tab is among its receivers. `QuietFocus` keeps that to one poke; with two, the older focus
may be pushed last.

**Bounds that are types.** Some types of the combined instances hold for reasons of their own.
`CacheBounds`: a half line is one that still fits, and an offset is the end of a line. `PageBounds`:
no turn is later than the transcript is long, and a window has at most `ThreadTurns`
(`ThreadIsShort`). `UsageBounds`: of the rollouts that are listed the oldest has all the others
before it, so there are no more than `MaxWalk` (`NewestAreFew`). `TopShows`: `recent` stays one
order of the attached terminals, however they come, are used and go (`OrderUsed`, `OrderWithout`).

**What the proofs changed.** `OnePending` of `ChatCapture` was false as stated: three rollovers
of one session, each begun before the chat of the one before is captured, leave two references
waiting. The property now speaks of the sessions none of whose rollovers was `hasty`, a
field the code does not have: begun while another operation on the session was under way or
its chat not captured. `ArtifactGroup` of `EffortGroups` left the artifact itself out of those being
resolved when it climbs to its creators, which the code does not: the equation the proof wanted was
that of the code. The spans of flags in `LaunchCommands` are the scans' own conditions, one
after the other, since a choice among several that hold at once has no value to prove about.

**Only model-checked.**
- Everything temporal beyond `[]` and `[][A]` needs fairness: `StoreSettles`, `Completes`,
  `TabsCatchUp` of `TabsStayCurrent`, `MigrationFinishes` of `MigratesWhole`.
- What the violation runs show is a counterexample, which is the proof of it.

## Not modelled

- The event log as such (`events.py`): whether a line exceeds `PIPE_BUF` depends on how many
  bytes a character takes once escaped. Its use by artifacts is modelled.
- Argument parsing and output (`cli.py`, `render.py`, `palette.py`), except the picker
  and resume; the session editor.
- The tmux wrapper, the storage boundary and the engines' transcript parsers beyond what the modules above use;
  rollouts found on disk, role texts.
- Installers, shell helpers, tmux and Neovim configuration, the mailbox experiment, the
  port tests: configuration, or pure I/O without state of their own.
- A failing `list-sessions`, a failing `git worktree remove`, and processes that die
  within one file operation: no document says what should hold then.
