----------------------- MODULE SessionLifecycleProofs -----------------------
(***************************************************************************)
(* Proofs about SessionLifecycle, for every number of sessions, names and  *)
(* concurrent processes; the last part is about one process at a time.     *)
(***************************************************************************)
EXTENDS SessionLifecycle, TLAPS

-----------------------------------------------------------------------------
(* Records.                                                                *)

LEMMA NoRecordType == NoRecord \in Record /\ ~Present(NoRecord)
BY LifecycleAssumption DEF NoRecord, Record, Present

LEMMA RecordOps ==
    ASSUME NEW r \in Record
    PROVE  /\ Aged(r) \in Record
           /\ \A s \in LiveStates \cup TerminalStates :
                 Ended(r, s) \in Record /\ Applied(r, s) \in Record
           /\ \A c \in {"none", "pending", "bound"} : [r EXCEPT !.chat = c] \in Record
           /\ \A n \in Names : [r EXCEPT !.name = n] \in Record
           /\ [r EXCEPT !.state = "idle"] \in Record
<1>1. Aged(r) \in Record
  BY DEF Record, Aged
<1>2. ASSUME NEW s \in LiveStates \cup TerminalStates
      PROVE  Ended(r, s) \in Record /\ Applied(r, s) \in Record
  <2>1. [r EXCEPT !.state = s, !.ended = TRUE] \in Record
    BY DEF Record
  <2>2. Ended(r, s) \in Record
    BY <2>1 DEF Ended
  <2>3. (r.ended \/ s \in TerminalStates) \in BOOLEAN
    OBVIOUS
  <2>4. Applied(r, s) \in Record
    BY <2>3 DEF Record, Applied
  <2> QED
    BY <2>2, <2>4
<1>3. /\ \A c \in {"none", "pending", "bound"} : [r EXCEPT !.chat = c] \in Record
      /\ \A n \in Names : [r EXCEPT !.name = n] \in Record
      /\ [r EXCEPT !.state = "idle"] \in Record
  BY DEF Record, LiveStates
<1> QED
  BY <1>1, <1>2, <1>3

LEMMA NewRecordType ==
    ASSUME NEW id \in Ids, NEW n \in Names, NEW c \in ChatsAtSpawn(id)
    PROVE  NewRecord(id, n, c) \in Record
BY DEF Record, NewRecord, InitialFor, ChatsAtSpawn, LiveStates

-----------------------------------------------------------------------------
(* Local state.                                                            *)

LocalType ==
    /\ pc \in [Procs -> Steps]
    /\ job \in [Procs -> Job]
    /\ copy \in [Procs -> Record]
    /\ scan \in [Procs -> [live: SUBSET Ids, agents: SUBSET Ids]]
    /\ batch \in [Procs -> [Ids -> Record]]

LEMMA NoJobType == NoJob \in Job
BY DEF NoJob, Job

LEMMA EmptyScanType == EmptyScan \in [live: SUBSET Ids, agents: SUBSET Ids]
BY DEF EmptyScan

LEMMA NoBatchType == NoBatch \in [Ids -> Record]
BY NoRecordType DEF NoBatch

LEMMA FinishType ==
    ASSUME LocalType, NEW p \in Procs, Finish(p)
    PROVE  LocalType'
BY NoRecordType, NoJobType, EmptyScanType, NoBatchType DEF LocalType, Finish, Goto, Steps

LEMMA GotoType ==
    ASSUME LocalType, NEW p \in Procs, NEW l \in Steps, Goto(p, l)
    PROVE  pc' \in [Procs -> Steps]
BY DEF LocalType, Goto

LEMMA BeginType ==
    ASSUME TypeOK, NEW p \in Procs, NEW j \in Job, NEW l \in Steps, Begin(p, j, l)
    PROVE  LocalType' /\ UNCHANGED <<tmux, pane, store>>
BY DEF TypeOK, LocalType, Begin, Goto

LEMMA SaveType ==
    ASSUME TypeOK, NEW id, NEW r \in Record, Save(id, r)
    PROVE  store' \in [Ids -> Record]
BY DEF TypeOK, Save

-----------------------------------------------------------------------------
(* Type correctness.                                                       *)

LEMMA StartType ==
    ASSUME TypeOK, NEW p \in Procs, Start(p)
    PROVE  TypeOK'
<1>1. CASE StartReconcile(p)
  <2>1. [NoJob EXCEPT !.cmd = "reconcile"] \in Job
    BY DEF NoJob, Job
  <2>2. "scan" \in Steps
    BY DEF Steps
  <2> QED
    BY <1>1, <2>1, <2>2, BeginType DEF StartReconcile, LocalType, TypeOK
<1>2. ASSUME NEW id \in Ids, NEW ev \in Events, StartHook(p, id, ev)
      PROVE  TypeOK'
  <2>1. [NoJob EXCEPT !.cmd = "hook", !.id = id, !.ev = ev] \in Job
    BY LifecycleAssumption DEF NoJob, Job
  <2>2. "hookLoad" \in Steps
    BY DEF Steps
  <2> QED
    BY <1>2, <2>1, <2>2, BeginType DEF StartHook, LocalType, TypeOK
<1>3. ASSUME NEW id \in Ids, NEW cmd \in UserCommands, NEW n \in Names \cup {None},
             NEW l \in {"load", "scan"}, Issue(p, cmd, id, n, l)
      PROVE  TypeOK'
  <2>1. [NoJob EXCEPT !.cmd = cmd, !.id = id, !.name = n] \in Job
    BY DEF NoJob, Job
  <2>2. l \in Steps
    BY DEF Steps
  <2>3. budget' \in Nat
    BY <1>3 DEF TypeOK, Issue
  <2> QED
    BY <1>3, <2>1, <2>2, <2>3, BeginType DEF Issue, LocalType, TypeOK
<1>4. ASSUME NEW id \in Ids, NEW cmd \in UserCommands, StartCommand(p, cmd, id)
      PROVE  TypeOK'
  BY <1>3, <1>4 DEF StartCommand
<1>5. ASSUME NEW id \in Ids, NEW n \in Names, StartSpawn(p, id, n) \/ StartRename(p, id, n)
      PROVE  TypeOK'
  BY <1>3, <1>5 DEF StartSpawn, StartRename, UserCommands
<1> QED
  BY <1>1, <1>2, <1>4, <1>5 DEF Start

LEMMA StepType ==
    ASSUME TypeOK, NEW p \in Procs, JobFits(p), Step(p)
    PROVE  TypeOK'
<1> DEFINE id == job[p].id
<1>0. LocalType /\ job[p] \in Job /\ copy[p] \in Record /\ batch[p] \in [Ids -> Record]
  BY DEF TypeOK, LocalType
<1>1. CASE HookLoad(p)
  <2>1. id \in Ids
    BY <1>1 DEF HookLoad, JobFits
  <2>2. CASE Finish(p)
    BY <1>0, <1>1, <2>2, FinishType DEF HookLoad, TypeOK, LocalType
  <2>3. CASE ~Finish(p)
    <3>1. \E l \in Steps : Goto(p, l)
      BY <1>1, <2>3 DEF HookLoad, Steps
    <3>2. /\ copy' = [copy EXCEPT ![p] = store[id]]
          /\ UNCHANGED <<tmux, pane, store, job, scan, batch, budget>>
      BY <1>1, <2>3 DEF HookLoad
    <3> QED
      BY <2>1, <3>1, <3>2 DEF Goto, TypeOK
  <2> QED
    BY <2>2, <2>3
<1>2. CASE HookCapture(p)
  <2>1. [copy[p] EXCEPT !.chat = "bound"] \in Record
    BY <1>0, RecordOps
  <2> QED
    BY <1>0, <1>2, <2>1, SaveType DEF HookCapture, Goto, Steps, TypeOK
<1>3. CASE HookState(p)
  <2>1. id \in Ids
    BY <1>3 DEF HookState, Drives, JobFits
  <2>2. StateForEvent(job[p].ev) # "none" => Applied(store[id], StateForEvent(job[p].ev)) \in Record
    BY <2>1, RecordOps DEF StateForEvent, TypeOK, LiveStates
  <2>3. CASE Finish(p)
    BY <1>0, <1>3, <2>3, FinishType DEF HookState, Drives, TypeOK, LocalType
  <2>4. CASE ~Finish(p)
    <3>1. /\ Goto(p, "hookSave")
          /\ StateForEvent(job[p].ev) # "none"
          /\ copy' = [copy EXCEPT ![p] = Applied(store[id], StateForEvent(job[p].ev))]
          /\ UNCHANGED <<tmux, pane, store, job, scan, batch, budget>>
      BY <1>3, <2>4 DEF HookState, Drives
    <3> QED
      BY <2>2, <3>1 DEF Goto, Steps, TypeOK
  <2> QED
    BY <2>3, <2>4
<1>4. CASE HookSave(p)
  BY <1>0, <1>4, FinishType, SaveType DEF HookSave, TypeOK, LocalType
<1>5. CASE Scan(p)
  BY <1>5 DEF Scan, Goto, Steps, TypeOK
<1>6. CASE ReadAll(p)
  BY <1>6 DEF ReadAll, Goto, Steps, TypeOK
<1>7. CASE SweepEnds(p)
  <2>1. CASE Finish(p)
    BY <1>0, <1>7, <2>1, FinishType DEF SweepEnds, TypeOK, LocalType
  <2>2. CASE ~Finish(p)
    <3>1. /\ Goto(p, "nameCheck")
          /\ scan' = [scan EXCEPT ![p] = EmptyScan]
          /\ UNCHANGED <<tmux, pane, store, job, copy, batch, budget>>
      BY <1>7, <2>2 DEF SweepEnds
    <3> QED
      BY <3>1, EmptyScanType DEF Goto, Steps, TypeOK
  <2> QED
    BY <2>1, <2>2
<1>8. CASE NameCheck(p)
  <2>1. CASE Finish(p)
    BY <1>0, <1>8, <2>1, FinishType DEF NameCheck, TypeOK, LocalType
  <2>2. CASE ~Finish(p)
    BY <1>8, <2>2 DEF NameCheck, Goto, Steps, TypeOK
  <2> QED
    BY <2>1, <2>2
<1>9. ASSUME NEW i \in Ids, SweepOne(p, i)
      PROVE  TypeOK'
  <2>1. Swept(p, i) \in Record
    BY <1>0, RecordOps DEF Swept, TerminalStates
  <2>2. store' \in [Ids -> Record]
    BY <1>9, <2>1, SaveType DEF SweepOne, TypeOK
  <2>3. batch' \in [Procs -> [Ids -> Record]]
    BY <1>9, NoRecordType DEF SweepOne, TypeOK
  <2> QED
    BY <1>9, <2>2, <2>3 DEF SweepOne, TypeOK
<1>10. CASE NewSession(p)
  BY <1>10 DEF NewSession, Goto, Steps, TypeOK
<1>11. CASE SetTxId(p)
  <2>1. CASE Finish(p)
    <3>1. tmux' \in [Ids -> {"unborn", "untagged", "live", "dead"}]
      BY <1>11 DEF SetTxId, TypeOK
    <3> QED
      BY <1>0, <1>11, <2>1, <3>1, FinishType DEF SetTxId, TypeOK, LocalType
  <2>2. CASE ~Finish(p)
    <3>1. /\ Goto(p, "spawnSave")
          /\ tmux' = [tmux EXCEPT ![id] = "live"]
          /\ UNCHANGED <<pane, store, job, copy, scan, batch, budget>>
      BY <1>11, <2>2 DEF SetTxId
    <3> QED
      BY <3>1 DEF Goto, Steps, TypeOK
  <2> QED
    BY <2>1, <2>2
<1>12. CASE SpawnSave(p)
  <2>1. id \in Ids /\ job[p].name \in Names
    BY <1>12 DEF SpawnSave, JobFits, UserCommands
  <2>2. PICK c \in ChatsAtSpawn(id) : Save(id, NewRecord(id, job[p].name, c))
    BY <1>12 DEF SpawnSave
  <2>3. store' \in [Ids -> Record]
    BY <2>1, <2>2, NewRecordType, SaveType
  <2> QED
    BY <1>0, <1>12, <2>3, FinishType DEF SpawnSave, TypeOK, LocalType
<1>13. CASE Load(p)
  <2>1. id \in Ids
    BY <1>13 DEF Load, JobFits, UserCommands
  <2>2. AfterLoad(job[p].cmd) \in Steps
    BY DEF AfterLoad, Steps
  <2>3. CASE Finish(p)
    BY <1>0, <1>13, <2>3, FinishType DEF Load, TypeOK, LocalType
  <2>4. CASE ~Finish(p)
    <3>1. /\ Goto(p, AfterLoad(job[p].cmd))
          /\ copy' = [copy EXCEPT ![p] = store[id]]
          /\ UNCHANGED <<tmux, pane, store, job, scan, batch, budget>>
      BY <1>13, <2>4 DEF Load
    <3> QED
      BY <2>1, <2>2, <3>1 DEF Goto, TypeOK
  <2> QED
    BY <2>3, <2>4
<1>14. CASE KillTmux(p)
  BY <1>14 DEF KillTmux, Goto, Steps, TypeOK
<1>15. CASE Write(p)
  <2>1. Written(p) \in Record
    <3>1. job[p].cmd = "rename" => job[p].name \in Names
      BY DEF JobFits
    <3> QED
      BY <1>0, <3>1, RecordOps DEF Written, TerminalStates
  <2> QED
    BY <1>0, <1>15, <2>1, FinishType, SaveType DEF Write, TypeOK, LocalType
<1>16. CASE Delete(p)
  BY <1>0, <1>16, NoRecordType, FinishType, SaveType DEF Delete, TypeOK, LocalType
<1> QED
  BY <1>1, <1>2, <1>3, <1>4, <1>5, <1>6, <1>7, <1>8, <1>9, <1>10, <1>11, <1>12,
     <1>13, <1>14, <1>15, <1>16 DEF Step

LEMMA EnvironmentType ==
    ASSUME TypeOK, Environment
    PROVE  TypeOK'
<1>1. ASSUME NEW id \in Ids, SessionEnds(id)
      PROVE  TypeOK'
  BY <1>1 DEF SessionEnds, local, TypeOK
<1>2. ASSUME NEW id \in Ids, AgentExits(id)
      PROVE  TypeOK'
  BY <1>2 DEF AgentExits, local, TypeOK
<1>3. CASE Elapse
  BY <1>3, RecordOps DEF Elapse, TypeOK
<1> QED
  BY <1>1, <1>2, <1>3 DEF Environment

LEMMA InitType == Init => TypeOK
<1> SUFFICES ASSUME Init PROVE TypeOK
  OBVIOUS
<1>1. PICK n \in [Established -> Names], c \in [Established -> {"none", "pending"}] :
         /\ \A i \in Established : c[i] \in ChatsAtSpawn(i)
         /\ store = [id \in Ids |-> IF id \in Established
                                    THEN NewRecord(id, n[id], c[id])
                                    ELSE NoRecord]
  BY DEF Init
<1>2. store \in [Ids -> Record]
  BY <1>1, NewRecordType, NoRecordType
<1> QED
  BY <1>2, LifecycleAssumption, NoRecordType, NoJobType, EmptyScanType, NoBatchType
     DEF Init, TypeOK, Steps

-----------------------------------------------------------------------------
(* The step a process is at fits the command it runs.                      *)

LEMMA FinishFits ==
    ASSUME TypeOK, JobsFit, NEW p \in Procs, Finish(p)
    PROVE  JobsFit'
<1>1. pc'[p] = "idle" /\ job'[p] = NoJob /\ copy'[p] = NoRecord
  BY DEF Finish, Goto, TypeOK
<1>2. JobFits(p)'
  BY <1>1 DEF JobFits, NoJob, UserCommands
<1>3. ASSUME NEW q \in Procs, q # p
      PROVE  JobFits(q)'
  <2>1. pc'[q] = pc[q] /\ job'[q] = job[q] /\ copy'[q] = copy[q]
    BY <1>3 DEF Finish, Goto, TypeOK
  <2> QED
    BY <2>1 DEF JobsFit, JobFits
<1> QED
  BY <1>2, <1>3 DEF JobsFit

\* A process that changes only its own program counter and copy.
LEMMA OwnMoveFits ==
    ASSUME TypeOK, JobsFit, NEW p \in Procs, NEW l, Goto(p, l), UNCHANGED job,
           \A q \in Procs : q # p => copy'[q] = copy[q],
           pc'[p] = l => JobFits(p)'
    PROVE  JobsFit'
<1>1. pc'[p] = l
  BY DEF Goto, TypeOK
<1>2. ASSUME NEW q \in Procs, q # p
      PROVE  JobFits(q)'
  <2>1. pc'[q] = pc[q] /\ job'[q] = job[q] /\ copy'[q] = copy[q]
    BY <1>2 DEF Goto, TypeOK
  <2> QED
    BY <2>1 DEF JobsFit, JobFits
<1> QED
  BY <1>1, <1>2 DEF JobsFit

LEMMA BeginFits ==
    ASSUME TypeOK, JobsFit, NEW p \in Procs, NEW j \in Job, NEW l, Begin(p, j, l),
           pc'[p] = l /\ job'[p] = j /\ copy'[p] = NoRecord => JobFits(p)'
    PROVE  JobsFit'
<1>1. pc'[p] = l /\ job'[p] = j /\ copy'[p] = NoRecord
  BY DEF Begin, Goto, TypeOK, JobsFit, JobFits
<1>2. ASSUME NEW q \in Procs, q # p
      PROVE  JobFits(q)'
  <2>1. pc'[q] = pc[q] /\ job'[q] = job[q] /\ copy'[q] = copy[q]
    BY <1>2 DEF Begin, Goto, TypeOK
  <2> QED
    BY <2>1 DEF JobsFit, JobFits
<1> QED
  BY <1>1, <1>2 DEF JobsFit

LEMMA StartFits ==
    ASSUME TypeOK, JobsFit, EstablishedInv, NEW p \in Procs, Start(p)
    PROVE  JobsFit'
<1>1. CASE StartReconcile(p)
  <2>1. [NoJob EXCEPT !.cmd = "reconcile"] \in Job
    BY DEF NoJob, Job
  <2> QED
    BY <1>1, <2>1, BeginFits DEF StartReconcile, JobFits, NoJob, UserCommands
<1>2. ASSUME NEW id \in Ids, NEW ev \in Events, StartHook(p, id, ev)
      PROVE  JobsFit'
  <2>1. [NoJob EXCEPT !.cmd = "hook", !.id = id, !.ev = ev] \in Job
    BY LifecycleAssumption DEF NoJob, Job
  <2> QED
    BY <1>2, <2>1, BeginFits DEF StartHook, JobFits, NoJob, UserCommands
<1>3. ASSUME NEW id \in Ids, NEW cmd \in UserCommands, StartCommand(p, cmd, id)
      PROVE  JobsFit'
  <2>1. [NoJob EXCEPT !.cmd = cmd, !.id = id, !.name = None] \in Job
    BY DEF NoJob, Job
  <2> QED
    BY <1>3, <2>1, BeginFits DEF StartCommand, Issue, JobFits, NoJob, UserCommands
<1>4. ASSUME NEW id \in Ids, NEW n \in Names, StartSpawn(p, id, n)
      PROVE  JobsFit'
  <2>1. [NoJob EXCEPT !.cmd = "spawn", !.id = id, !.name = n] \in Job
    BY DEF NoJob, Job, UserCommands
  <2>2. id \notin Established
    BY <1>4 DEF StartSpawn, EstablishedInv
  <2> QED
    BY <1>4, <2>1, <2>2, BeginFits DEF StartSpawn, Issue, JobFits, NoJob, UserCommands
<1>5. ASSUME NEW id \in Ids, NEW n \in Names, StartRename(p, id, n)
      PROVE  JobsFit'
  <2>1. [NoJob EXCEPT !.cmd = "rename", !.id = id, !.name = n] \in Job
    BY DEF NoJob, Job, UserCommands
  <2> QED
    BY <1>5, <2>1, BeginFits DEF StartRename, Issue, JobFits, NoJob, UserCommands
<1> QED
  BY <1>1, <1>2, <1>3, <1>4, <1>5 DEF Start

LEMMA StepFits ==
    ASSUME TypeOK, JobsFit, NEW p \in Procs, Step(p)
    PROVE  JobsFit'
<1> DEFINE id == job[p].id
<1>0. JobFits(p)
  BY DEF JobsFit
<1>a. CASE Finish(p)
  BY <1>a, FinishFits
<1>1. CASE HookLoad(p) /\ ~Finish(p)
  <2>1. /\ pc[p] = "hookLoad" /\ id \in LlmIds
        /\ copy' = [copy EXCEPT ![p] = store[id]]
        /\ UNCHANGED job
        /\ \E l \in {"hookCapture", "hookState"} : Goto(p, l)
    BY <1>1 DEF HookLoad
  <2>2. PICK l \in {"hookCapture", "hookState"} : Goto(p, l)
    BY <2>1
  <2>3. pc'[p] = l => JobFits(p)'
    BY <1>0, <2>1 DEF JobFits, UserCommands
  <2>4. \A q \in Procs : q # p => copy'[q] = copy[q]
    BY <2>1 DEF TypeOK
  <2> QED
    BY <2>1, <2>2, <2>3, <2>4, OwnMoveFits
<1>2. CASE HookCapture(p)
  <2>1. pc'[p] = "hookState" => JobFits(p)'
    BY <1>0, <1>2 DEF HookCapture, JobFits, UserCommands
  <2>2. \A q \in Procs : q # p => copy'[q] = copy[q]
    BY <1>2 DEF HookCapture, TypeOK
  <2> QED
    BY <1>2, <2>1, <2>2, OwnMoveFits DEF HookCapture
<1>3. CASE HookState(p) /\ ~Finish(p)
  <2>1. /\ pc[p] = "hookState" /\ Goto(p, "hookSave") /\ UNCHANGED job
        /\ \E r : copy' = [copy EXCEPT ![p] = r]
    BY <1>3 DEF HookState, Drives
  <2>2. pc'[p] = "hookSave" => JobFits(p)'
    BY <1>0, <2>1 DEF JobFits, UserCommands
  <2>3. \A q \in Procs : q # p => copy'[q] = copy[q]
    BY <2>1 DEF TypeOK
  <2> QED
    BY <2>1, <2>2, <2>3, OwnMoveFits
<1>4. CASE Scan(p)
  <2>1. pc'[p] = "read" => JobFits(p)'
    BY <1>0, <1>4 DEF Scan, JobFits, UserCommands
  <2> QED
    BY <1>4, <2>1, OwnMoveFits DEF Scan
<1>5. CASE ReadAll(p)
  <2>1. pc'[p] = "sweep" => JobFits(p)'
    BY <1>0, <1>5 DEF ReadAll, JobFits, UserCommands
  <2> QED
    BY <1>5, <2>1, OwnMoveFits DEF ReadAll
<1>6. CASE SweepEnds(p) /\ ~Finish(p)
  <2>1. /\ pc[p] = "sweep" /\ Goto(p, "nameCheck") /\ UNCHANGED <<job, copy>>
        /\ job[p].cmd \in {"spawn", "rename"}
    BY <1>6 DEF SweepEnds
  <2>2. pc'[p] = "nameCheck" => JobFits(p)'
    BY <1>0, <2>1 DEF JobFits, UserCommands
  <2> QED
    BY <2>1, <2>2, OwnMoveFits
<1>7. CASE NameCheck(p) /\ ~Finish(p)
  <2>1. /\ pc[p] = "nameCheck" /\ UNCHANGED <<job, copy>>
        /\ Goto(p, IF job[p].cmd = "spawn" THEN "newSession" ELSE "write")
    BY <1>7 DEF NameCheck
  <2>2. pc'[p] = (IF job[p].cmd = "spawn" THEN "newSession" ELSE "write") => JobFits(p)'
    BY <1>0, <2>1 DEF JobFits, UserCommands
  <2> QED
    BY <2>1, <2>2, OwnMoveFits
<1>8. ASSUME NEW i \in Ids, SweepOne(p, i)
      PROVE  JobsFit'
  BY <1>8 DEF SweepOne, JobsFit, JobFits
<1>9. CASE NewSession(p)
  <2>1. pc'[p] = "setTxId" => JobFits(p)'
    BY <1>0, <1>9 DEF NewSession, JobFits, UserCommands
  <2> QED
    BY <1>9, <2>1, OwnMoveFits DEF NewSession
<1>10. CASE SetTxId(p) /\ ~Finish(p)
  <2>1. pc[p] = "setTxId" /\ Goto(p, "spawnSave") /\ UNCHANGED <<job, copy>>
    BY <1>10 DEF SetTxId
  <2>2. pc'[p] = "spawnSave" => JobFits(p)'
    BY <1>0, <2>1 DEF JobFits, UserCommands
  <2> QED
    BY <2>1, <2>2, OwnMoveFits
<1>11. CASE Load(p) /\ ~Finish(p)
  <2>1. /\ pc[p] = "load" /\ Goto(p, AfterLoad(job[p].cmd)) /\ UNCHANGED job
        /\ copy' = [copy EXCEPT ![p] = store[id]]
    BY <1>11 DEF Load
  <2>2. pc'[p] = AfterLoad(job[p].cmd) => JobFits(p)'
    BY <1>0, <2>1 DEF JobFits, UserCommands, AfterLoad
  <2>3. \A q \in Procs : q # p => copy'[q] = copy[q]
    BY <2>1 DEF TypeOK
  <2> QED
    BY <2>1, <2>2, <2>3, OwnMoveFits
<1>12. CASE KillTmux(p)
  <2>1. pc'[p] = "write" => JobFits(p)'
    BY <1>0, <1>12 DEF KillTmux, JobFits, UserCommands
  <2> QED
    BY <1>12, <2>1, OwnMoveFits DEF KillTmux
<1>13. CASE HookSave(p) \/ SpawnSave(p) \/ Write(p) \/ Delete(p)
  BY <1>13, FinishFits DEF HookSave, SpawnSave, Write, Delete
<1> QED
  BY <1>a, <1>1, <1>2, <1>3, <1>4, <1>5, <1>6, <1>7, <1>8, <1>9, <1>10, <1>11,
     <1>12, <1>13 DEF Step

LEMMA EnvironmentFits ==
    ASSUME TypeOK, JobsFit, Environment
    PROVE  JobsFit'
<1>1. CASE \E id \in Ids : SessionEnds(id) \/ AgentExits(id)
  BY <1>1 DEF SessionEnds, AgentExits, local, JobsFit, JobFits
<1>2. CASE Elapse
  <2>1. Aged(NoRecord) = NoRecord
    BY DEF Aged, NoRecord
  <2> QED
    BY <1>2, <2>1 DEF Elapse, JobsFit, JobFits
<1> QED
  BY <1>1, <1>2 DEF Environment

-----------------------------------------------------------------------------
(* Coherence of every record, in the files and in flight.                  *)

LEMMA CoherentAbsent == \A i : Coherent(i, NoRecord)
BY DEF Coherent, Present, NoRecord

LEMMA CoherentOps ==
    ASSUME NEW i, NEW r \in Record, Coherent(i, r)
    PROVE  /\ Coherent(i, Aged(r))
           /\ Coherent(i, Ended(r, "exited"))
           /\ Coherent(i, Ended(r, "archived"))
           /\ \A c : Coherent(i, [r EXCEPT !.chat = c])
           /\ \A n : Coherent(i, [r EXCEPT !.name = n])
           /\ i \in LlmIds /\ IsAlive(r) =>
                 /\ Coherent(i, [r EXCEPT !.state = "idle"])
                 /\ \A s \in {"idle", "working", "waiting"} : Coherent(i, Applied(r, s))
<1> USE DEF Record, Coherent, Present, ValidFor, TerminalStates
<1>1. Coherent(i, Aged(r))
  BY DEF Aged
<1>2. Coherent(i, Ended(r, "exited")) /\ Coherent(i, Ended(r, "archived"))
  BY DEF Ended
<1>3. /\ \A c : Coherent(i, [r EXCEPT !.chat = c])
      /\ \A n : Coherent(i, [r EXCEPT !.name = n])
  OBVIOUS
<1>4. ASSUME i \in LlmIds, IsAlive(r)
      PROVE  Coherent(i, [r EXCEPT !.state = "idle"])
  BY <1>4 DEF IsAlive, LiveStates
<1>5. ASSUME i \in LlmIds, IsAlive(r), NEW s \in {"idle", "working", "waiting"}
      PROVE  Coherent(i, Applied(r, s))
  BY <1>5 DEF Applied, IsAlive, LiveStates
<1> QED
  BY <1>1, <1>2, <1>3, <1>4, <1>5

LocalCoherent ==
    \A p \in Procs : /\ Coherent(job[p].id, copy[p])
                     /\ \A id \in Ids : Coherent(id, batch[p][id])

LEMMA FinishCoherent ==
    ASSUME TypeOK, LocalCoherent, NEW p \in Procs, Finish(p)
    PROVE  LocalCoherent'
<1>1. copy'[p] = NoRecord /\ batch'[p] = NoBatch
  BY DEF Finish, TypeOK
<1>2. \A q \in Procs : q # p => /\ job'[q] = job[q] /\ copy'[q] = copy[q]
                               /\ batch'[q] = batch[q]
  BY DEF Finish, TypeOK
<1> QED
  BY <1>1, <1>2, CoherentAbsent DEF LocalCoherent, NoBatch

LEMMA SaveCoherent ==
    ASSUME TypeOK, StoreCoherent, NEW id \in Ids, NEW r, Save(id, r), Coherent(id, r)
    PROVE  StoreCoherent'
BY DEF TypeOK, StoreCoherent, Save

LEMMA CopyCoherent ==
    ASSUME TypeOK, LocalCoherent, NEW p \in Procs, NEW r, Coherent(job[p].id, r),
           copy' = [copy EXCEPT ![p] = r], UNCHANGED <<job, batch>>
    PROVE  LocalCoherent'
BY DEF TypeOK, LocalCoherent

LEMMA StartCoherent ==
    ASSUME TypeOK, JobsFit, CopiesCoherent, NEW p \in Procs, Start(p)
    PROVE  CopiesCoherent'
<1>1. PICK j, l : Begin(p, j, l)
  BY DEF Start, StartReconcile, StartHook, StartCommand, StartSpawn, StartRename, Issue
<1>2. copy[p] = NoRecord
  BY <1>1 DEF Begin, JobsFit, JobFits
<1>3. LocalCoherent'
  BY <1>1, <1>2, CoherentAbsent DEF Begin, CopiesCoherent, LocalCoherent, TypeOK
<1> QED
  BY <1>1, <1>3 DEF Begin, CopiesCoherent, LocalCoherent, StoreCoherent

LEMMA StepCoherent ==
    ASSUME TypeOK, JobsFit, CopiesCoherent, NEW p \in Procs, Step(p)
    PROVE  CopiesCoherent'
<1> DEFINE id == job[p].id
<1> SUFFICES StoreCoherent' /\ LocalCoherent'
  BY DEF CopiesCoherent, LocalCoherent
<1>0. /\ StoreCoherent /\ LocalCoherent /\ JobFits(p)
      /\ copy[p] \in Record /\ Coherent(id, copy[p])
  BY DEF CopiesCoherent, LocalCoherent, JobsFit, TypeOK
<1>a. CASE Finish(p) /\ UNCHANGED store
  BY <1>0, <1>a, FinishCoherent DEF StoreCoherent
<1>1. CASE HookLoad(p) /\ ~Finish(p)
  <2>1. /\ pc[p] = "hookLoad"
        /\ copy' = [copy EXCEPT ![p] = store[id]]
        /\ UNCHANGED <<job, batch, store>>
    BY <1>1 DEF HookLoad
  <2>2. Coherent(id, store[id])
    BY <1>0, <2>1 DEF JobFits, StoreCoherent
  <2> QED
    BY <1>0, <2>1, <2>2, CopyCoherent DEF StoreCoherent
<1>2. CASE HookCapture(p)
  <2>1. id \in Ids
    BY <1>0, <1>2 DEF HookCapture, JobFits
  <2>2. CASE UNCHANGED <<copy, store>>
    BY <1>0, <1>2, <2>2 DEF HookCapture, StoreCoherent, LocalCoherent
  <2>3. CASE ~UNCHANGED <<copy, store>>
    <3>1. /\ copy' = [copy EXCEPT ![p] = [copy[p] EXCEPT !.chat = "bound"]]
          /\ Save(id, [copy[p] EXCEPT !.chat = "bound"])
          /\ UNCHANGED <<job, batch>>
      BY <1>2, <2>3 DEF HookCapture
    <3>2. Coherent(id, [copy[p] EXCEPT !.chat = "bound"])
      BY <1>0, CoherentOps
    <3> QED
      BY <1>0, <2>1, <3>1, <3>2, CopyCoherent, SaveCoherent
  <2> QED
    BY <2>2, <2>3
<1>3. CASE HookState(p) /\ ~Finish(p)
  <2> DEFINE s == StateForEvent(job[p].ev)
  <2>1. /\ pc[p] = "hookState" /\ s # "none" /\ CanTransition(store[id], s)
        /\ copy' = [copy EXCEPT ![p] = Applied(store[id], s)]
        /\ UNCHANGED <<job, batch, store>>
    BY <1>3 DEF HookState, Drives
  <2>2. s \in {"idle", "working", "waiting"}
    BY <2>1 DEF StateForEvent
  <2>3. id \in Ids /\ id \in LlmIds
    BY <1>0, <2>1, LifecycleAssumption DEF JobFits
  <2>4. Coherent(id, Applied(store[id], s))
    <3> HIDE DEF s
    <3>1. store[id] \in Record /\ Coherent(id, store[id]) /\ IsAlive(store[id])
      BY <1>0, <2>1, <2>3 DEF TypeOK, StoreCoherent, CanTransition
    <3> QED
      BY <2>2, <2>3, <3>1, CoherentOps
  <2> QED
    BY <1>0, <2>1, <2>4, CopyCoherent DEF StoreCoherent
<1>4. CASE HookSave(p)
  <2>1. id \in Ids
    BY <1>0, <1>4 DEF HookSave, JobFits
  <2> QED
    BY <1>0, <1>4, <2>1, SaveCoherent, FinishCoherent DEF HookSave
<1>5. CASE Scan(p) \/ NewSession(p) \/ KillTmux(p)
  BY <1>0, <1>5 DEF Scan, NewSession, KillTmux, StoreCoherent, LocalCoherent
<1>6. CASE ReadAll(p)
  BY <1>0, <1>6 DEF ReadAll, StoreCoherent, LocalCoherent, TypeOK
<1>7. CASE SweepEnds(p) /\ ~Finish(p)
  <2>1. UNCHANGED <<job, copy, batch, store>>
    BY <1>7 DEF SweepEnds
  <2> QED
    BY <1>0, <2>1 DEF StoreCoherent, LocalCoherent
<1>8. CASE NameCheck(p) /\ ~Finish(p)
  <2>1. UNCHANGED <<job, copy, batch, store>>
    BY <1>8 DEF NameCheck
  <2> QED
    BY <1>0, <2>1 DEF StoreCoherent, LocalCoherent
<1>9. ASSUME NEW i \in Ids, SweepOne(p, i)
      PROVE  StoreCoherent' /\ LocalCoherent'
  <2>1. batch[p][i] \in Record /\ Coherent(i, batch[p][i])
    BY <1>0 DEF TypeOK, LocalCoherent
  <2>2. Coherent(i, Swept(p, i))
    BY <2>1, CoherentOps DEF Swept, IsStuck, IsAlive, LiveStates
  <2>3. StoreCoherent'
    BY <1>0, <1>9, <2>2, SaveCoherent DEF SweepOne, StoreCoherent
  <2>4. LocalCoherent'
    BY <1>0, <1>9, CoherentAbsent DEF SweepOne, LocalCoherent, TypeOK
  <2> QED
    BY <2>3, <2>4
<1>10. CASE SetTxId(p) /\ ~Finish(p)
  <2>1. UNCHANGED <<job, copy, batch, store>>
    BY <1>10 DEF SetTxId
  <2> QED
    BY <1>0, <2>1 DEF StoreCoherent, LocalCoherent
<1>11. CASE SpawnSave(p)
  <2>1. PICK c \in ChatsAtSpawn(id) : Save(id, NewRecord(id, job[p].name, c))
    BY <1>11 DEF SpawnSave
  <2>2. id \in Ids
    BY <1>0, <1>11 DEF SpawnSave, JobFits, UserCommands
  <2>3. Coherent(id, NewRecord(id, job[p].name, c))
    BY DEF Coherent, NewRecord, InitialFor, ValidFor, TerminalStates
  <2> QED
    BY <1>0, <1>11, <2>1, <2>2, <2>3, SaveCoherent, FinishCoherent DEF SpawnSave
<1>12. CASE Load(p) /\ ~Finish(p)
  <2>1. /\ pc[p] = "load"
        /\ copy' = [copy EXCEPT ![p] = store[id]]
        /\ UNCHANGED <<job, batch, store>>
    BY <1>12 DEF Load
  <2>2. Coherent(id, store[id])
    BY <1>0, <2>1 DEF JobFits, StoreCoherent, UserCommands
  <2> QED
    BY <1>0, <2>1, <2>2, CopyCoherent DEF StoreCoherent
<1>13. CASE Write(p)
  <2>1. id \in Ids
    BY <1>0, <1>13 DEF Write, JobFits, UserCommands
  <2>2. Coherent(id, Written(p))
    BY <1>0, CoherentOps DEF Written
  <2> QED
    BY <1>0, <1>13, <2>1, <2>2, SaveCoherent, FinishCoherent DEF Write
<1>14. CASE Delete(p)
  <2>1. id \in Ids
    BY <1>0, <1>14 DEF Delete, JobFits, UserCommands
  <2> QED
    BY <1>0, <1>14, <2>1, CoherentAbsent, SaveCoherent, FinishCoherent DEF Delete
<1>15. HookLoad(p) \/ HookState(p) \/ SweepEnds(p) \/ NameCheck(p) \/ SetTxId(p) \/ Load(p)
         => UNCHANGED store
  BY DEF HookLoad, HookState, SweepEnds, NameCheck, SetTxId, Load
<1> QED
  BY <1>a, <1>1, <1>2, <1>3, <1>4, <1>5, <1>6, <1>7, <1>8, <1>9, <1>10, <1>11,
     <1>12, <1>13, <1>14, <1>15 DEF Step

LEMMA EnvironmentCoherent ==
    ASSUME TypeOK, CopiesCoherent, Environment
    PROVE  CopiesCoherent'
<1>1. CASE \E id \in Ids : SessionEnds(id) \/ AgentExits(id)
  BY <1>1 DEF SessionEnds, AgentExits, local, CopiesCoherent, StoreCoherent
<1>2. CASE Elapse
  <2>1. \A id \in Ids : Coherent(id, store'[id])
    BY <1>2, CoherentOps DEF Elapse, CopiesCoherent, StoreCoherent, TypeOK
  <2>2. \A p \in Procs : Coherent(job'[p].id, copy'[p])
    BY <1>2, CoherentOps DEF Elapse, CopiesCoherent, TypeOK
  <2>3. \A p \in Procs, id \in Ids : Coherent(id, batch'[p][id])
    BY <1>2, CoherentOps DEF Elapse, CopiesCoherent, TypeOK
  <2> QED
    BY <2>1, <2>2, <2>3 DEF CopiesCoherent, StoreCoherent
<1> QED
  BY <1>1, <1>2 DEF Environment

-----------------------------------------------------------------------------
(* An established session is recorded as exited only when it has ended.    *)

\* What process q may not think of session e while tmux runs it.
Believes(q, e) ==
    /\ batch[q][e].state # "exited"
    /\ job[q].id = e => copy[q].state # "exited"
    /\ pc[q] \in {"read", "sweep"} => e \in scan[q].live
    /\ ~(pc[q] = "write" /\ job[q].cmd = "kill" /\ job[q].id = e)

LEMMA EstablishedSplit ==
    EstablishedInv <=>
        \A e \in Established :
            /\ tmux[e] \in {"live", "dead"}
            /\ tmux[e] = "live" => /\ store[e].state # "exited"
                                  /\ \A q \in Procs : Believes(q, e)
BY DEF EstablishedInv, Believes

LEMMA NotExitedOps ==
    ASSUME NEW r \in Record, r.state # "exited"
    PROVE  /\ Aged(r).state # "exited"
           /\ Ended(r, "archived").state # "exited"
           /\ \A c : [r EXCEPT !.chat = c].state # "exited"
           /\ \A n : [r EXCEPT !.name = n].state # "exited"
           /\ [r EXCEPT !.state = "idle"].state # "exited"
BY DEF Record, Aged, Ended

LEMMA FinishBelieves ==
    ASSUME TypeOK, NEW p \in Procs, Finish(p), NEW e \in Established,
           \A q \in Procs : Believes(q, e)
    PROVE  (\A q \in Procs : Believes(q, e))'
<1>1. /\ pc'[p] = "idle" /\ copy'[p] = NoRecord /\ batch'[p] = NoBatch
  BY DEF Finish, Goto, TypeOK
<1>2. Believes(p, e)'
  BY <1>1, LifecycleAssumption DEF Believes, NoBatch, NoRecord
<1>3. ASSUME NEW q \in Procs, q # p
      PROVE  Believes(q, e)'
  <2>1. /\ pc'[q] = pc[q] /\ job'[q] = job[q] /\ copy'[q] = copy[q]
        /\ scan'[q] = scan[q] /\ batch'[q] = batch[q]
    BY <1>3 DEF Finish, Goto, TypeOK
  <2> QED
    BY <2>1 DEF Believes
<1> QED
  BY <1>2, <1>3

\* A step of p that leaves the other processes' local state alone.
OthersKeep(p) ==
    \A q \in Procs : q # p => /\ pc'[q] = pc[q] /\ job'[q] = job[q]
                             /\ copy'[q] = copy[q] /\ scan'[q] = scan[q]
                             /\ batch'[q] = batch[q]

LEMMA OthersBelieve ==
    ASSUME NEW p \in Procs, OthersKeep(p), NEW e, Believes(p, e)',
           \A q \in Procs : Believes(q, e)
    PROVE  (\A q \in Procs : Believes(q, e))'
BY DEF OthersKeep, Believes

LEMMA StartEstablished ==
    ASSUME TypeOK, JobsFit, EstablishedInv, NEW p \in Procs, Start(p)
    PROVE  EstablishedInv'
<1>1. PICK l \in {"scan", "load", "hookLoad"} : \E j : Begin(p, j, l)
  BY DEF Start, StartReconcile, StartHook, StartCommand, StartSpawn, StartRename, Issue
<1>2. /\ copy[p] = NoRecord /\ UNCHANGED <<tmux, store>> /\ OthersKeep(p)
      /\ pc'[p] = l /\ copy'[p] = copy[p] /\ batch'[p] = batch[p]
  BY <1>1 DEF Begin, JobsFit, JobFits, OthersKeep, Goto, TypeOK
<1>3. ASSUME NEW e \in Established, tmux[e] = "live"
      PROVE  (\A q \in Procs : Believes(q, e))'
  <2>1. \A q \in Procs : Believes(q, e)
    BY <1>3, EstablishedSplit
  <2>2. Believes(p, e)'
    BY <1>2, <2>1 DEF Believes, NoRecord
  <2> QED
    BY <1>2, <2>1, <2>2, OthersBelieve
<1> QED
  BY <1>2, <1>3 DEF EstablishedInv, Believes

LEMMA StepEstablished ==
    ASSUME TypeOK, JobsFit, EstablishedInv, NEW p \in Procs, Step(p)
    PROVE  EstablishedInv'
<1> DEFINE id == job[p].id
<1>0. JobFits(p) /\ copy[p] \in Record
  BY DEF JobsFit, TypeOK
<1>t. ASSUME NEW e \in Established
      PROVE  tmux'[e] \in {"live", "dead"} /\ (tmux'[e] = "live" => tmux[e] = "live")
  <2>1. tmux[e] \in {"live", "dead"} /\ e \in Ids
    BY EstablishedSplit, LifecycleAssumption
  <2>2. CASE NewSession(p) \/ SetTxId(p)
    <3>1. id # e
      BY <1>0, <2>2 DEF NewSession, SetTxId, JobFits
    <3> QED
      BY <2>1, <2>2, <3>1 DEF NewSession, SetTxId, TypeOK
  <2>3. CASE KillTmux(p)
    BY <2>1, <2>3 DEF KillTmux, TypeOK
  <2>4. CASE ~(NewSession(p) \/ SetTxId(p) \/ KillTmux(p))
    BY <2>1, <2>4 DEF Step, HookLoad, HookCapture, HookState, HookSave, Scan, ReadAll,
       SweepEnds, NameCheck, SweepOne, SpawnSave, Load, Write, Delete
  <2> QED
    BY <2>2, <2>3, <2>4
<1> SUFFICES ASSUME NEW e \in Established, tmux'[e] = "live"
             PROVE  store'[e].state # "exited" /\ (\A q \in Procs : Believes(q, e))'
  BY <1>t DEF EstablishedInv, Believes
<1>e. /\ tmux[e] = "live" /\ e \in Ids /\ store[e].state # "exited"
      /\ store[e] \in Record
      /\ \A q \in Procs : Believes(q, e)
      /\ Believes(p, e)
  BY <1>t, EstablishedSplit, LifecycleAssumption DEF TypeOK
<1>a. CASE Finish(p) /\ UNCHANGED store
  BY <1>a, <1>e, FinishBelieves
<1>1. CASE HookLoad(p) /\ ~Finish(p)
  <2>1. /\ \E l \in {"hookCapture", "hookState"} : Goto(p, l)
        /\ copy' = [copy EXCEPT ![p] = store[id]]
        /\ UNCHANGED <<job, scan, batch, store>>
    BY <1>1 DEF HookLoad
  <2>2. OthersKeep(p) /\ Believes(p, e)'
    BY <1>e, <2>1 DEF OthersKeep, Believes, Goto, TypeOK
  <2> QED
    BY <1>e, <2>1, <2>2, OthersBelieve
<1>2. CASE HookCapture(p)
  <2>1. id = e => [copy[p] EXCEPT !.chat = "bound"].state # "exited"
    BY <1>0, <1>e, NotExitedOps DEF Believes
  <2>2. OthersKeep(p) /\ Believes(p, e)'
    BY <1>2, <1>e, <2>1 DEF HookCapture, OthersKeep, Believes, Goto, TypeOK
  <2>3. store'[e].state # "exited"
    BY <1>2, <1>e, <2>1 DEF HookCapture, Save, TypeOK
  <2> QED
    BY <1>e, <2>2, <2>3, OthersBelieve
<1>3. CASE HookState(p) /\ ~Finish(p)
  <2> DEFINE s == StateForEvent(job[p].ev)
  <2>1. /\ pc[p] = "hookState" /\ s # "none" /\ Goto(p, "hookSave")
        /\ copy' = [copy EXCEPT ![p] = Applied(store[id], s)]
        /\ UNCHANGED <<job, scan, batch, store>>
    BY <1>3 DEF HookState, Drives
  <2>2. s \in {"idle", "working", "waiting"}
    BY <2>1 DEF StateForEvent
  <2>3. id = e => Applied(store[id], s).state # "exited"
    <3> HIDE DEF s
    <3> QED
      BY <1>e, <2>2 DEF Applied, Record
  <2>4. OthersKeep(p) /\ Believes(p, e)'
    BY <1>e, <2>1, <2>3 DEF OthersKeep, Believes, Goto, TypeOK
  <2> QED
    BY <1>e, <2>1, <2>4, OthersBelieve
<1>4. CASE HookSave(p)
  <2>1. store'[e].state # "exited"
    BY <1>4, <1>e DEF HookSave, Save, TypeOK, Believes
  <2> QED
    BY <1>4, <1>e, <2>1, FinishBelieves DEF HookSave
<1>5. CASE Scan(p)
  <2>1. OthersKeep(p) /\ Believes(p, e)'
    BY <1>5, <1>e DEF Scan, OthersKeep, Believes, Goto, TypeOK
  <2> QED
    BY <1>5, <1>e, <2>1, OthersBelieve DEF Scan
<1>6. CASE ReadAll(p)
  <2>1. OthersKeep(p) /\ Believes(p, e)'
    BY <1>6, <1>e DEF ReadAll, OthersKeep, Believes, Goto, TypeOK
  <2> QED
    BY <1>6, <1>e, <2>1, OthersBelieve DEF ReadAll
<1>7. CASE SweepEnds(p) /\ ~Finish(p)
  <2>1. /\ Goto(p, "nameCheck") /\ UNCHANGED <<job, copy, batch, store>>
        /\ scan' = [scan EXCEPT ![p] = EmptyScan]
    BY <1>7 DEF SweepEnds
  <2>2. OthersKeep(p) /\ Believes(p, e)'
    BY <1>e, <2>1 DEF OthersKeep, Believes, Goto, TypeOK
  <2> QED
    BY <1>e, <2>1, <2>2, OthersBelieve
<1>8. CASE NameCheck(p) /\ ~Finish(p)
  <2>1. /\ Goto(p, IF job[p].cmd = "spawn" THEN "newSession" ELSE "write")
        /\ pc[p] = "nameCheck"
        /\ UNCHANGED <<job, copy, scan, batch, store>>
    BY <1>8 DEF NameCheck
  <2>2. OthersKeep(p) /\ Believes(p, e)'
    BY <1>0, <1>e, <2>1 DEF OthersKeep, Believes, Goto, TypeOK, JobFits
  <2> QED
    BY <1>e, <2>1, <2>2, OthersBelieve
<1>9. ASSUME NEW i \in Ids, SweepOne(p, i)
      PROVE  store'[e].state # "exited" /\ (\A q \in Procs : Believes(q, e))'
  <2>1. e \in scan[p].live /\ batch[p][e] \in Record
    BY <1>9, <1>e DEF SweepOne, Believes, TypeOK
  <2>2. Swept(p, e).state # "exited"
    BY <1>e, <2>1, NotExitedOps DEF Swept, Believes
  <2>3. store'[e].state # "exited"
    BY <1>9, <1>e, <2>2 DEF SweepOne, Save, TypeOK
  <2>4. OthersKeep(p) /\ Believes(p, e)'
    BY <1>9, <1>e DEF SweepOne, OthersKeep, Believes, TypeOK, NoRecord
  <2> QED
    BY <1>e, <2>3, <2>4, OthersBelieve
<1>10. CASE NewSession(p) \/ (SetTxId(p) /\ ~Finish(p))
  <2>1. /\ \E l \in {"setTxId", "spawnSave"} : Goto(p, l)
        /\ UNCHANGED <<job, copy, scan, batch, store>>
    BY <1>10 DEF NewSession, SetTxId
  <2>2. OthersKeep(p) /\ Believes(p, e)'
    BY <1>e, <2>1 DEF OthersKeep, Believes, Goto, TypeOK
  <2> QED
    BY <1>e, <2>1, <2>2, OthersBelieve
<1>11. CASE SpawnSave(p)
  <2>1. id # e
    BY <1>0, <1>11 DEF SpawnSave, JobFits
  <2>2. store'[e] = store[e]
    BY <1>11, <2>1, <1>e DEF SpawnSave, Save, TypeOK
  <2> QED
    BY <1>11, <1>e, <2>2, FinishBelieves DEF SpawnSave
<1>12. CASE Load(p) /\ ~Finish(p)
  <2>1. /\ Goto(p, AfterLoad(job[p].cmd)) /\ pc[p] = "load"
        /\ copy' = [copy EXCEPT ![p] = store[id]]
        /\ UNCHANGED <<job, scan, batch, store>>
    BY <1>12 DEF Load
  <2>2. OthersKeep(p) /\ Believes(p, e)'
    BY <1>e, <2>1 DEF OthersKeep, Believes, Goto, TypeOK, AfterLoad
  <2> QED
    BY <1>e, <2>1, <2>2, OthersBelieve
<1>13. CASE KillTmux(p)
  <2>1. id # e
    BY <1>13, <1>t, <1>e DEF KillTmux, TypeOK
  <2>2. OthersKeep(p) /\ Believes(p, e)'
    BY <1>13, <1>e, <2>1 DEF KillTmux, OthersKeep, Believes, Goto, TypeOK
  <2> QED
    BY <1>13, <1>e, <2>2, OthersBelieve DEF KillTmux
<1>14. CASE Write(p)
  <2>1. id = e => Written(p).state # "exited"
    BY <1>0, <1>14, <1>e, NotExitedOps DEF Write, Written, Believes
  <2>2. store'[e].state # "exited"
    BY <1>14, <1>e, <2>1 DEF Write, Save, TypeOK
  <2> QED
    BY <1>14, <1>e, <2>2, FinishBelieves DEF Write
<1>15. CASE Delete(p)
  <2>1. store'[e].state # "exited"
    BY <1>15, <1>e DEF Delete, Save, TypeOK, NoRecord
  <2> QED
    BY <1>15, <1>e, <2>1, FinishBelieves DEF Delete
<1>16. HookLoad(p) \/ HookState(p) \/ SweepEnds(p) \/ NameCheck(p) \/ SetTxId(p) \/ Load(p)
         => UNCHANGED store
  BY DEF HookLoad, HookState, SweepEnds, NameCheck, SetTxId, Load
<1> QED
  BY <1>a, <1>1, <1>2, <1>3, <1>4, <1>5, <1>6, <1>7, <1>8, <1>9, <1>10, <1>11,
     <1>12, <1>13, <1>14, <1>15, <1>16 DEF Step

LEMMA EnvironmentEstablished ==
    ASSUME TypeOK, EstablishedInv, Environment
    PROVE  EstablishedInv'
<1>1. ASSUME NEW id \in Ids, SessionEnds(id)
      PROVE  EstablishedInv'
  BY <1>1, LifecycleAssumption DEF SessionEnds, local, EstablishedInv, TypeOK
<1>2. ASSUME NEW id \in Ids, AgentExits(id)
      PROVE  EstablishedInv'
  BY <1>2 DEF AgentExits, local, EstablishedInv
<1>3. CASE Elapse
  <2>1. ASSUME NEW e \in Established, tmux[e] = "live", NEW q \in Procs
        PROVE  Believes(q, e)'
    <3>1. Believes(q, e) /\ e \in Ids
      BY <2>1, EstablishedSplit, LifecycleAssumption
    <3>2. /\ batch[q][e] \in Record /\ copy[q] \in Record
          /\ batch'[q][e] = Aged(batch[q][e]) /\ copy'[q] = Aged(copy[q])
          /\ UNCHANGED <<pc, job, scan>>
      BY <1>3, <3>1 DEF Elapse, TypeOK
    <3> QED
      BY <3>1, <3>2, NotExitedOps DEF Believes
  <2>2. ASSUME NEW e \in Established, tmux[e] = "live"
        PROVE  store'[e].state # "exited"
    <3>1. store[e] \in Record /\ store[e].state # "exited" /\ store'[e] = Aged(store[e])
      BY <1>3, <2>2, LifecycleAssumption DEF Elapse, TypeOK, EstablishedInv
    <3> QED
      BY <3>1, NotExitedOps
  <2> QED
    BY <1>3, <2>1, <2>2 DEF Elapse, EstablishedInv, Believes
<1> QED
  BY <1>1, <1>2, <1>3 DEF Environment

-----------------------------------------------------------------------------
(* The theorems.                                                           *)

IInv == TypeOK /\ JobsFit /\ CopiesCoherent /\ EstablishedInv

LEMMA CrashPreserves ==
    ASSUME IInv, NEW p \in Procs, Crash(p)
    PROVE  IInv'
<1>1. Finish(p) /\ UNCHANGED <<tmux, pane, store, budget>>
  BY DEF Crash
<1>2. TypeOK'
  BY <1>1, FinishType DEF IInv, TypeOK, LocalType
<1>3. JobsFit'
  BY <1>1, FinishFits DEF IInv
<1>4. CopiesCoherent'
  BY <1>1, FinishCoherent DEF IInv, CopiesCoherent, LocalCoherent, StoreCoherent
<1>5. ASSUME NEW e \in Established, tmux[e] = "live"
      PROVE  (\A q \in Procs : Believes(q, e))'
  <2>1. \A q \in Procs : Believes(q, e)
    BY <1>5, EstablishedSplit DEF IInv
  <2> QED
    BY <1>1, <1>5, <2>1, FinishBelieves DEF IInv
<1>6. EstablishedInv'
  BY <1>1, <1>5 DEF IInv, EstablishedInv, Believes
<1> QED
  BY <1>2, <1>3, <1>4, <1>6 DEF IInv

LEMMA InitIInv == Init => IInv
<1> SUFFICES ASSUME Init PROVE IInv
  OBVIOUS
<1>1. TypeOK
  BY InitType
<1>2. JobsFit
  BY DEF Init, JobsFit, JobFits, NoJob, UserCommands
<1>3. PICK n \in [Established -> Names], c \in [Established -> {"none", "pending"}] :
         store = [id \in Ids |-> IF id \in Established
                                THEN NewRecord(id, n[id], c[id])
                                ELSE NoRecord]
  BY DEF Init
<1>4. \A id \in Ids : Coherent(id, store[id]) /\ store[id].state # "exited"
  BY <1>3 DEF Coherent, Present, NewRecord, NoRecord, InitialFor, ValidFor, TerminalStates
<1>5. \A p \in Procs : job[p] = NoJob /\ pc[p] = "idle" /\ copy[p] = NoRecord /\ batch[p] = NoBatch
  BY DEF Init
<1>6. CopiesCoherent
  BY <1>4, <1>5, CoherentAbsent DEF CopiesCoherent, StoreCoherent, NoBatch
<1>7. \A id \in Established : tmux[id] = "live" /\ id \in Ids
  BY LifecycleAssumption DEF Init
<1>8. EstablishedInv
  BY <1>4, <1>5, <1>7 DEF EstablishedInv, NoBatch, NoRecord
<1> QED
  BY <1>1, <1>2, <1>6, <1>8 DEF IInv

LEMMA NextIInv == IInv /\ [Next]_vars => IInv'
<1> SUFFICES ASSUME IInv, [Next]_vars PROVE IInv'
  OBVIOUS
<1>1. ASSUME NEW p \in Procs, Start(p)
      PROVE  IInv'
  BY <1>1, StartType, StartFits, StartCoherent, StartEstablished DEF IInv
<1>2. ASSUME NEW p \in Procs, Step(p)
      PROVE  IInv'
  <2>1. JobFits(p)
    BY DEF IInv, JobsFit
  <2> QED
    BY <1>2, <2>1, StepType, StepFits, StepCoherent, StepEstablished DEF IInv
<1>3. ASSUME NEW p \in Procs, Crash(p)
      PROVE  IInv'
  BY <1>3, CrashPreserves
<1>4. CASE Environment
  BY <1>4, EnvironmentType, EnvironmentFits, EnvironmentCoherent, EnvironmentEstablished
     DEF IInv
<1>5. CASE UNCHANGED vars
  BY <1>5 DEF vars, local, IInv, TypeOK, JobsFit, JobFits, CopiesCoherent, StoreCoherent,
     EstablishedInv
<1> QED
  BY <1>1, <1>2, <1>3, <1>4, <1>5 DEF Next

\* Every variable of the model keeps its type, whatever the processes do.
THEOREM Typing == Spec => []TypeOK
<1>1. IInv => TypeOK
  BY DEF IInv
<1> QED
  BY <1>1, InitIInv, NextIInv, PTL DEF Spec

\* Records are coherent for any number of processes that load, change and
\* save whole records over each other (store.py has no lock): every process
\* saves a copy that was coherent when loaded and that it kept coherent.
THEOREM RecordsStayCoherent == Spec => []StoreCoherent
<1>1. IInv => StoreCoherent
  BY DEF IInv, CopiesCoherent
<1> QED
  BY <1>1, InitIInv, NextIInv, PTL DEF Spec

\* A session that was running and recorded before the sweeps around it began
\* is never recorded as exited while tmux runs it (reconcile.py, kill).
THEOREM EstablishedExitsAreReal == Spec => []EstablishedExitIsReal
<1>1. IInv => EstablishedExitIsReal
  BY DEF IInv, EstablishedInv, EstablishedExitIsReal
<1> QED
  BY <1>1, InitIInv, NextIInv, PTL DEF Spec

-----------------------------------------------------------------------------
(* One process at a time.                                                  *)

OneAtATime == \A p, q \in Procs : p = q

\* A record in memory says what the file of the session says.
AsStored(i, r) == r.state = store[i].state /\ r.name = store[i].name

\* A rename holds its record across its own sweep, which may have demoted or ended it.
AsBeforeSweep(i, r) ==
    /\ Present(store[i])
    /\ r.name = store[i].name
    /\ \/ r.state = store[i].state
       \/ IsAlive(r) /\ (IsAlive(store[i]) \/ store[i].state = "exited")

\* What tmux runs and what the store says of one session.
Recorded(i) ==
    /\ Present(store[i]) => tmux[i] \in {"live", "dead"}
    /\ ~Present(store[i]) => store[i] = NoRecord
    /\ store[i].state = "exited" => tmux[i] = "dead"

\* How far a spawn has come with its session, which has no record before its last step.
SpawnKnows(p) ==
    job[p].cmd = "spawn" =>
        /\ ~Present(store[job[p].id])
        /\ pc[p] \in {"scan", "read", "sweep", "nameCheck", "newSession"} =>
              tmux[job[p].id] = "unborn"
        /\ pc[p] = "setTxId" => tmux[job[p].id] \in {"untagged", "dead"}
        /\ pc[p] = "spawnSave" => tmux[job[p].id] \in {"live", "dead"}

\* What the copy a process is about to save has to do with the file.
CopyKnows(p) ==
    LET i == job[p].id IN
    /\ pc[p] \in {"hookCapture", "killTmux", "write"} /\ job[p].cmd # "rename" =>
          Present(store[i]) /\ AsStored(i, copy[p])
    /\ pc[p] = "hookSave" =>
          /\ IsAlive(store[i]) /\ copy[p].name = store[i].name
          /\ copy[p].state \in {"idle", "working", "waiting"}
    /\ pc[p] = "write" /\ job[p].cmd = "kill" => tmux[i] = "dead"
    /\ pc[p] \in {"scan", "read", "sweep", "nameCheck", "write"} /\ job[p].cmd = "rename" =>
          AsBeforeSweep(i, copy[p])

\* What a sweep has listed and read still holds.
SweepKnows(p) ==
    /\ pc[p] \in {"read", "sweep"} =>
          \A i \in Ids : Present(store[i]) => i \in scan[p].live \/ tmux[i] = "dead"
    /\ pc[p] = "sweep" =>
          \A i \in Ids : Present(batch[p][i]) => AsStored(i, batch[p][i])

\* The name that was free when it was checked is free until the record is saved.
NameKnown(p) ==
    \/ pc[p] \in {"newSession", "setTxId", "spawnSave"}
    \/ pc[p] = "write" /\ job[p].cmd = "rename"
    => NameFree(job[p].name)

Knows(p) == SpawnKnows(p) /\ CopyKnows(p) /\ SweepKnows(p) /\ NameKnown(p)

\* The inductive invariant of a store that one process at a time works on.
SeqInv ==
    /\ \A i \in Ids : Recorded(i)
    /\ LiveNamesUnique
    /\ \A p \in Procs : Knows(p)

\* Saving r as the record of session i is an edge of the registry, or changes nothing its
\* readers see.
Edge(i, r) ==
    \/ Present(store[i]) /\ AsStored(i, r)
    \/ /\ IsAlive(store[i])
       /\ r.name = store[i].name
       /\ \/ IsAlive(r) /\ r.state \in ValidFor(i)
          \/ r.state = "exited" /\ tmux[i] = "dead"
          \/ r.state = "archived"
    \/ r = NoRecord
    \/ /\ store[i] = NoRecord /\ tmux[i] \in {"live", "dead"}
       /\ r.name \in Names /\ NameFree(r.name)
       /\ r.state = InitialFor(i)
    \/ /\ Present(store[i])
       /\ r.name \in Names /\ NameFree(r.name)
       /\ \/ r.state = store[i].state
          \/ /\ IsAlive(store[i]) \/ (store[i].state = "exited" /\ tmux[i] = "dead")
             /\ IsAlive(r) /\ r.state \in ValidFor(i)

SavesAnEdge == \E i \in Ids, r \in Record : Save(i, r) /\ Edge(i, r)

LEMMA AgedKeeps ==
    ASSUME NEW r \in Record
    PROVE  Aged(r).state = r.state /\ Aged(r).name = r.name
BY DEF Aged, Record

LEMMA ElapseKeeps ==
    ASSUME TypeOK, Elapse
    PROVE  /\ \A i \in Ids : store'[i].state = store[i].state /\ store'[i].name = store[i].name
           /\ \A i \in Ids : store[i] = NoRecord => store'[i] = NoRecord
           /\ \A p \in Procs : copy'[p].state = copy[p].state /\ copy'[p].name = copy[p].name
           /\ \A p \in Procs, i \in Ids : /\ batch'[p][i].state = batch[p][i].state
                                         /\ batch'[p][i].name = batch[p][i].name
<1>1. Aged(NoRecord) = NoRecord
  BY DEF Aged, NoRecord
<1> QED
  BY <1>1, AgedKeeps DEF Elapse, TypeOK

LEMMA FinishKnows ==
    ASSUME TypeOK, NEW p \in Procs, Finish(p)
    PROVE  Knows(p)'
<1>1. pc'[p] = "idle" /\ job'[p].cmd = "none"
  BY DEF Finish, Goto, TypeOK, NoJob
<1> QED
  BY <1>1 DEF Knows, SpawnKnows, CopyKnows, SweepKnows, NameKnown

LEMMA StartKnows ==
    ASSUME TypeOK, \A i \in Ids : Recorded(i), NEW p \in Procs, Start(p)
    PROVE  Knows(p)' /\ UNCHANGED <<tmux, store>>
<1> USE DEF Knows, SpawnKnows, CopyKnows, SweepKnows, NameKnown
<1>1. CASE StartReconcile(p)
  <2>1. pc'[p] = "scan" /\ job'[p].cmd = "reconcile" /\ UNCHANGED <<tmux, store>>
    BY <1>1 DEF StartReconcile, Begin, Goto, NoJob, TypeOK
  <2> QED
    BY <2>1
<1>2. ASSUME NEW id \in Ids, NEW ev \in Events, StartHook(p, id, ev)
      PROVE  Knows(p)' /\ UNCHANGED <<tmux, store>>
  <2>1. pc'[p] = "hookLoad" /\ job'[p].cmd = "hook" /\ UNCHANGED <<tmux, store>>
    BY <1>2 DEF StartHook, Begin, Goto, NoJob, TypeOK
  <2> QED
    BY <2>1
<1>3. ASSUME NEW id \in Ids, NEW cmd \in UserCommands, NEW n, cmd # "spawn",
             Issue(p, cmd, id, n, "load")
      PROVE  Knows(p)' /\ UNCHANGED <<tmux, store>>
  <2>1. pc'[p] = "load" /\ job'[p].cmd = cmd /\ UNCHANGED <<tmux, store>>
    BY <1>3 DEF Issue, Begin, Goto, NoJob, TypeOK
  <2> QED
    BY <1>3, <2>1
<1>4. ASSUME NEW id \in Ids, NEW n \in Names, StartSpawn(p, id, n)
      PROVE  Knows(p)' /\ UNCHANGED <<tmux, store>>
  <2>1. /\ pc'[p] = "scan" /\ job'[p].cmd = "spawn" /\ job'[p].id = id
        /\ UNCHANGED <<tmux, store>> /\ tmux[id] = "unborn"
    BY <1>4 DEF StartSpawn, Issue, Begin, Goto, NoJob, TypeOK
  <2>2. ~Present(store[id])
    BY <2>1 DEF Recorded
  <2> QED
    BY <2>1, <2>2
<1> QED
  BY <1>1, <1>2, <1>3, <1>4 DEF Start, StartCommand, StartRename, UserCommands

LEMMA EndedEdge ==
    ASSUME NEW i \in Ids, NEW r \in Record, Present(store[i]), AsStored(i, r),
           NEW s \in {"exited", "archived"}, s = "exited" => tmux[i] = "dead"
    PROVE  Edge(i, Ended(r, s))
<1>1. CASE CanTransition(r, s)
  <2>1. Ended(r, s).state = s /\ Ended(r, s).name = r.name
    BY <1>1 DEF Ended, Record
  <2> QED
    BY <1>1, <2>1 DEF Edge, AsStored, CanTransition, IsAlive
<1>2. CASE ~CanTransition(r, s)
  BY <1>2 DEF Edge, Ended
<1> QED
  BY <1>1, <1>2

LEMMA StepEdge ==
    ASSUME IInv, \A i \in Ids : Recorded(i), NEW p \in Procs, Knows(p), Step(p)
    PROVE  UNCHANGED store \/ (UNCHANGED tmux /\ SavesAnEdge)
<1> DEFINE id == job[p].id
<1>0. /\ JobFits(p) /\ TypeOK /\ copy[p] \in Record
      /\ id \in Ids => store[id] \in Record
      /\ Coherent(id, copy[p])
  BY DEF IInv, JobsFit, TypeOK, CopiesCoherent
<1>1. CASE HookCapture(p)
  <2>1. id \in Ids /\ Present(store[id]) /\ AsStored(id, copy[p])
    BY <1>0, <1>1 DEF HookCapture, JobFits, Knows, CopyKnows
  <2>2. [copy[p] EXCEPT !.chat = "bound"] \in Record
    BY <1>0, RecordOps
  <2>3. Edge(id, [copy[p] EXCEPT !.chat = "bound"])
    BY <1>0, <2>1 DEF Edge, AsStored, Record
  <2> QED
    BY <1>1, <2>1, <2>2, <2>3 DEF HookCapture, SavesAnEdge
<1>2. CASE HookSave(p)
  <2>1. id \in Ids /\ id \in LlmIds
    BY <1>0, <1>2 DEF HookSave, JobFits
  <2>2. Edge(id, copy[p])
    BY <1>2, <2>1 DEF HookSave, Knows, CopyKnows, Edge, IsAlive, LiveStates, ValidFor
  <2> QED
    BY <1>0, <1>2, <2>1, <2>2 DEF HookSave, SavesAnEdge
<1>3. ASSUME NEW i \in Ids, SweepOne(p, i)
      PROVE  UNCHANGED store \/ (UNCHANGED tmux /\ SavesAnEdge)
  <2> DEFINE r == batch[p][i]
  <2>1. /\ r \in Record /\ Present(r) /\ AsStored(i, r)
        /\ store[i] \in Record
    BY <1>0, <1>3 DEF SweepOne, TypeOK, Knows, SweepKnows
  <2>2. Present(store[i]) /\ (i \in scan[p].live \/ tmux[i] = "dead")
    BY <1>3, <2>1 DEF SweepOne, Knows, SweepKnows, AsStored, Present
  <2>3. Swept(p, i) \in Record
    BY <2>1, RecordOps DEF Swept, TerminalStates
  <2>4. CASE i \notin scan[p].live
    <3>1. Swept(p, i) = Ended(r, "exited")
      BY <2>4 DEF Swept
    <3>2. Edge(i, Swept(p, i))
      BY <2>1, <2>2, <2>4, <3>1, EndedEdge
    <3> QED
      BY <1>3, <2>3, <3>2 DEF SweepOne, SavesAnEdge
  <2>5. CASE i \in scan[p].live /\ IsStuck(p, i)
    <3>1. Swept(p, i) = [r EXCEPT !.state = "idle"]
      BY <2>5 DEF Swept
    <3>2. /\ [r EXCEPT !.state = "idle"].state = "idle"
          /\ [r EXCEPT !.state = "idle"].name = r.name
      BY <2>1 DEF Record
    <3>3. r.state = "working" /\ i \in LlmIds
      BY <2>5 DEF IsStuck
    <3>4. Edge(i, Swept(p, i))
      BY <2>1, <3>1, <3>2, <3>3 DEF Edge, AsStored, IsAlive, LiveStates, ValidFor
    <3> QED
      BY <1>3, <2>3, <3>4 DEF SweepOne, SavesAnEdge
  <2>6. CASE i \in scan[p].live /\ ~IsStuck(p, i)
    BY <1>3, <2>6 DEF SweepOne, Swept
  <2> QED
    BY <2>4, <2>5, <2>6
<1>4. CASE SpawnSave(p)
  <2>1. id \in Ids /\ job[p].name \in Names /\ job[p].cmd = "spawn"
    BY <1>0, <1>4 DEF SpawnSave, JobFits, UserCommands
  <2>2. PICK c \in ChatsAtSpawn(id) : Save(id, NewRecord(id, job[p].name, c))
    BY <1>4 DEF SpawnSave
  <2>3. NewRecord(id, job[p].name, c) \in Record
    BY <2>1, NewRecordType
  <2>4. /\ NameFree(job[p].name) /\ tmux[id] \in {"live", "dead"}
        /\ ~Present(store[id])
    BY <1>4, <2>1 DEF SpawnSave, Knows, SpawnKnows, NameKnown
  <2>5. store[id] = NoRecord
    BY <2>1, <2>4 DEF Recorded
  <2>6. Edge(id, NewRecord(id, job[p].name, c))
    BY <2>1, <2>4, <2>5 DEF Edge, NewRecord
  <2> QED
    BY <1>4, <2>1, <2>2, <2>3, <2>6 DEF SpawnSave, SavesAnEdge
<1>5. CASE Write(p)
  <2>1. id \in Ids /\ job[p].cmd \in {"kill", "archive", "label", "rename"}
    BY <1>0, <1>5 DEF Write, JobFits, UserCommands
  <2>2. Written(p) \in Record
    <3>1. job[p].cmd = "rename" => job[p].name \in Names
      BY <1>0 DEF JobFits
    <3> QED
      BY <1>0, <3>1, RecordOps DEF Written, TerminalStates
  <2>3. CASE job[p].cmd = "rename"
    <3>1. /\ AsBeforeSweep(id, copy[p]) /\ NameFree(job[p].name)
          /\ job[p].name \in Names
      BY <1>0, <1>5, <2>3 DEF Write, Knows, CopyKnows, NameKnown, JobFits
    <3>2. /\ Written(p).state = copy[p].state /\ Written(p).name = job[p].name
      BY <1>0, <2>3 DEF Written, Record
    <3>3. store[id].state = "exited" => tmux[id] = "dead"
      BY <2>1 DEF Recorded
    <3>4. IsAlive(copy[p]) => copy[p].state \in ValidFor(id)
      BY <1>0 DEF Coherent, IsAlive, Present, LiveStates
    <3>5. Edge(id, Written(p))
      BY <3>1, <3>2, <3>3, <3>4 DEF AsBeforeSweep, Edge, IsAlive
    <3> QED
      BY <1>5, <2>1, <2>2, <3>5 DEF Write, SavesAnEdge
  <2>4. CASE job[p].cmd # "rename"
    <3>1. Present(store[id]) /\ AsStored(id, copy[p])
      BY <1>5, <2>4 DEF Write, Knows, CopyKnows
    <3>2. job[p].cmd = "kill" => tmux[id] = "dead"
      BY <1>5 DEF Write, Knows, CopyKnows
    <3>3. /\ job[p].cmd = "kill" => Edge(id, Ended(copy[p], "exited"))
          /\ job[p].cmd = "archive" => Edge(id, Ended(copy[p], "archived"))
      BY <1>0, <2>1, <3>1, <3>2, EndedEdge
    <3>4. Edge(id, copy[p])
      BY <3>1 DEF Edge
    <3>5. Edge(id, Written(p))
      BY <2>1, <2>4, <3>2, <3>3, <3>4 DEF Written
    <3> QED
      BY <1>5, <2>1, <2>2, <3>5 DEF Write, SavesAnEdge
  <2> QED
    BY <2>3, <2>4
<1>6. CASE Delete(p)
  <2>1. id \in Ids
    BY <1>0, <1>6 DEF Delete, JobFits, UserCommands
  <2> QED
    BY <1>6, <2>1, NoRecordType DEF Delete, SavesAnEdge, Edge
<1> QED
  BY <1>1, <1>2, <1>3, <1>4, <1>5, <1>6 DEF Step, HookLoad, HookState, Scan, ReadAll,
     SweepEnds, NameCheck, NewSession, SetTxId, Load, KillTmux

LEMMA EdgeKeeps ==
    ASSUME TypeOK, \A i \in Ids : Recorded(i), LiveNamesUnique,
           UNCHANGED tmux, SavesAnEdge
    PROVE  (\A i \in Ids : Recorded(i))' /\ LiveNamesUnique'
<1>1. PICK i \in Ids, r \in Record : Save(i, r) /\ Edge(i, r)
  BY DEF SavesAnEdge
<1>2. store'[i] = r /\ \A j \in Ids : j # i => store'[j] = store[j]
  BY <1>1 DEF Save, TypeOK
<1>3. Recorded(i)'
  <2>1. Present(r) => tmux[i] \in {"live", "dead"}
    BY <1>1 DEF Edge, Recorded, Present, IsAlive, LiveStates, NoRecord
  <2>2. ~Present(r) => r = NoRecord
    BY <1>1 DEF Edge, AsStored, Present, IsAlive, LiveStates, InitialFor
  <2>3. r.state = "exited" => tmux[i] = "dead"
    BY <1>1 DEF Edge, AsStored, Recorded, IsAlive, LiveStates, NoRecord, InitialFor
  <2> QED
    BY <1>2, <2>1, <2>2, <2>3 DEF Recorded
<1>4. \A j \in Ids : j # i => Recorded(j)'
  BY <1>2 DEF Recorded
<1>5. ASSUME NEW j \in Ids, j # i, IsAlive(r), IsAlive(store[j])
      PROVE  r.name # store[j].name
  <2>1. \/ IsAlive(store[i]) /\ r.name = store[i].name
        \/ NameFree(r.name)
    BY <1>1, <1>5 DEF Edge, AsStored, IsAlive, LiveStates, NoRecord
  <2> QED
    BY <1>5, <2>1 DEF NameFree, LiveNamesUnique
<1>6. LiveNamesUnique'
  BY <1>2, <1>5 DEF LiveNamesUnique
<1> QED
  BY <1>3, <1>4, <1>6

LEMMA StepKnows ==
    ASSUME IInv, \A i \in Ids : Recorded(i), NEW p \in Procs, Knows(p), Step(p)
    PROVE  Knows(p)'
<1> DEFINE id == job[p].id
<1> USE DEF Knows
<1>0. /\ JobFits(p) /\ TypeOK /\ copy[p] \in Record
      /\ id \in Ids => store[id] \in Record /\ Recorded(id)
  BY DEF IInv, JobsFit, TypeOK
<1>a. CASE Finish(p)
  BY <1>0, <1>a, FinishKnows
<1>1. CASE HookLoad(p) /\ ~Finish(p)
  <2>1. /\ Present(store[id]) /\ job[p].cmd = "hook"
        /\ pc'[p] \in {"hookCapture", "hookState"} /\ copy'[p] = store[id]
        /\ UNCHANGED <<store, job>>
    BY <1>0, <1>1 DEF HookLoad, Goto, TypeOK, JobFits
  <2> QED
    BY <2>1 DEF SpawnKnows, CopyKnows, SweepKnows, NameKnown, AsStored
<1>2. CASE HookCapture(p)
  <2>1. pc'[p] = "hookState" /\ job'[p].cmd = "hook"
    BY <1>0, <1>2 DEF HookCapture, Goto, TypeOK, JobFits
  <2> QED
    BY <2>1 DEF SpawnKnows, CopyKnows, SweepKnows, NameKnown
<1>3. CASE HookState(p) /\ ~Finish(p)
  <2> DEFINE s == StateForEvent(job[p].ev)
  <2>1. /\ pc[p] = "hookState" /\ s # "none" /\ IsAlive(store[id])
        /\ pc'[p] = "hookSave" /\ copy'[p] = Applied(store[id], s)
        /\ UNCHANGED <<store, job>>
    BY <1>0, <1>3 DEF HookState, Drives, CanTransition, Goto, TypeOK
  <2>2. s \in {"idle", "working", "waiting"}
    BY <2>1 DEF StateForEvent
  <2>3. id \in Ids /\ job[p].cmd = "hook"
    BY <1>0, <2>1 DEF JobFits
  <2>4. Applied(store[id], s).state = s /\ Applied(store[id], s).name = store[id].name
    <3> HIDE DEF s
    <3> QED
      BY <1>0, <2>3 DEF Applied, Record
  <2> QED
    BY <2>1, <2>2, <2>3, <2>4 DEF SpawnKnows, CopyKnows, SweepKnows, NameKnown
<1>4. CASE Scan(p)
  <2>1. /\ pc[p] = "scan" /\ pc'[p] = "read"
        /\ scan'[p].live = {i \in Ids : tmux[i] = "live"}
        /\ UNCHANGED <<tmux, store, job, copy>>
    BY <1>0, <1>4 DEF Scan, Goto, TypeOK
  <2>2. SweepKnows(p)'
    BY <2>1 DEF SweepKnows, Recorded
  <2> QED
    BY <2>1, <2>2 DEF SpawnKnows, CopyKnows, NameKnown, AsBeforeSweep
<1>5. CASE ReadAll(p)
  <2>1. /\ pc[p] = "read" /\ pc'[p] = "sweep" /\ batch'[p] = store
        /\ UNCHANGED <<tmux, store, job, copy, scan>>
    BY <1>0, <1>5 DEF ReadAll, Goto, TypeOK
  <2>2. SweepKnows(p)'
    BY <2>1 DEF SweepKnows, AsStored
  <2> QED
    BY <2>1, <2>2 DEF SpawnKnows, CopyKnows, NameKnown, AsBeforeSweep
<1>6. ASSUME NEW i \in Ids, SweepOne(p, i)
      PROVE  Knows(p)'
  <2> DEFINE r == batch[p][i]
  <2>1. /\ pc[p] = "sweep" /\ r \in Record /\ Present(r) /\ store[i] \in Record
        /\ r.state = store[i].state /\ r.name = store[i].name
        /\ UNCHANGED <<tmux, pc, job, copy, scan>>
        /\ \A j \in Ids : j # i => store'[j] = store[j] /\ batch'[p][j] = batch[p][j]
        /\ batch'[p][i] = NoRecord
    BY <1>0, <1>6 DEF SweepOne, Save, SweepKnows, AsStored, TypeOK
  <2>2. /\ store'[i].name = store[i].name
        /\ \/ store'[i].state = store[i].state
           \/ IsAlive(store[i]) /\ (IsAlive(store'[i]) \/ store'[i].state = "exited")
    <3>1. store'[i] = IF Swept(p, i) # r THEN Swept(p, i) ELSE store[i]
      BY <1>0, <1>6 DEF SweepOne, Save, TypeOK
    <3>2. /\ Ended(r, "exited").name = r.name
          /\ \/ Ended(r, "exited").state = r.state
             \/ IsAlive(r) /\ Ended(r, "exited").state = "exited"
      BY <2>1 DEF Ended, CanTransition, Record
    <3>3. /\ [r EXCEPT !.state = "idle"].name = r.name
          /\ [r EXCEPT !.state = "idle"].state = "idle"
      BY <2>1 DEF Record
    <3>4. CASE i \notin scan[p].live
      BY <2>1, <3>1, <3>2, <3>4 DEF Swept, IsAlive
    <3>5. CASE i \in scan[p].live /\ IsStuck(p, i)
      BY <2>1, <3>1, <3>3, <3>5 DEF Swept, IsStuck, IsAlive, LiveStates
    <3>6. CASE i \in scan[p].live /\ ~IsStuck(p, i)
      BY <2>1, <3>1, <3>6 DEF Swept
    <3> QED
      BY <3>4, <3>5, <3>6
  <2>3. Present(store[i]) /\ Present(store'[i])
    BY <2>1, <2>2 DEF Present, IsAlive, LiveStates
  <2>4. SpawnKnows(p)'
    <3>1. job[p].cmd = "spawn" => id # i /\ id \in Ids
      BY <1>0, <2>3 DEF SpawnKnows, JobFits, UserCommands
    <3> QED
      BY <2>1, <3>1 DEF SpawnKnows
  <2>5. SweepKnows(p)'
    BY <2>1, <2>3, NoRecordType DEF SweepKnows, AsStored
  <2>6. CopyKnows(p)'
    <3>1. CASE job[p].cmd = "rename"
      <4>1. AsBeforeSweep(id, copy[p]) /\ id \in Ids
        BY <1>0, <2>1, <3>1 DEF CopyKnows, JobFits, UserCommands
      <4>2. AsBeforeSweep(id, copy[p])'
        BY <2>1, <2>2, <2>3, <4>1 DEF AsBeforeSweep, IsAlive
      <4> QED
        BY <2>1, <3>1, <4>2 DEF CopyKnows
    <3>2. CASE job[p].cmd # "rename"
      BY <2>1, <3>2 DEF CopyKnows
    <3> QED
      BY <3>1, <3>2
  <2>7. NameKnown(p)'
    BY <2>1 DEF NameKnown
  <2> QED
    BY <2>4, <2>5, <2>6, <2>7
<1>7. CASE SweepEnds(p) /\ ~Finish(p)
  <2>1. /\ pc[p] = "sweep" /\ pc'[p] = "nameCheck"
        /\ UNCHANGED <<tmux, store, job, copy>>
    BY <1>0, <1>7 DEF SweepEnds, Goto, TypeOK
  <2> QED
    BY <2>1 DEF SpawnKnows, CopyKnows, SweepKnows, NameKnown, AsBeforeSweep
<1>8. CASE NameCheck(p) /\ ~Finish(p)
  <2>1. /\ pc[p] = "nameCheck" /\ NameFree(job[p].name)
        /\ pc'[p] = IF job[p].cmd = "spawn" THEN "newSession" ELSE "write"
        /\ job[p].cmd \in {"spawn", "rename"}
        /\ UNCHANGED <<tmux, store, job, copy>>
    BY <1>0, <1>8 DEF NameCheck, Goto, TypeOK, JobFits
  <2> QED
    BY <2>1 DEF SpawnKnows, CopyKnows, SweepKnows, NameKnown, AsBeforeSweep, NameFree
<1>9. CASE NewSession(p)
  <2>1. /\ pc[p] = "newSession" /\ pc'[p] = "setTxId" /\ job[p].cmd = "spawn"
        /\ id \in Ids /\ tmux'[id] = "untagged"
        /\ UNCHANGED <<store, job>>
    BY <1>0, <1>9 DEF NewSession, Goto, TypeOK, JobFits, UserCommands
  <2> QED
    BY <2>1 DEF SpawnKnows, CopyKnows, SweepKnows, NameKnown, NameFree
<1>10. CASE SetTxId(p) /\ ~Finish(p)
  <2>1. /\ pc[p] = "setTxId" /\ pc'[p] = "spawnSave" /\ job[p].cmd = "spawn"
        /\ id \in Ids /\ tmux'[id] = "live"
        /\ UNCHANGED <<store, job>>
    BY <1>0, <1>10 DEF SetTxId, Goto, TypeOK, JobFits, UserCommands
  <2> QED
    BY <2>1 DEF SpawnKnows, CopyKnows, SweepKnows, NameKnown, NameFree
<1>11. CASE Load(p) /\ ~Finish(p)
  <2>1. /\ Present(store[id]) /\ copy'[p] = store[id]
        /\ pc'[p] = AfterLoad(job[p].cmd)
        /\ job[p].cmd \in {"kill", "archive", "rm", "label", "rename"}
        /\ UNCHANGED <<tmux, store, job>>
    BY <1>0, <1>11 DEF Load, Goto, TypeOK, JobFits
  <2>2. /\ pc'[p] \in {"killTmux", "delete", "scan", "write"}
        /\ pc'[p] = "write" => job[p].cmd \in {"archive", "label"}
    BY <2>1 DEF AfterLoad
  <2> QED
    BY <2>1, <2>2 DEF SpawnKnows, CopyKnows, SweepKnows, NameKnown, AsStored, AsBeforeSweep
<1>12. CASE KillTmux(p)
  <2>1. /\ pc[p] = "killTmux" /\ pc'[p] = "write" /\ job[p].cmd = "kill" /\ id \in Ids
        /\ tmux'[id] = IF tmux[id] \in {"untagged", "live"} THEN "dead" ELSE tmux[id]
        /\ UNCHANGED <<store, job, copy>>
    BY <1>0, <1>12 DEF KillTmux, Goto, TypeOK, JobFits, UserCommands
  <2>2. Present(store[id]) /\ AsStored(id, copy[p])
    BY <2>1 DEF CopyKnows
  <2>3. tmux'[id] = "dead"
    BY <1>0, <2>1, <2>2 DEF Recorded
  <2> QED
    BY <2>1, <2>2, <2>3 DEF SpawnKnows, CopyKnows, SweepKnows, NameKnown, AsStored
<1>13. CASE HookSave(p) \/ SpawnSave(p) \/ Write(p) \/ Delete(p)
  BY <1>a, <1>13 DEF HookSave, SpawnSave, Write, Delete
<1> QED
  BY <1>a, <1>1, <1>2, <1>3, <1>4, <1>5, <1>6, <1>7, <1>8, <1>9, <1>10, <1>11,
     <1>12, <1>13 DEF Step

\* A step that saves nothing changes no session a record is kept of, but for its end.
LEMMA StepTmux ==
    ASSUME IInv, \A i \in Ids : Recorded(i), NEW p \in Procs, Knows(p), Step(p),
           UNCHANGED store
    PROVE  /\ (\A i \in Ids : Recorded(i))'
           /\ \/ {i \in Ids : tmux'[i] = "dead"} = {i \in Ids : tmux[i] = "dead"}
              \/ \E i \in Ids : {j \in Ids : tmux'[j] = "dead"}
                                   = {j \in Ids : tmux[j] = "dead"} \cup {i}
<1> DEFINE id == job[p].id
<1>0. JobFits(p) /\ TypeOK
  BY DEF IInv, JobsFit
<1>1. CASE NewSession(p) \/ SetTxId(p)
  <2>1. /\ id \in Ids /\ ~Present(store[id])
        /\ \/ tmux' = tmux
           \/ /\ tmux[id] \in {"unborn", "untagged"}
              /\ \E t \in {"untagged", "live"} : tmux' = [tmux EXCEPT ![id] = t]
    BY <1>0, <1>1 DEF NewSession, SetTxId, JobFits, UserCommands, Knows, SpawnKnows
  <2>2. (\A i \in Ids : Recorded(i))'
    BY <1>0, <2>1 DEF Recorded, TypeOK, Present
  <2>3. \A i \in Ids : tmux'[i] = "dead" <=> tmux[i] = "dead"
    BY <1>0, <2>1 DEF TypeOK
  <2> QED
    BY <2>2, <2>3
<1>2. CASE KillTmux(p)
  <2>1. /\ id \in Ids /\ tmux[id] \in {"live", "dead"}
        /\ tmux' = [tmux EXCEPT ![id] = "dead"]
    BY <1>0, <1>2 DEF KillTmux, JobFits, UserCommands, Knows, CopyKnows, Recorded
  <2>2. (\A i \in Ids : Recorded(i))'
    BY <1>0, <2>1 DEF Recorded, TypeOK
  <2>3. {i \in Ids : tmux'[i] = "dead"} = {i \in Ids : tmux[i] = "dead"} \cup {id}
    BY <1>0, <2>1 DEF TypeOK
  <2> QED
    BY <2>1, <2>2, <2>3
<1>3. CASE UNCHANGED tmux
  BY <1>3 DEF Recorded
<1> QED
  BY <1>1, <1>2, <1>3 DEF Step, HookLoad, HookCapture, HookState, HookSave, Scan, ReadAll,
     SweepOne, SweepEnds, NameCheck, SpawnSave, Load, Write, Delete

LEMMA EnvironmentKnows ==
    ASSUME TypeOK, JobsFit, SeqInv, Environment
    PROVE  SeqInv'
<1>1. ASSUME NEW e \in Ids, SessionEnds(e)
      PROVE  SeqInv'
  <2>1. /\ tmux[e] \in {"untagged", "live"} /\ tmux' = [tmux EXCEPT ![e] = "dead"]
        /\ UNCHANGED <<store, pc, job, copy, scan, batch>>
    BY <1>1 DEF SessionEnds, local
  <2>2. \A i \in Ids : tmux'[i] = IF i = e THEN "dead" ELSE tmux[i]
    BY <2>1 DEF TypeOK
  <2>3. (\A i \in Ids : Recorded(i))'
    BY <2>1, <2>2 DEF SeqInv, Recorded
  <2>4. LiveNamesUnique'
    BY <2>1 DEF SeqInv, LiveNamesUnique
  <2>5. ASSUME NEW p \in Procs
        PROVE  Knows(p)'
    <3>1. Knows(p)
      BY DEF SeqInv, JobsFit
    <3>2. tmux'[job[p].id] = tmux[job[p].id]
             \/ (tmux[job[p].id] \in {"untagged", "live"} /\ tmux'[job[p].id] = "dead")
      BY <2>1 DEF TypeOK
    <3>3. SpawnKnows(p)'
      BY <2>1, <3>1, <3>2 DEF Knows, SpawnKnows
    <3>4. CopyKnows(p)'
      BY <2>1, <3>1, <3>2 DEF Knows, CopyKnows, AsStored, AsBeforeSweep
    <3>5. SweepKnows(p)'
      BY <2>1, <2>2, <3>1 DEF Knows, SweepKnows, AsStored
    <3>6. NameKnown(p)'
      BY <2>1, <3>1 DEF Knows, NameKnown, NameFree
    <3> QED
      BY <3>3, <3>4, <3>5, <3>6 DEF Knows
  <2> QED
    BY <2>3, <2>4, <2>5 DEF SeqInv
<1>2. ASSUME NEW e \in Ids, AgentExits(e)
      PROVE  SeqInv'
  BY <1>2 DEF AgentExits, local, SeqInv, Recorded, LiveNamesUnique, Knows, SpawnKnows,
     CopyKnows, SweepKnows, NameKnown, NameFree, AsStored, AsBeforeSweep
<1>3. CASE Elapse
  <2>1. UNCHANGED <<tmux, pc, job, scan>>
    BY <1>3 DEF Elapse
  <2>2. (\A i \in Ids : Recorded(i))'
    BY <1>3, <2>1, ElapseKeeps DEF SeqInv, Recorded, Present
  <2>3. LiveNamesUnique'
    BY <1>3, ElapseKeeps DEF SeqInv, LiveNamesUnique, IsAlive
  <2>4. ASSUME NEW p \in Procs
        PROVE  Knows(p)'
    <3>1. Knows(p) /\ JobFits(p)
      BY DEF SeqInv, JobsFit
    <3>2. job[p].id \in Ids => /\ store'[job[p].id].state = store[job[p].id].state
                               /\ store'[job[p].id].name = store[job[p].id].name
      BY <1>3, ElapseKeeps
    <3>3. copy'[p].state = copy[p].state /\ copy'[p].name = copy[p].name
      BY <1>3, ElapseKeeps
    <3>4. SpawnKnows(p)'
      BY <2>1, <3>1, <3>2 DEF Knows, SpawnKnows, JobFits, UserCommands, Present
    <3>5. CopyKnows(p)'
      BY <2>1, <3>1, <3>2, <3>3
         DEF Knows, CopyKnows, JobFits, UserCommands, AsStored, AsBeforeSweep, Present, IsAlive
    <3>6. SweepKnows(p)'
      BY <1>3, <2>1, <3>1, ElapseKeeps DEF Knows, SweepKnows, AsStored, Present
    <3>7. NameKnown(p)'
      BY <1>3, <2>1, <3>1, ElapseKeeps DEF Knows, NameKnown, NameFree, IsAlive
    <3> QED
      BY <3>4, <3>5, <3>6, <3>7 DEF Knows
  <2> QED
    BY <2>2, <2>3, <2>4 DEF SeqInv
<1> QED
  BY <1>1, <1>2, <1>3 DEF Environment

LEMMA SeqNext ==
    ASSUME OneAtATime, IInv, SeqInv, [Next]_vars
    PROVE  SeqInv'
<1>1. ASSUME NEW p \in Procs, Knows(p)', (\A i \in Ids : Recorded(i))', LiveNamesUnique'
      PROVE  SeqInv'
  <2>1. \A q \in Procs : q = p
    BY DEF OneAtATime
  <2>2. (\A q \in Procs : Knows(q))'
    BY <1>1, <2>1 DEF Knows, SpawnKnows, CopyKnows, SweepKnows, NameKnown
  <2> QED
    BY <1>1, <2>2 DEF SeqInv
<1>2. UNCHANGED <<tmux, store>> => (\A i \in Ids : Recorded(i))' /\ LiveNamesUnique'
  BY DEF SeqInv, Recorded, LiveNamesUnique
<1>3. ASSUME NEW p \in Procs, Start(p)
      PROVE  SeqInv'
  BY <1>1, <1>2, <1>3, StartKnows DEF IInv, SeqInv
<1>4. ASSUME NEW p \in Procs, Step(p)
      PROVE  SeqInv'
  <2>1. Knows(p) /\ \A i \in Ids : Recorded(i)
    BY DEF SeqInv
  <2>2. Knows(p)'
    BY <1>4, <2>1, StepKnows
  <2>3. CASE UNCHANGED store
    <3>1. (\A i \in Ids : Recorded(i))'
      BY <1>4, <2>1, <2>3, StepTmux
    <3>2. LiveNamesUnique'
      BY <2>3 DEF SeqInv, LiveNamesUnique
    <3> QED
      BY <1>1, <2>2, <3>1, <3>2
  <2>4. CASE UNCHANGED tmux /\ SavesAnEdge
    BY <1>1, <2>1, <2>2, <2>4, EdgeKeeps DEF IInv, SeqInv
  <2> QED
    BY <1>4, <2>1, <2>3, <2>4, StepEdge
<1>5. ASSUME NEW p \in Procs, Crash(p)
      PROVE  SeqInv'
  BY <1>1, <1>2, <1>5, FinishKnows DEF Crash, IInv
<1>6. CASE Environment
  BY <1>6, EnvironmentKnows DEF IInv
<1>7. CASE UNCHANGED vars
  BY <1>7 DEF vars, local, SeqInv, Recorded, LiveNamesUnique, Knows, SpawnKnows,
     CopyKnows, SweepKnows, NameKnown, NameFree, AsStored, AsBeforeSweep
<1> QED
  BY <1>3, <1>4, <1>5, <1>6, <1>7 DEF Next

LEMMA SeqInit == Init => SeqInv
<1> SUFFICES ASSUME Init PROVE SeqInv
  OBVIOUS
<1>1. PICK n \in [Established -> Names], c \in [Established -> {"none", "pending"}] :
         /\ \A i, j \in Established : n[i] = n[j] => i = j
         /\ store = [id \in Ids |-> IF id \in Established
                                    THEN NewRecord(id, n[id], c[id])
                                    ELSE NoRecord]
  BY DEF Init
<1>2. ASSUME NEW i \in Ids
      PROVE  Recorded(i)
  <2>1. CASE i \in Established
    <3>1. tmux[i] = "live" /\ store[i] = NewRecord(i, n[i], c[i])
      BY <1>1, <2>1 DEF Init
    <3>2. store[i].state \in {"idle", "alive"}
      BY <3>1 DEF NewRecord, InitialFor
    <3> QED
      BY <3>1, <3>2 DEF Recorded, Present
  <2>2. CASE i \notin Established
    BY <1>1, <2>2 DEF Recorded, Present, NoRecord
  <2> QED
    BY <2>1, <2>2
<1>3. LiveNamesUnique
  BY <1>1 DEF LiveNamesUnique, IsAlive, LiveStates, NoRecord, NewRecord
<1>4. \A p \in Procs : Knows(p)
  BY DEF Init, NoJob, Knows, SpawnKnows, CopyKnows, SweepKnows, NameKnown
<1> QED
  BY <1>2, <1>3, <1>4 DEF SeqInv

-----------------------------------------------------------------------------
(* The registry of readers.                                                *)

Dead == {id \in Ids : tmux[id] = "dead"}

LEMMA RegistryTerms ==
    ASSUME TypeOK, NEW i \in Ids
    PROVE  /\ Registry!Live(i) <=> IsAlive(store[i])
           /\ \A n \in Names : Registry!Free(n) <=> NameFree(n)
           /\ Registry!ActivityStates(i) = ValidFor(i) \cap LiveStates
           /\ store[i] = NoRecord =>
                 [id \in Ids |-> [state |-> store[id].state, name |-> store[id].name]][i]
                    = Registry!Absent
<1>1. Registry!Live(i) <=> IsAlive(store[i])
  BY DEF Registry!Live, IsAlive, LiveStates
<1>2. \A n \in Names : Registry!Free(n) <=> NameFree(n)
  BY DEF Registry!Free, Registry!Live, NameFree, IsAlive, LiveStates
<1>3. Registry!ActivityStates(i) = ValidFor(i) \cap LiveStates
  BY DEF Registry!ActivityStates, ValidFor, TerminalStates, LiveStates
<1>4. store[i] = NoRecord =>
         [id \in Ids |-> [state |-> store[id].state, name |-> store[id].name]][i]
            = Registry!Absent
  BY DEF NoRecord, Registry!Absent
<1> QED
  BY <1>1, <1>2, <1>3, <1>4

LEMMA SavePublishes ==
    ASSUME TypeOK, NEW i \in Ids, NEW r \in Record, Save(i, r)
    PROVE  Registry!Publish(i, r.state, r.name)
BY DEF TypeOK, Save, Registry!Publish

LEMMA SaveNothing ==
    ASSUME TypeOK, NEW i \in Ids, NEW r \in Record, Save(i, r), AsStored(i, r),
           UNCHANGED tmux
    PROVE  UNCHANGED Registry!registryVars
<1>1. \A j \in Ids : store'[j].state = store[j].state /\ store'[j].name = store[j].name
  BY DEF TypeOK, Save, AsStored
<1> QED
  BY <1>1 DEF Registry!registryVars

LEMMA EdgeMaps ==
    ASSUME TypeOK, \A i \in Ids : Recorded(i), UNCHANGED tmux, SavesAnEdge
    PROVE  [Registry!RegistryNext]_(Registry!registryVars)
<1>1. PICK i \in Ids, r \in Record : Save(i, r) /\ Edge(i, r)
  BY DEF SavesAnEdge
<1>2. /\ Registry!Publish(i, r.state, r.name)
      /\ Registry!Live(i) <=> IsAlive(store[i])
      /\ \A n \in Names : Registry!Free(n) <=> NameFree(n)
      /\ Registry!ActivityStates(i) = ValidFor(i) \cap LiveStates
  BY <1>1, SavePublishes, RegistryTerms
<1>3. /\ i \in Dead <=> tmux[i] = "dead"
      /\ Dead' = Dead
  BY DEF Dead
<1>4. CASE Present(store[i]) /\ AsStored(i, r)
  BY <1>1, <1>4, SaveNothing
<1>5. CASE /\ IsAlive(store[i]) /\ r.name = store[i].name
           /\ IsAlive(r) /\ r.state \in ValidFor(i)
  <2>1. Registry!Activity(i, r.state) /\ r.state \in Registry!ActivityStates(i)
    BY <1>2, <1>3, <1>5 DEF Registry!Activity, IsAlive, Registry!Publish
  <2> QED
    BY <2>1 DEF Registry!RegistryNext
<1>6. CASE /\ IsAlive(store[i]) /\ r.name = store[i].name
           /\ r.state = "exited" /\ tmux[i] = "dead"
  <2>1. Registry!Exit(i)
    BY <1>2, <1>3, <1>6 DEF Registry!Exit, Dead, Registry!Publish
  <2> QED
    BY <2>1 DEF Registry!RegistryNext
<1>7. CASE IsAlive(store[i]) /\ r.name = store[i].name /\ r.state = "archived"
  <2>1. Registry!Archive(i)
    BY <1>2, <1>3, <1>7 DEF Registry!Archive, Dead, Registry!Publish
  <2> QED
    BY <2>1 DEF Registry!RegistryNext
<1>8. CASE r = NoRecord
  <2>1. CASE store[i] = NoRecord
    BY <1>1, <1>8, <2>1, SaveNothing DEF AsStored
  <2>2. CASE store[i] # NoRecord
    <3>1. Present(store[i])
      BY <2>2 DEF Recorded
    <3>2. Registry!Remove(i)
      BY <1>2, <1>3, <1>8, <3>1
         DEF Registry!Remove, Registry!Publish, Registry!Absent, NoRecord, Present, Dead
    <3> QED
      BY <3>2 DEF Registry!RegistryNext
  <2> QED
    BY <2>1, <2>2
<1>9. CASE /\ store[i] = NoRecord /\ r.name \in Names /\ NameFree(r.name)
           /\ r.state = InitialFor(i)
  <2>1. Registry!Register(i, r.name)
    BY <1>2, <1>3, <1>9, RegistryTerms DEF Registry!Register, InitialFor, Dead
  <2> QED
    BY <1>9, <2>1 DEF Registry!RegistryNext
<1>10. CASE /\ Present(store[i]) /\ r.name \in Names /\ NameFree(r.name)
            /\ \/ r.state = store[i].state
               \/ /\ IsAlive(store[i]) \/ (store[i].state = "exited" /\ tmux[i] = "dead")
                  /\ IsAlive(r) /\ r.state \in ValidFor(i)
  <2>1. IsAlive(r) => r.state \in LiveStates
    BY DEF IsAlive
  <2>2. Registry!Rename(i, r.name)
    BY <1>2, <1>3, <1>10, <2>1 DEF Registry!Rename, Registry!Absent, Present, Dead
  <2> QED
    BY <1>10, <2>2 DEF Registry!RegistryNext
<1> QED
  BY <1>1, <1>4, <1>5, <1>6, <1>7, <1>8, <1>9, <1>10 DEF Edge

LEMMA VanishMaps ==
    ASSUME UNCHANGED store, NEW i \in Ids,
           {j \in Ids : tmux'[j] = "dead"} = {j \in Ids : tmux[j] = "dead"} \cup {i}
    PROVE  Registry!RegistryNext
<1>1. Registry!Vanish(i)
  BY DEF Registry!Vanish
<1> QED
  BY <1>1 DEF Registry!RegistryNext

LEMMA StepMaps ==
    ASSUME IInv, SeqInv, [Next]_vars
    PROVE  [Registry!RegistryNext]_(Registry!registryVars)
<1>1. UNCHANGED <<store, tmux>> => UNCHANGED Registry!registryVars
  BY DEF Registry!registryVars
<1>2. ASSUME NEW p \in Procs, Start(p)
      PROVE  UNCHANGED Registry!registryVars
  BY <1>1, <1>2, StartKnows DEF IInv, SeqInv
<1>3. ASSUME NEW p \in Procs, Step(p)
      PROVE  [Registry!RegistryNext]_(Registry!registryVars)
  <2>1. Knows(p) /\ \A i \in Ids : Recorded(i)
    BY DEF SeqInv
  <2>2. CASE UNCHANGED store
    <3>1. \/ {i \in Ids : tmux'[i] = "dead"} = {i \in Ids : tmux[i] = "dead"}
          \/ \E i \in Ids : {j \in Ids : tmux'[j] = "dead"}
                               = {j \in Ids : tmux[j] = "dead"} \cup {i}
      BY <1>3, <2>1, <2>2, StepTmux
    <3>2. CASE {i \in Ids : tmux'[i] = "dead"} = {i \in Ids : tmux[i] = "dead"}
      BY <2>2, <3>2 DEF Registry!registryVars
    <3>3. CASE \E i \in Ids : {j \in Ids : tmux'[j] = "dead"}
                                = {j \in Ids : tmux[j] = "dead"} \cup {i}
      BY <2>2, <3>3, VanishMaps
    <3> QED
      BY <3>1, <3>2, <3>3
  <2>3. CASE UNCHANGED tmux /\ SavesAnEdge
    BY <2>1, <2>3, EdgeMaps DEF IInv
  <2> QED
    BY <1>3, <2>1, <2>2, <2>3, StepEdge
<1>4. ASSUME NEW p \in Procs, Crash(p)
      PROVE  UNCHANGED Registry!registryVars
  BY <1>1, <1>4 DEF Crash
<1>5. ASSUME NEW e \in Ids, SessionEnds(e)
      PROVE  Registry!RegistryNext
  <2>1. UNCHANGED store /\ tmux' = [tmux EXCEPT ![e] = "dead"]
    BY <1>5 DEF SessionEnds
  <2>2. {j \in Ids : tmux'[j] = "dead"} = {j \in Ids : tmux[j] = "dead"} \cup {e}
    BY <2>1 DEF IInv, TypeOK
  <2> QED
    BY <2>1, <2>2, VanishMaps
<1>6. ASSUME NEW e \in Ids, AgentExits(e)
      PROVE  UNCHANGED Registry!registryVars
  BY <1>1, <1>6 DEF AgentExits
<1>7. CASE Elapse
  <2>1. UNCHANGED tmux /\ \A i \in Ids : /\ store'[i].state = store[i].state
                                         /\ store'[i].name = store[i].name
    BY <1>7, ElapseKeeps DEF IInv, Elapse
  <2> QED
    BY <2>1 DEF Registry!registryVars
<1>8. CASE UNCHANGED vars
  BY <1>1, <1>8 DEF vars
<1> QED
  BY <1>2, <1>3, <1>4, <1>5, <1>6, <1>7, <1>8 DEF Next, Environment

LEMMA InitMaps == Init => Registry!RegistryInit
<1> SUFFICES ASSUME Init PROVE Registry!RegistryInit
  OBVIOUS
<1> DEFINE entry == [id \in Ids |-> [state |-> store[id].state, name |-> store[id].name]]
<1>1. PICK n \in [Established -> Names], c \in [Established -> {"none", "pending"}] :
         /\ \A i, j \in Established : n[i] = n[j] => i = j
         /\ store = [id \in Ids |-> IF id \in Established
                                    THEN NewRecord(id, n[id], c[id])
                                    ELSE NoRecord]
  BY DEF Init
<1>2. entry \in [Ids -> {Registry!Absent} \cup [state: {"idle", "alive"}, name: Names]]
  <2>1. ASSUME NEW i \in Ids
        PROVE  [state |-> store[i].state, name |-> store[i].name]
                  \in {Registry!Absent} \cup [state: {"idle", "alive"}, name: Names]
    BY <1>1 DEF NewRecord, NoRecord, InitialFor, Registry!Absent
  <2> QED
    BY <2>1
<1>3. \A i, j \in Ids : Registry!Live(i) /\ Registry!Live(j) /\ entry[i].name = entry[j].name
                          => i = j
  BY <1>1 DEF Registry!Live, NoRecord, NewRecord
<1>4. {i \in Ids : tmux[i] = "dead"} = {}
  BY DEF Init
<1> QED
  BY <1>2, <1>3, <1>4 DEF Registry!RegistryInit

\* As long as one `tx` process runs at a time, no two live records share a name and no
\* session tmux runs is recorded exited (service.py, _require_name_free and reconcile),
\* for any number of sessions, names and commands, and wherever a process dies.
THEOREM RecordsStayReal == ASSUME OneAtATime PROVE Spec => []RecordsAreReal
<1>1. Init => IInv /\ SeqInv
  BY InitIInv, SeqInit
<1>2. (IInv /\ SeqInv) /\ [Next]_vars => (IInv /\ SeqInv)'
  BY NextIInv, SeqNext
<1>3. IInv /\ SeqInv => RecordsAreReal
  BY DEF SeqInv, Recorded, RecordsAreReal, ExitIsReal
<1> QED
  BY <1>1, <1>2, <1>3, PTL DEF Spec

\* Under the same condition readers see the atomic registry: every save of every handler
\* is one edge of the record life cycle, whatever a command has done since it read the
\* record it saves.
THEOREM StoreImplementsRegistry == ASSUME OneAtATime PROVE Spec => ImplementsRegistry
<1>1. Init => IInv /\ SeqInv
  BY InitIInv, SeqInit
<1>2. (IInv /\ SeqInv) /\ [Next]_vars => (IInv /\ SeqInv)'
  BY NextIInv, SeqNext
<1>3. Init => Registry!RegistryInit
  BY InitMaps
<1>4. IInv /\ SeqInv /\ [Next]_vars => [Registry!RegistryNext]_(Registry!registryVars)
  BY StepMaps
<1> QED
  BY <1>1, <1>2, <1>3, <1>4, PTL DEF Spec, ImplementsRegistry, Registry!RegistrySpec
=============================================================================
