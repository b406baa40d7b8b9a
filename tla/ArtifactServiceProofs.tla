------------------------ MODULE ArtifactServiceProofs ------------------------
(***************************************************************************)
(* Proofs about ArtifactService, for every number of processes, authors,   *)
(* contents and revisions.                                                 *)
(***************************************************************************)
EXTENDS ArtifactService, SequenceTheorems, TLAPS

-----------------------------------------------------------------------------
(* Records.                                                                *)

LEMMA NoRecordType ==
    /\ NoRecord \in Record /\ ~Present(NoRecord) /\ NoJob \in Job
    /\ \A g \in Groups \cup {None} :
          [NoRecord EXCEPT !.group = g] \in Record /\ ~Present([NoRecord EXCEPT !.group = g])
<1>1. <<>> \in Seq(Touch)
  OBVIOUS
<1>2. \A g \in Groups \cup {None} : [history |-> <<>>, group |-> g] \in Record
  BY <1>1 DEF Record
<1>3. \A g : [NoRecord EXCEPT !.group = g] = [history |-> <<>>, group |-> g]
  BY DEF NoRecord
<1>4. \A g : ~Present([history |-> <<>>, group |-> g])
  BY DEF Present
<1>5. NoJob \in Job
  BY DEF NoJob, Job
<1> QED
  BY <1>2, <1>3, <1>4, <1>5 DEF NoRecord

LEMMA PresentFacts ==
    ASSUME NEW r \in Record
    PROVE  /\ Len(r.history) \in Nat
           /\ Present(r) <=> Len(r.history) > 0
           /\ Present(r) => LatestRev(r) \in Revs
           /\ NextRev(r) \in Nat
<1>1. r.history \in Seq(Touch) /\ Len(r.history) \in Nat
  BY DEF Record
<1>2. Present(r) <=> Len(r.history) > 0
  BY <1>1 DEF Present
<1>3. ASSUME Present(r) PROVE LatestRev(r) \in Revs
  <2>1. r.history[Len(r.history)] \in Touch
    BY <1>1, <1>2, <1>3
  <2> QED
    BY <2>1 DEF Touch, LatestRev
<1>4. NextRev(r) \in Nat
  BY <1>3, ArtifactAssumption DEF NextRev, Revs
<1> QED
  BY <1>1, <1>2, <1>3, <1>4

LEMMA TouchedFacts ==
    ASSUME NEW r \in Record, NEW by \in Authors, NextRev(r) \in Revs
    PROVE  /\ Touched(r, by) \in Record
           /\ Touched(r, by).history = Append(r.history, [by |-> by, rev |-> NextRev(r)])
           /\ Touched(r, by).group = r.group
           /\ Present(Touched(r, by))
<1>1. [by |-> by, rev |-> NextRev(r)] \in Touch
  BY DEF Touch
<1>2. r.history \in Seq(Touch)
  BY DEF Record
<1>3. /\ Append(r.history, [by |-> by, rev |-> NextRev(r)]) \in Seq(Touch)
      /\ Len(Append(r.history, [by |-> by, rev |-> NextRev(r)])) = Len(r.history) + 1
  BY <1>1, <1>2
<1>4. /\ Touched(r, by).history = Append(r.history, [by |-> by, rev |-> NextRev(r)])
      /\ Touched(r, by).group = r.group
      /\ Touched(r, by) \in Record
  BY <1>3 DEF Touched, Record
<1> QED
  BY <1>3, <1>4, PresentFacts

-----------------------------------------------------------------------------
(* Types, and the step of each process fitting its command.                *)

LocalType ==
    /\ pc \in [Procs -> Steps]
    /\ job \in [Procs -> Job]
    /\ copy \in [Procs -> Record]
    /\ doomed \in [Procs -> SUBSET Revs]

DiskType ==
    /\ record \in Record
    /\ files \in [Revs -> Contents \cup {None}]
    /\ current \in Contents \cup {None}
    /\ log \subseteq Revs

LEMMA TypeParts == TypeOK <=> LocalType /\ DiskType /\ crashes \in 0..MaxCrashes
BY DEF TypeOK, LocalType, DiskType

\* Whatever a process does to its own state, the others keep theirs.
OwnMove(p) ==
    /\ \E l \in Steps : Goto(p, l)
    /\ \E j \in Job : job' = [job EXCEPT ![p] = j]
    /\ \E r \in Record : copy' = [copy EXCEPT ![p] = r]
    /\ \E d \in SUBSET Revs : doomed' = [doomed EXCEPT ![p] = d]

LEMMA OwnMoveFacts ==
    ASSUME LocalType, NEW p \in Procs, OwnMove(p)
    PROVE  /\ LocalType'
           /\ \A q \in Procs \ {p} : /\ pc'[q] = pc[q] /\ job'[q] = job[q]
                                     /\ copy'[q] = copy[q] /\ doomed'[q] = doomed[q]
BY DEF LocalType, OwnMove, Goto

LEMMA FinishOwn ==
    ASSUME LocalType, NEW p \in Procs, Finish(p)
    PROVE  /\ OwnMove(p)
           /\ pc'[p] = "idle" /\ job'[p] = NoJob /\ copy'[p] = NoRecord /\ doomed'[p] = {}
BY NoRecordType DEF LocalType, Finish, OwnMove, Goto, Steps

\* What UNCHANGED and EXCEPT leave of a process's own state is a move of it.
LEMMA MoveParts ==
    ASSUME LocalType, NEW p \in Procs
    PROVE  /\ UNCHANGED job => \E j \in Job : job' = [job EXCEPT ![p] = j]
           /\ UNCHANGED copy => \E r \in Record : copy' = [copy EXCEPT ![p] = r]
           /\ UNCHANGED doomed => \E d \in SUBSET Revs : doomed' = [doomed EXCEPT ![p] = d]
           /\ UNCHANGED pc => \E l \in Steps : Goto(p, l)
<1>1. job = [job EXCEPT ![p] = job[p]] /\ job[p] \in Job
  BY DEF LocalType
<1>2. copy = [copy EXCEPT ![p] = copy[p]] /\ copy[p] \in Record
  BY DEF LocalType
<1>3. doomed = [doomed EXCEPT ![p] = doomed[p]] /\ doomed[p] \in SUBSET Revs
  BY DEF LocalType
<1>4. pc = [pc EXCEPT ![p] = pc[p]] /\ pc[p] \in Steps
  BY DEF LocalType
<1> QED
  BY <1>1, <1>2, <1>3, <1>4 DEF Goto

\* The step a process takes next, and what it keeps.
LEMMA MovesOn ==
    ASSUME LocalType, NEW p \in Procs, NEW l \in Steps, Goto(p, l),
           UNCHANGED <<job, copy, doomed>>
    PROVE  /\ OwnMove(p)
           /\ pc'[p] = l /\ job'[p] = job[p] /\ copy'[p] = copy[p] /\ doomed'[p] = doomed[p]
<1>1. pc'[p] = l
  BY DEF Goto, LocalType
<1>2. \E m \in Steps : Goto(p, m)
  OBVIOUS
<1> QED
  BY <1>1, <1>2, MoveParts DEF OwnMove

LEMMA FinishFits ==
    ASSUME LocalType, NEW p \in Procs, Finish(p)
    PROVE  JobFits(p)'
<1>1. /\ pc'[p] = "idle" /\ job'[p] = NoJob /\ copy'[p] = NoRecord /\ doomed'[p] = {}
  BY FinishOwn
<1> QED
  BY <1>1 DEF JobFits, Idle

\* One step of a process: types are kept, and its next step fits its command.
Lawful(p) == OwnMove(p) /\ DiskType' /\ JobFits(p)' /\ crashes' \in 0..MaxCrashes

LEMMA StartLawful ==
    ASSUME TypeOK, NEW p \in Procs, Start(p), JobFits(p)
    PROVE  Lawful(p) /\ UNCHANGED disk
<1>0. LocalType /\ DiskType /\ crashes \in 0..MaxCrashes
  BY TypeParts
<1>1. ASSUME NEW cmd \in ArtifactCommands, NEW by \in Authors \cup {None},
             NEW c \in Contents \cup {None}, NEW g \in Groups \cup {None},
             NEW l \in Steps, Begin(p, cmd, by, c, g, l)
      PROVE  /\ \E m \in Steps : Goto(p, m)
             /\ \E j \in Job : job' = [job EXCEPT ![p] = j]
             /\ \E d \in SUBSET Revs : doomed' = [doomed EXCEPT ![p] = d]
             /\ pc'[p] = l /\ doomed'[p] = {} /\ copy[p] = NoRecord
             /\ job'[p] = [cmd |-> cmd, by |-> by, content |-> c, group |-> g]
             /\ cmd \in Commands /\ UNCHANGED <<disk, crashes>> /\ Idle(p)
  <2>1. [cmd |-> cmd, by |-> by, content |-> c, group |-> g] \in Job
    BY DEF Job
  <2>2. /\ pc'[p] = l
        /\ job'[p] = [cmd |-> cmd, by |-> by, content |-> c, group |-> g]
    BY <1>0, <1>1 DEF LocalType, Begin, Goto
  <2>3. doomed[p] = {} /\ copy[p] = NoRecord /\ UNCHANGED doomed /\ doomed'[p] = doomed[p]
    BY <1>1 DEF Begin, JobFits, Idle
  <2> QED
    BY <1>0, <1>1, <2>1, <2>2, <2>3, MoveParts DEF Begin
<1>2. ASSUME NEW cmd \in {"modify", "snapshot", "group", "repair"},
             NEW by \in Authors \cup {None}, NEW c \in Contents \cup {None},
             NEW g \in Groups \cup {None}, Begin(p, cmd, by, c, g, "load"), UNCHANGED copy,
             cmd \in {"modify", "snapshot"} => by \in Authors,
             cmd = "modify" => c \in Contents
      PROVE  Lawful(p) /\ UNCHANGED disk
  <2>0. cmd \in ArtifactCommands /\ "load" \in Steps
    BY DEF ArtifactCommands, Steps
  <2>1. OwnMove(p) /\ UNCHANGED <<disk, crashes>>
    BY <1>0, <1>1, <1>2, <2>0, MoveParts DEF OwnMove
  <2>2. /\ pc'[p] = "load" /\ doomed'[p] = {} /\ copy'[p] = NoRecord /\ cmd \in Commands
        /\ job'[p] = [cmd |-> cmd, by |-> by, content |-> c, group |-> g]
    BY <1>1, <1>2, <2>0
  <2>3. JobFits(p)'
    BY <1>2, <2>2 DEF JobFits, Idle
  <2> QED
    BY <1>0, <2>1, <2>3 DEF Lawful, DiskType, disk
<1>3. ASSUME NEW by \in Authors, NEW c \in Contents, NEW g \in Groups \cup {None},
             StartCreate(p, by, c, g)
      PROVE  Lawful(p) /\ UNCHANGED disk
  <2>0. "create" \in ArtifactCommands /\ "claim" \in Steps
    BY DEF ArtifactCommands, Steps
  <2>1. [NoRecord EXCEPT !.group = g] \in Record /\ ~Present([NoRecord EXCEPT !.group = g])
    BY NoRecordType
  <2>2. copy'[p] = [NoRecord EXCEPT !.group = g]
    BY <1>0, <1>3 DEF StartCreate, LocalType
  <2>3. OwnMove(p) /\ UNCHANGED <<disk, crashes>>
    BY <1>1, <1>3, <2>0, <2>1 DEF StartCreate, OwnMove
  <2>4. /\ pc'[p] = "claim" /\ doomed'[p] = {} /\ "create" \in Commands
        /\ job'[p] = [cmd |-> "create", by |-> by, content |-> c, group |-> g]
    BY <1>1, <1>3, <2>0 DEF StartCreate
  <2>5. NextRev(copy'[p]) \in Revs
    BY <2>1, <2>2, ArtifactAssumption DEF NextRev, Revs
  <2>6. JobFits(p)'
    BY <2>4, <2>5 DEF JobFits, Idle
  <2> QED
    BY <1>0, <2>3, <2>6 DEF Lawful, DiskType, disk
<1>4. CASE StartRepair(p)
  BY <1>2, <1>4 DEF StartRepair
<1>5. ASSUME NEW by \in Authors, StartSnapshot(p, by)
      PROVE  Lawful(p) /\ UNCHANGED disk
  BY <1>2, <1>5 DEF StartSnapshot
<1>6. ASSUME NEW by \in Authors, NEW c \in Contents, StartModify(p, by, c)
      PROVE  Lawful(p) /\ UNCHANGED disk
  BY <1>2, <1>6 DEF StartModify
<1>7. ASSUME NEW by \in Authors, NEW g \in Groups \cup {None}, StartSetGroup(p, by, g)
      PROVE  Lawful(p) /\ UNCHANGED disk
  BY <1>2, <1>7 DEF StartSetGroup
<1> QED
  BY <1>3, <1>4, <1>5, <1>6, <1>7 DEF Start

LEMMA FinishLawful ==
    ASSUME TypeOK, NEW p \in Procs, Finish(p), DiskType', crashes' \in 0..MaxCrashes
    PROVE  Lawful(p)
BY TypeParts, FinishOwn, FinishFits DEF Lawful

LEMMA StepLawful ==
    ASSUME TypeOK, NEW p \in Procs, JobFits(p), Step(p)
    PROVE  Lawful(p)
<1>0. LocalType /\ DiskType /\ crashes \in 0..MaxCrashes
  BY TypeParts
<1>1. /\ job[p] \in Job /\ copy[p] \in Record /\ doomed[p] \subseteq Revs
      /\ pc[p] \in Steps
  BY <1>0 DEF LocalType
<1>2. CASE Load(p)
  <2>1. DiskType' /\ UNCHANGED crashes
    BY <1>0, <1>2 DEF Load, DiskType, disk
  <2>2. CASE Finish(p)
    BY <1>0, <2>1, <2>2, FinishLawful
  <2>3. CASE ~Finish(p)
    <3> DEFINE l == AfterLoad(job[p].cmd)
    <3>1. /\ Present(record) /\ copy' = [copy EXCEPT ![p] = record]
          /\ Goto(p, l) /\ UNCHANGED <<job, doomed>> /\ pc[p] = "load"
      BY <1>2, <2>3 DEF Load
    <3>2. /\ job[p].cmd \in {"modify", "snapshot", "group", "repair"} /\ doomed[p] = {}
          /\ job[p].cmd \in Commands
          /\ job[p].cmd \in {"modify", "snapshot"} => job[p].by \in Authors
          /\ job[p].cmd = "modify" => job[p].content \in Contents
      BY <3>1 DEF JobFits, Idle
    <3>3. /\ l \in {"compare", "readCurrent", "saveGroup", "list"}
          /\ l = "compare" => job[p].cmd = "modify"
          /\ l = "readCurrent" => job[p].cmd = "snapshot"
          /\ l = "saveGroup" => job[p].cmd = "group"
          /\ l = "list" => job[p].cmd = "repair"
      BY <3>2 DEF AfterLoad
    <3>4. l \in Steps /\ record \in Record
      BY <1>0, <3>3 DEF Steps, DiskType
    <3>5. OwnMove(p)
      BY <1>0, <3>1, <3>4, MoveParts DEF OwnMove
    <3>6. pc'[p] = l /\ copy'[p] = record /\ job'[p] = job[p] /\ doomed'[p] = doomed[p]
      BY <1>0, <3>1 DEF LocalType, Goto
    <3>7. JobFits(p)'
      BY <3>1, <3>2, <3>3, <3>6 DEF JobFits, Idle
    <3> QED
      BY <1>0, <2>1, <3>5, <3>7 DEF Lawful
  <2> QED
    BY <2>2, <2>3
<1>3. CASE ReadCurrent(p)
  <2>1. DiskType' /\ UNCHANGED crashes
    BY <1>0, <1>3 DEF ReadCurrent, DiskType, disk
  <2>2. CASE Finish(p)
    BY <1>0, <2>1, <2>2, FinishLawful
  <2>3. CASE ~Finish(p)
    <3>1. /\ current # None /\ job' = [job EXCEPT ![p].content = current]
          /\ Goto(p, "compare") /\ UNCHANGED <<copy, doomed>> /\ pc[p] = "readCurrent"
      BY <1>3, <2>3 DEF ReadCurrent
    <3>2. current \in Contents
      BY <1>0, <3>1 DEF DiskType
    <3>3. [job[p] EXCEPT !.content = current] \in Job
      BY <1>1, <3>2 DEF Job
    <3>4. job' = [job EXCEPT ![p] = [job[p] EXCEPT !.content = current]]
      BY <3>1
    <3>5. OwnMove(p)
      <4>1. "compare" \in Steps
        BY DEF Steps
      <4> QED
        BY <1>0, <3>1, <3>3, <3>4, <4>1, MoveParts DEF OwnMove
    <3>6. /\ pc'[p] = "compare" /\ copy'[p] = copy[p] /\ doomed'[p] = doomed[p]
          /\ job'[p] = [job[p] EXCEPT !.content = current]
      BY <1>0, <3>1, <3>4 DEF LocalType, Goto
    <3>7. /\ job'[p].cmd = job[p].cmd /\ job'[p].by = job[p].by /\ job'[p].content \in Contents
      BY <1>1, <3>2, <3>6 DEF Job
    <3>8. JobFits(p)'
      BY <3>1, <3>6, <3>7 DEF JobFits, Idle
    <3> QED
      BY <1>0, <2>1, <3>5, <3>8 DEF Lawful
  <2> QED
    BY <2>2, <2>3
<1>4. CASE Compare(p)
  <2>1. DiskType' /\ UNCHANGED crashes
    BY <1>0, <1>4 DEF Compare, DiskType, disk
  <2>2. CASE Finish(p)
    BY <1>0, <2>1, <2>2, FinishLawful
  <2>3. CASE ~Finish(p)
    <3>1. /\ NextRev(copy[p]) \in Revs /\ pc[p] = "compare"
          /\ Goto(p, "claim") /\ UNCHANGED <<job, copy, doomed>>
      BY <1>4, <2>3 DEF Compare
    <3>2. "claim" \in Steps
      BY DEF Steps
    <3>3. /\ OwnMove(p) /\ pc'[p] = "claim" /\ job'[p] = job[p]
          /\ copy'[p] = copy[p] /\ doomed'[p] = doomed[p]
      BY <1>0, <3>1, <3>2, MovesOn
    <3>4. NextRev(copy'[p]) \in Revs
      BY <3>1, <3>3
    <3>5. JobFits(p)'
      BY <3>1, <3>3, <3>4 DEF JobFits, Idle
    <3> QED
      BY <1>0, <2>1, <3>3, <3>5 DEF Lawful
  <2> QED
    BY <2>2, <2>3
<1>5. CASE Claim(p)
  <2>0. pc[p] = "claim" /\ NextRev(copy[p]) \in Revs /\ job[p].content \in Contents
    BY <1>5 DEF Claim, JobFits
  <2>1. files' \in [Revs -> Contents \cup {None}] /\ UNCHANGED <<record, current, log, crashes>>
    BY <1>0, <1>5, <2>0 DEF Claim, DiskType
  <2>2. DiskType'
    BY <1>0, <2>1 DEF DiskType
  <2>3. CASE Finish(p)
    BY <1>0, <2>1, <2>2, <2>3, FinishLawful
  <2>4. CASE ~Finish(p)
    <3>1. Goto(p, "writeCurrent") /\ UNCHANGED <<job, copy, doomed>>
      BY <1>5, <2>4 DEF Claim
    <3>2. "writeCurrent" \in Steps
      BY DEF Steps
    <3>3. /\ OwnMove(p) /\ pc'[p] = "writeCurrent" /\ job'[p] = job[p]
          /\ copy'[p] = copy[p] /\ doomed'[p] = doomed[p]
      BY <1>0, <3>1, <3>2, MovesOn
    <3>4. JobFits(p)'
      BY <2>0, <3>3 DEF JobFits, Idle
    <3> QED
      BY <1>0, <2>1, <2>2, <3>3, <3>4 DEF Lawful
  <2> QED
    BY <2>3, <2>4
<1>6. CASE WriteCurrent(p)
  <2>1. /\ pc[p] = "writeCurrent" /\ Goto(p, "save")
        /\ UNCHANGED <<record, files, log, job, copy, doomed, crashes>>
        /\ current' = job[p].content
    BY <1>6 DEF WriteCurrent
  <2>2. "save" \in Steps
    BY DEF Steps
  <2>3. /\ OwnMove(p) /\ pc'[p] = "save" /\ job'[p] = job[p]
        /\ copy'[p] = copy[p] /\ doomed'[p] = doomed[p]
    BY <1>0, <2>1, <2>2, MovesOn
  <2>4. JobFits(p)'
    BY <2>1, <2>3 DEF JobFits, Idle
  <2>5. DiskType'
    BY <1>0, <1>1, <2>1 DEF DiskType, Job
  <2> QED
    BY <1>0, <2>1, <2>3, <2>4, <2>5 DEF Lawful
<1>7. CASE Save(p)
  <2> DEFINE r == Touched(copy[p], job[p].by)
  <2>1. /\ pc[p] = "save" /\ Goto(p, "log") /\ record' = r
        /\ copy' = [copy EXCEPT ![p] = r]
        /\ UNCHANGED <<files, current, log, job, doomed, crashes>>
    BY <1>7 DEF Save
  <2>2. /\ job[p].by \in Authors /\ NextRev(copy[p]) \in Revs /\ job[p].cmd \in Commands
        /\ job[p].cmd \in {"create", "modify", "snapshot"}
    BY <2>1 DEF JobFits, Idle
  <2>3. r \in Record /\ Present(r)
    BY <1>1, <2>2, TouchedFacts
  <2>4. "log" \in Steps
    BY DEF Steps
  <2>5. OwnMove(p)
    BY <1>0, <2>1, <2>3, <2>4, MoveParts DEF OwnMove
  <2>6. pc'[p] = "log" /\ copy'[p] = r /\ job'[p] = job[p] /\ doomed'[p] = doomed[p]
    BY <1>0, <2>1 DEF LocalType, Goto
  <2>7. doomed[p] = {}
    BY <2>1 DEF JobFits
  <2>8. JobFits(p)'
    BY <2>2, <2>3, <2>6, <2>7 DEF JobFits, Idle
  <2>9. DiskType'
    BY <1>0, <2>1, <2>3 DEF DiskType
  <2> QED
    BY <1>0, <2>1, <2>5, <2>8, <2>9 DEF Lawful
<1>8. CASE AppendLog(p)
  <2>1. pc[p] = "log" /\ Present(copy[p])
    BY <1>8 DEF AppendLog, JobFits
  <2>2. LoggedRev(copy[p]) \in Revs
    BY <1>1, <2>1, PresentFacts DEF LoggedRev
  <2>3. DiskType' /\ UNCHANGED crashes /\ Finish(p)
    BY <1>0, <1>8, <2>2 DEF AppendLog, DiskType
  <2> QED
    BY <1>0, <2>3, FinishLawful
<1>9. CASE SaveGroup(p)
  <2>1. [copy[p] EXCEPT !.group = job[p].group] \in Record
    BY <1>1 DEF Record, Job
  <2>2. DiskType' /\ UNCHANGED crashes /\ Finish(p)
    BY <1>0, <1>9, <2>1 DEF SaveGroup, DiskType
  <2> QED
    BY <1>0, <2>2, FinishLawful
<1>10. CASE ListOrphans(p)
  <2>1. /\ pc[p] = "list" /\ doomed' = [doomed EXCEPT ![p] = Orphans(copy[p])]
        /\ Goto(p, "remove") /\ UNCHANGED <<disk, job, copy, crashes>>
    BY <1>10 DEF ListOrphans
  <2>2. Orphans(copy[p]) \in SUBSET Revs /\ "remove" \in Steps
    BY DEF Orphans, OnDisk, Steps
  <2>3. OwnMove(p)
    BY <1>0, <2>1, <2>2, MoveParts DEF OwnMove
  <2>4. pc'[p] = "remove" /\ job'[p] = job[p] /\ copy'[p] = copy[p]
    BY <1>0, <2>1 DEF LocalType, Goto
  <2>5. JobFits(p)'
    BY <2>1, <2>4 DEF JobFits, Idle
  <2> QED
    BY <1>0, <2>1, <2>3, <2>5 DEF Lawful, DiskType, disk
<1>11. ASSUME NEW n \in Revs, RemoveRev(p, n)
       PROVE  Lawful(p)
  <2>1. /\ pc[p] = "remove" /\ files' = [files EXCEPT ![n] = None]
        /\ doomed' = [doomed EXCEPT ![p] = doomed[p] \ {n}]
        /\ UNCHANGED <<record, current, log, pc, job, copy, crashes>>
    BY <1>11 DEF RemoveRev
  <2>2. OwnMove(p)
    BY <1>0, <1>1, <2>1, MoveParts DEF OwnMove
  <2>3. pc'[p] = "remove" /\ job'[p] = job[p] /\ copy'[p] = copy[p]
    BY <2>1
  <2>4. JobFits(p)'
    BY <2>1, <2>3 DEF JobFits, Idle
  <2>5. DiskType'
    BY <1>0, <2>1 DEF DiskType
  <2> QED
    BY <1>0, <2>1, <2>2, <2>4, <2>5 DEF Lawful
<1>12. CASE RepairEnds(p)
  <2>1. DiskType' /\ UNCHANGED crashes /\ Finish(p)
    BY <1>0, <1>12 DEF RepairEnds, DiskType, disk
  <2> QED
    BY <1>0, <2>1, FinishLawful
<1> QED
  BY <1>2, <1>3, <1>4, <1>5, <1>6, <1>7, <1>8, <1>9, <1>10, <1>11, <1>12 DEF Step

LEMMA LawfulKeeps ==
    ASSUME TypeOK, JobsFit, NEW p \in Procs, Lawful(p)
    PROVE  TypeOK' /\ JobsFit'
<1>0. LocalType
  BY TypeParts
<1>1. /\ LocalType'
      /\ \A q \in Procs \ {p} : /\ pc'[q] = pc[q] /\ job'[q] = job[q]
                                /\ copy'[q] = copy[q] /\ doomed'[q] = doomed[q]
  BY <1>0, OwnMoveFacts DEF Lawful
<1>2. TypeOK'
  BY <1>1 DEF TypeOK, LocalType, DiskType, Lawful
<1>3. ASSUME NEW q \in Procs PROVE JobFits(q)'
  <2>1. CASE q = p
    BY <2>1 DEF Lawful
  <2>2. CASE q # p
    <3>1. JobFits(q)
      BY DEF JobsFit
    <3> QED
      BY <1>1, <2>2, <3>1 DEF JobFits, Idle
  <2> QED
    BY <2>1, <2>2
<1> QED
  BY <1>2, <1>3 DEF JobsFit

LEMMA CrashLawful ==
    ASSUME TypeOK, NEW p \in Procs, Crash(p)
    PROVE  Lawful(p)
<1>1. DiskType' /\ Finish(p)
  BY TypeParts DEF Crash, DiskType, disk
<1>2. crashes' \in 0..MaxCrashes
  BY ArtifactAssumption DEF Crash, TypeOK
<1> QED
  BY <1>1, <1>2, FinishLawful

LEMMA EditKeeps ==
    ASSUME TypeOK, JobsFit, NEW c \in Contents, UserEdits(c)
    PROVE  TypeOK' /\ JobsFit'
BY DEF TypeOK, JobsFit, JobFits, Idle, UserEdits

LEMMA InitTyped == Init => TypeOK /\ JobsFit
BY NoRecordType, ArtifactAssumption
   DEF Init, TypeOK, JobsFit, JobFits, Idle, Steps, Revs

LEMMA NextTyped == TypeOK /\ JobsFit /\ [Next]_vars => TypeOK' /\ JobsFit'
<1> SUFFICES ASSUME TypeOK, JobsFit, [Next]_vars PROVE TypeOK' /\ JobsFit'
  OBVIOUS
<1>0. \A p \in Procs : JobFits(p)
  BY DEF JobsFit
<1>1. ASSUME NEW p \in Procs, Start(p) \/ Step(p) \/ Crash(p)
      PROVE  TypeOK' /\ JobsFit'
  BY <1>0, <1>1, StartLawful, StepLawful, CrashLawful, LawfulKeeps
<1>2. ASSUME NEW c \in Contents, UserEdits(c)
      PROVE  TypeOK' /\ JobsFit'
  BY <1>2, EditKeeps
<1>3. CASE UNCHANGED vars
  BY <1>3 DEF vars, disk, TypeOK, JobsFit, JobFits, Idle
<1> QED
  BY <1>1, <1>2, <1>3 DEF Next

-----------------------------------------------------------------------------
(* The rest of the invariant needs what the documentation asks of the user: *)
(* a repair (and a group change) runs while no other command does.          *)

QuietCommands == Commands \cap {"repair", "group"} \subseteq Alone

LEMMA StepJob ==
    ASSUME TypeOK, NEW p \in Procs, JobFits(p), Step(p) \/ Crash(p)
    PROVE  ~Idle(p) /\ job'[p].cmd \in {job[p].cmd, "none"}
<1>0. LocalType
  BY TypeParts
<1>1. ~Idle(p)
  BY DEF Step, Crash, Idle, Load, ReadCurrent, Compare, Claim, WriteCurrent, Save, AppendLog,
     SaveGroup, ListOrphans, RepairEnds, RemoveRev
<1>2. Finish(p) => job'[p].cmd = "none"
  BY <1>0, FinishOwn DEF NoJob
<1>3. CASE ReadCurrent(p)
  <2>1. job'[p] = [job[p] EXCEPT !.content = current] \/ Finish(p)
    BY <1>0, <1>3 DEF ReadCurrent, LocalType
  <2>2. job[p] \in Job
    BY <1>0 DEF LocalType
  <2>3. [job[p] EXCEPT !.content = current].cmd = job[p].cmd
    BY <2>2 DEF Job
  <2> QED
    BY <1>1, <1>2, <2>1, <2>3
<1>4. CASE ~ReadCurrent(p)
  <2>1. job' = job \/ Finish(p)
    BY <1>4 DEF Step, Crash, Load, Compare, Claim, WriteCurrent, Save, AppendLog,
       SaveGroup, ListOrphans, RepairEnds, RemoveRev, disk
  <2> QED
    BY <1>1, <1>2, <2>1
<1> QED
  BY <1>3, <1>4

LEMMA AloneKept ==
    ASSUME TypeOK, JobsFit, AloneRuns, NEW p \in Procs, Start(p) \/ Step(p) \/ Crash(p)
    PROVE  AloneRuns'
<1>0. JobFits(p) /\ LocalType
  BY TypeParts DEF JobsFit
<1>1. Lawful(p)
  BY <1>0, StartLawful, StepLawful, CrashLawful
<1>2. \A q \in Procs \ {p} : pc'[q] = pc[q] /\ job'[q] = job[q]
  BY <1>0, <1>1, OwnMoveFacts DEF Lawful
<1>3. CASE Step(p) \/ Crash(p)
  <2>1. ~Idle(p) /\ job'[p].cmd \in {job[p].cmd, "none"} /\ "none" \notin Alone
    BY <1>0, <1>3, StepJob, ArtifactAssumption DEF ArtifactCommands
  <2> QED
    BY <1>2, <2>1 DEF AloneRuns, Idle
<1>4. CASE Start(p)
  <2>1. \E cmd, by, c, g, l : Begin(p, cmd, by, c, g, l)
    BY <1>4 DEF Start, StartRepair, StartSnapshot, StartModify, StartSetGroup, StartCreate
  <2>2. PICK cmd, by, c, g, l : Begin(p, cmd, by, c, g, l)
    BY <2>1
  <2>3. job'[p].cmd = cmd
    BY <1>0, <2>2 DEF Begin, LocalType
  <2> QED
    BY <1>2, <2>2, <2>3 DEF AloneRuns, Begin, Idle
<1> QED
  BY <1>3, <1>4

\* In a consistent record, and in every earlier version of it, the revs count
\* from 0.
LEMMA RevsCount ==
    ASSUME TypeOK, HistoryOnDisk, NEW p \in Procs, CopyTrails(p)
    PROVE  /\ Len(record.history) \in Nat /\ Len(copy[p].history) \in Nat
           /\ NextRev(record) = Len(record.history)
           /\ NextRev(copy[p]) = Len(copy[p].history)
           /\ Present(record) => LatestRev(record) = Len(record.history) - 1
           /\ Present(copy[p]) => LatestRev(copy[p]) = Len(copy[p].history) - 1
           /\ Present(record) => Len(record.history) - 1 \in Revs
<1>0. record \in Record /\ copy[p] \in Record
  BY DEF TypeOK
<1>1. /\ Len(record.history) \in Nat /\ Len(copy[p].history) \in Nat
      /\ Present(record) <=> Len(record.history) > 0
      /\ Present(copy[p]) <=> Len(copy[p].history) > 0
      /\ Present(record) => LatestRev(record) \in Revs
  BY <1>0, PresentFacts
<1>2. Present(record) => LatestRev(record) = Len(record.history) - 1
  BY <1>1 DEF HistoryOnDisk, LatestRev
<1>3. Present(copy[p]) => LatestRev(copy[p]) = Len(copy[p].history) - 1
  BY <1>1 DEF HistoryOnDisk, CopyTrails, LatestRev
<1> QED
  BY <1>1, <1>2, <1>3 DEF NextRev

\* A process that is idle has no claim on anything.
LEMMA IdleInv ==
    ASSUME TypeOK, NEW p \in Procs, pc'[p] = "idle", copy'[p] = NoRecord, doomed'[p] = {},
           TypeOK'
    PROVE  ProcInv(p)'
<1>1. /\ Len(copy'[p].history) = 0 /\ ~Present(copy'[p])
      /\ Len(record'.history) \in Nat
  BY NoRecordType, PresentFacts DEF NoRecord, TypeOK
<1> QED
  BY <1>1 DEF ProcInv, CopyTrails, HoldsSlot, SparesRecorded, Writing

\* A step that leaves the record and the rev files alone disturbs no other
\* process.
LEMMA QuietStep ==
    ASSUME IInv, NEW p \in Procs, TypeOK', JobsFit', AloneRuns', Lawful(p),
           UNCHANGED <<record, files>>, ProcInv(p)', Writing(p)' => Writing(p)
    PROVE  IInv'
<1>0. LocalType
  BY TypeParts DEF IInv
<1>1. \A q \in Procs \ {p} : /\ pc'[q] = pc[q] /\ job'[q] = job[q]
                             /\ copy'[q] = copy[q] /\ doomed'[q] = doomed[q]
  BY <1>0, OwnMoveFacts DEF Lawful
<1>2. ASSUME NEW q \in Procs PROVE ProcInv(q)'
  <2>1. CASE q # p
    BY <1>1, <2>1 DEF IInv, ProcInv, CopyTrails, HoldsSlot, SparesRecorded, Writing
  <2> QED
    BY <2>1
<1>3. OneWriter'
  BY <1>1 DEF IInv, OneWriter, Writing
<1>4. HistoryOnDisk'
  BY DEF IInv, HistoryOnDisk
<1> QED
  BY <1>2, <1>3, <1>4 DEF IInv

LEMMA ClaimInv ==
    ASSUME IInv, NEW p \in Procs, Claim(p), ~Finish(p), TypeOK', JobsFit', AloneRuns', Lawful(p)
    PROVE  IInv'
<1> DEFINE n == NextRev(copy[p])
           h == record.history
<1>0. /\ TypeOK /\ LocalType /\ JobFits(p) /\ CopyTrails(p) /\ HoldsSlot(p) /\ HistoryOnDisk
      /\ OneWriter
  BY TypeParts DEF IInv, JobsFit, ProcInv
<1>1. /\ pc[p] = "claim" /\ files[n] = None /\ files' = [files EXCEPT ![n] = job[p].content]
      /\ Goto(p, "writeCurrent") /\ UNCHANGED <<job, copy, doomed, record>>
  BY DEF Claim, SlotFree
<1>2. n \in Revs /\ job[p].content \in Contents
  BY <1>0, <1>1 DEF JobFits
<1>3. /\ Len(h) \in Nat /\ Len(copy[p].history) \in Nat /\ n = Len(copy[p].history)
      /\ NextRev(record) = Len(h)
      /\ Present(record) => LatestRev(record) = Len(h) - 1 /\ Len(h) - 1 \in Revs
      /\ Present(copy[p]) => LatestRev(copy[p]) = n - 1
  BY <1>0, RevsCount
<1>4. n = Len(h)
  BY <1>0, <1>1, <1>2, <1>3 DEF HistoryOnDisk, CopyTrails
<1>5. copy[p].history = h
  <2>1. copy[p].history \in Seq(Touch) /\ h \in Seq(Touch)
    BY <1>0 DEF TypeOK, Record
  <2>2. \A i \in 1..Len(copy[p].history) : copy[p].history[i] = h[i]
    BY <1>0 DEF CopyTrails
  <2> QED
    BY <1>3, <1>4, <2>1, <2>2, SeqEqual
<1>6. /\ files'[n] = job[p].content /\ files'[n] # None
      /\ \A m \in Revs \ {n} : files'[m] = files[m]
  BY <1>0, <1>1, <1>2, ArtifactAssumption DEF TypeOK
<1>7. HistoryOnDisk'
  BY <1>0, <1>1, <1>3, <1>4, <1>6 DEF HistoryOnDisk
<1>8. \A q \in Procs : ~Writing(q)
  BY <1>1, <1>2, <1>4, ArtifactAssumption DEF IInv, ProcInv, HoldsSlot, JobsFit, JobFits, Writing
<1>9. /\ pc'[p] = "writeCurrent"
      /\ \A q \in Procs \ {p} : pc'[q] = pc[q]
  BY <1>0, <1>1 DEF LocalType, Goto
<1>10. OneWriter'
  BY <1>8, <1>9 DEF OneWriter, Writing
<1>11. ASSUME NEW q \in Procs PROVE ProcInv(q)'
  <2>0. CopyTrails(q) /\ HoldsSlot(q) /\ SparesRecorded(q)
    BY DEF IInv, ProcInv
  <2>1. CopyTrails(q)'
    BY <1>1, <1>9, <2>0 DEF CopyTrails
  <2>2. SparesRecorded(q)'
    BY <1>1, <2>0 DEF SparesRecorded
  <2>3. CASE q = p
    <3>1. Present(record) => Present(copy[p]) /\ files'[LatestRev(record)] # job[p].content
      <4>1. Present(record) <=> Present(copy[p])
        BY <1>5 DEF Present
      <4>2. Present(record) => files'[Len(h) - 1] = files[Len(h) - 1]
        BY <1>3, <1>4, <1>6
      <4>3. Present(copy[p]) => files[n - 1] # job[p].content
        BY <1>0, <1>1, <1>3 DEF HoldsSlot
      <4> QED
        BY <1>3, <1>4, <4>1, <4>2, <4>3
    <3>2. HoldsSlot(p)'
      BY <1>1, <1>4, <1>5, <1>6, <1>9, <3>1 DEF HoldsSlot, Writing, Present, LatestRev
    <3> QED
      BY <2>1, <2>2, <2>3, <3>2 DEF ProcInv
  <2>4. CASE q # p
    <3>1. ~Writing(q)'
      BY <1>8, <1>9, <2>4 DEF Writing
    <3>2. ASSUME pc[q] = "claim", Present(copy[q])
          PROVE  files'[LatestRev(copy[q])] # job[q].content
      <4>1. /\ LatestRev(copy[q]) = Len(copy[q].history) - 1 /\ Len(copy[q].history) \in Nat
            /\ LatestRev(copy[q]) \in Revs
        BY <1>0, <2>0, <3>2, RevsCount, PresentFacts DEF TypeOK
      <4>2. LatestRev(copy[q]) # n
        BY <1>3, <1>4, <2>0, <4>1 DEF CopyTrails
      <4> QED
        BY <1>6, <2>0, <3>2, <4>1, <4>2 DEF HoldsSlot
    <3>3. HoldsSlot(q)'
      BY <1>1, <1>9, <2>4, <3>1, <3>2 DEF HoldsSlot, Present, LatestRev
    <3> QED
      BY <2>1, <2>2, <3>3 DEF ProcInv
  <2> QED
    BY <2>3, <2>4
<1> QED
  BY <1>7, <1>10, <1>11 DEF IInv

\* While p runs a command that has the files to itself, or any command at
\* all, no other process is in one that must.
LEMMA NobodyAlone ==
    ASSUME IInv, QuietCommands, NEW p \in Procs, ~Idle(p), NEW q \in Procs, q # p
    PROVE  pc[q] \notin {"saveGroup", "list", "remove"} /\ doomed[q] = {}
<1>1. JobFits(q) /\ AloneRuns
  BY DEF IInv, JobsFit
<1>2. pc[q] \notin {"saveGroup", "list", "remove"}
  BY <1>1 DEF JobFits, AloneRuns, QuietCommands, Idle
<1> QED
  BY <1>1, <1>2 DEF JobFits

LEMMA SaveInv ==
    ASSUME IInv, QuietCommands, NEW p \in Procs, Save(p),
           TypeOK', JobsFit', AloneRuns', Lawful(p)
    PROVE  IInv'
<1> DEFINE h == record.history
           t == [by |-> job[p].by, rev |-> NextRev(copy[p])]
<1>0. /\ TypeOK /\ LocalType /\ JobFits(p) /\ CopyTrails(p) /\ HoldsSlot(p) /\ HistoryOnDisk
      /\ OneWriter
  BY TypeParts DEF IInv, JobsFit, ProcInv
<1>1. /\ pc[p] = "save" /\ record' = Touched(copy[p], job[p].by)
      /\ copy' = [copy EXCEPT ![p] = Touched(copy[p], job[p].by)]
      /\ Goto(p, "log") /\ UNCHANGED <<files, job, doomed>>
  BY DEF Save
<1>2. /\ copy[p] \in Record /\ record \in Record /\ job[p].by \in Authors
      /\ NextRev(copy[p]) \in Revs /\ copy[p].history = h
  BY <1>0, <1>1 DEF TypeOK, JobFits, HoldsSlot, Writing
<1>3. /\ Len(h) \in Nat /\ NextRev(copy[p]) = Len(h)
      /\ Present(record) <=> Len(h) > 0
  BY <1>0, <1>2, RevsCount, PresentFacts
<1>4. record'.history = Append(h, t) /\ record'.group = copy[p].group /\ Present(record')
  BY <1>1, <1>2, TouchedFacts
<1>5. h \in Seq(Touch) /\ t \in Touch
  BY <1>2 DEF Record, Touch
<1>6. /\ Len(record'.history) = Len(h) + 1
      /\ \A i \in 1..Len(h) : record'.history[i] = h[i]
      /\ record'.history[Len(h) + 1] = t
  BY <1>3, <1>4, <1>5
<1>7. files[Len(h)] # None
  BY <1>0, <1>1, ArtifactAssumption DEF HoldsSlot, JobFits, Writing
<1>8. HistoryOnDisk'
  <2>1. ASSUME NEW i \in 1..Len(record'.history) PROVE record'.history[i].rev = i - 1
    <3>1. i \in 1..Len(h) \/ i = Len(h) + 1
      BY <1>3, <1>6
    <3>2. t.rev = Len(h)
      BY <1>3
    <3> QED
      BY <1>0, <1>3, <1>6, <3>1, <3>2 DEF HistoryOnDisk
  <2>2. ASSUME NEW m \in Revs
        PROVE  /\ m < Len(record'.history) => files'[m] # None
               /\ m > Len(record'.history) => files'[m] = None
    <3>1. m \in Nat
      BY DEF Revs
    <3> QED
      BY <1>0, <1>1, <1>3, <1>6, <1>7, <3>1 DEF HistoryOnDisk
  <2> QED
    BY <2>1, <2>2 DEF HistoryOnDisk
<1>9. /\ pc'[p] = "log" /\ copy'[p] = record'
      /\ \A q \in Procs \ {p} : pc'[q] = pc[q] /\ copy'[q] = copy[q]
  BY <1>0, <1>1 DEF LocalType, Goto
<1>10. \A q \in Procs : ~Writing(q)'
  BY <1>0, <1>1, <1>9 DEF OneWriter, Writing
<1>11. ASSUME NEW q \in Procs PROVE ProcInv(q)'
  <2>1. CASE q = p
    <3>1. CopyTrails(p)'
      BY <1>3, <1>6, <1>9 DEF CopyTrails
    <3>2. HoldsSlot(p)'
      BY <1>9, <1>10 DEF HoldsSlot
    <3>3. SparesRecorded(p)'
      BY <1>0, <1>1 DEF SparesRecorded, JobFits
    <3> QED
      BY <2>1, <3>1, <3>2, <3>3 DEF ProcInv
  <2>2. CASE q # p
    <3>0. /\ CopyTrails(q) /\ HoldsSlot(q) /\ Len(copy[q].history) \in Nat
          /\ Present(copy[q]) <=> Len(copy[q].history) > 0
      BY <1>0, PresentFacts DEF IInv, ProcInv, TypeOK
    <3>1. pc[q] \notin {"saveGroup", "list", "remove"} /\ doomed[q] = {}
      BY <1>1, <2>2, NobodyAlone DEF Idle
    <3>2. Present(copy[q]) => copy[q].group = record'.group
      <4>1. Present(copy[q]) => Present(record) /\ Present(copy[p])
        BY <1>2, <1>3, <3>0 DEF CopyTrails, Present
      <4> QED
        BY <1>0, <1>4, <3>0, <4>1 DEF CopyTrails
    <3>3. CopyTrails(q)'
      <4>1. Len(copy[q].history) <= Len(h)
        BY <3>0 DEF CopyTrails
      <4>2. \A i \in 1..Len(copy[q].history) : copy[q].history[i] = record'.history[i]
        BY <1>3, <1>6, <3>0, <4>1 DEF CopyTrails
      <4> QED
        BY <1>3, <1>6, <1>9, <2>2, <3>0, <3>1, <3>2, <4>1, <4>2 DEF CopyTrails, Present
    <3>4. HoldsSlot(q)'
      BY <1>1, <1>9, <1>10, <2>2, <3>0 DEF HoldsSlot, Present, LatestRev
    <3>5. SparesRecorded(q)'
      BY <1>1, <3>1 DEF SparesRecorded
    <3> QED
      BY <3>3, <3>4, <3>5 DEF ProcInv
  <2> QED
    BY <2>1, <2>2
<1> QED
  BY <1>8, <1>10, <1>11 DEF IInv, OneWriter

LEMMA SaveGroupInv ==
    ASSUME IInv, QuietCommands, NEW p \in Procs, SaveGroup(p),
           TypeOK', JobsFit', AloneRuns', Lawful(p)
    PROVE  IInv'
<1>0. /\ TypeOK /\ LocalType /\ JobFits(p) /\ CopyTrails(p) /\ HistoryOnDisk /\ AloneRuns
      /\ JobsFit
  BY TypeParts DEF IInv, JobsFit, ProcInv
<1>1. /\ pc[p] = "saveGroup" /\ record' = [copy[p] EXCEPT !.group = job[p].group]
      /\ UNCHANGED files /\ Finish(p)
  BY DEF SaveGroup
<1>2. copy[p] = record /\ copy[p] \in Record /\ job[p].cmd \in Alone
  BY <1>0, <1>1 DEF TypeOK, CopyTrails, JobFits, QuietCommands, Idle
<1>3. record'.history = record.history
  BY <1>1, <1>2 DEF Record
<1>4. HistoryOnDisk'
  BY <1>0, <1>1, <1>3 DEF HistoryOnDisk
<1>5. ASSUME NEW q \in Procs
      PROVE  pc'[q] = "idle" /\ copy'[q] = NoRecord /\ doomed'[q] = {}
  <2>1. CASE q = p
    BY <1>0, <1>1, <2>1, FinishOwn
  <2>2. CASE q # p
    <3>1. Idle(q)
      BY <1>0, <1>2, <2>2 DEF AloneRuns
    <3>2. copy[q] = NoRecord /\ doomed[q] = {} /\ pc[q] = "idle"
      BY <1>0, <3>1 DEF JobsFit, JobFits, Idle
    <3> QED
      BY <1>0, <2>2, <3>2, OwnMoveFacts DEF Lawful
  <2> QED
    BY <2>1, <2>2
<1>6. \A q \in Procs : ProcInv(q)'
  BY <1>0, <1>5, IdleInv
<1> QED
  BY <1>4, <1>5, <1>6 DEF IInv, OneWriter, Writing

LEMMA RemoveRevInv ==
    ASSUME IInv, QuietCommands, NEW p \in Procs, NEW n \in Revs, RemoveRev(p, n),
           TypeOK', JobsFit', AloneRuns', Lawful(p)
    PROVE  IInv'
<1>0. /\ TypeOK /\ LocalType /\ JobFits(p) /\ CopyTrails(p) /\ HistoryOnDisk /\ AloneRuns
      /\ JobsFit /\ SparesRecorded(p)
  BY TypeParts DEF IInv, JobsFit, ProcInv
<1>1. /\ pc[p] = "remove" /\ n \in doomed[p] /\ files' = [files EXCEPT ![n] = None]
      /\ doomed' = [doomed EXCEPT ![p] = doomed[p] \ {n}]
      /\ UNCHANGED <<record, pc, job, copy>>
  BY DEF RemoveRev
<1>2. n >= Len(record.history)
  BY <1>0, <1>1 DEF SparesRecorded
<1>3. job[p].cmd \in Alone
  BY <1>0, <1>1 DEF JobFits, QuietCommands, Idle
<1>4. HistoryOnDisk'
  <2>1. /\ files'[n] = None
        /\ \A m \in Revs \ {n} : files'[m] = files[m]
    BY <1>0, <1>1 DEF TypeOK
  <2>2. Len(record.history) \in Nat /\ n \in Nat
    BY <1>0, RevsCount DEF Revs
  <2> QED
    BY <1>0, <1>1, <1>2, <2>1, <2>2 DEF HistoryOnDisk
<1>5. ASSUME NEW q \in Procs, q # p PROVE Idle(q)' /\ ProcInv(q)'
  <2>1. pc[q] = "idle" /\ copy[q] = NoRecord /\ doomed[q] = {}
    BY <1>0, <1>3, <1>5 DEF AloneRuns, JobsFit, JobFits, Idle
  <2>2. pc'[q] = "idle" /\ copy'[q] = NoRecord /\ doomed'[q] = {}
    BY <1>0, <1>1, <1>5, <2>1 DEF LocalType
  <2> QED
    BY <1>0, <2>2, IdleInv DEF Idle
<1>6. ProcInv(p)'
  BY <1>0, <1>1 DEF ProcInv, CopyTrails, HoldsSlot, Writing, SparesRecorded, LocalType
<1>7. ~Writing(p)'
  BY <1>1 DEF Writing
<1>8. OneWriter'
  BY <1>5, <1>7 DEF OneWriter, Writing, Idle
<1> QED
  BY <1>4, <1>5, <1>6, <1>8 DEF IInv

\* The steps that touch neither the record nor the rev files.
LEMMA StepInv ==
    ASSUME IInv, QuietCommands, NEW p \in Procs, Step(p),
           TypeOK', JobsFit', AloneRuns', Lawful(p)
    PROVE  IInv'
<1>0. /\ TypeOK /\ LocalType /\ JobFits(p) /\ ProcInv(p) /\ HistoryOnDisk
      /\ CopyTrails(p) /\ HoldsSlot(p) /\ SparesRecorded(p)
      /\ record \in Record /\ copy[p] \in Record
  BY TypeParts DEF IInv, JobsFit, ProcInv, TypeOK
<1>1. ASSUME Finish(p), UNCHANGED <<record, files>>
      PROVE  IInv'
  <2>1. pc'[p] = "idle" /\ copy'[p] = NoRecord /\ doomed'[p] = {}
    BY <1>0, <1>1, FinishOwn
  <2>2. ProcInv(p)' /\ ~Writing(p)'
    BY <1>0, <2>1, IdleInv DEF Writing
  <2> QED
    BY <1>1, <2>2, QuietStep
<1>2. CASE Load(p)
  <2>1. CASE ~Finish(p)
    <3>1. /\ copy' = [copy EXCEPT ![p] = record] /\ Goto(p, AfterLoad(job[p].cmd))
          /\ UNCHANGED <<record, files, doomed>> /\ pc[p] = "load"
      BY <1>2, <2>1 DEF Load, disk
    <3>2. /\ copy'[p] = record /\ pc'[p] = AfterLoad(job[p].cmd) /\ doomed'[p] = {}
      BY <1>0, <3>1 DEF LocalType, Goto, JobFits
    <3>3. pc'[p] \notin {"claim", "writeCurrent", "save"}
      BY <3>2 DEF AfterLoad
    <3>4. ProcInv(p)' /\ ~Writing(p)'
      <4>1. Len(record.history) \in Nat
        BY <1>0, PresentFacts
      <4> QED
        BY <3>1, <3>2, <3>3, <4>1 DEF ProcInv, CopyTrails, HoldsSlot, SparesRecorded, Writing
    <3> QED
      BY <3>1, <3>4, QuietStep
  <2> QED
    BY <1>1, <1>2, <2>1 DEF Load, disk
<1>3. CASE ReadCurrent(p)
  <2>1. CASE ~Finish(p)
    <3>1. /\ Goto(p, "compare") /\ UNCHANGED <<record, files, copy, doomed>>
      BY <1>3, <2>1 DEF ReadCurrent, disk
    <3>2. copy'[p] = copy[p] /\ pc'[p] = "compare" /\ doomed'[p] = doomed[p]
      BY <1>0, <3>1 DEF LocalType, Goto
    <3>3. ProcInv(p)' /\ ~Writing(p)'
      BY <1>0, <3>1, <3>2 DEF ProcInv, CopyTrails, HoldsSlot, SparesRecorded, Writing, Present
    <3> QED
      BY <3>1, <3>3, QuietStep
  <2> QED
    BY <1>1, <1>3, <2>1 DEF ReadCurrent, disk
<1>4. CASE Compare(p)
  <2>1. CASE ~Finish(p)
    <3>1. /\ Goto(p, "claim") /\ UNCHANGED <<record, files, job, copy, doomed>>
          /\ files[LatestRev(copy[p])] # job[p].content
      BY <1>4, <2>1 DEF Compare, disk
    <3>2. /\ copy'[p] = copy[p] /\ pc'[p] = "claim" /\ doomed'[p] = doomed[p]
          /\ job'[p] = job[p]
      BY <1>0, <3>1 DEF LocalType, Goto
    <3>3. CopyTrails(p)' /\ SparesRecorded(p)' /\ ~Writing(p)'
      BY <1>0, <3>1, <3>2 DEF CopyTrails, SparesRecorded, Writing, Present
    <3>4. HoldsSlot(p)'
      BY <3>1, <3>2, <3>3 DEF HoldsSlot, LatestRev
    <3> QED
      BY <3>1, <3>3, <3>4, QuietStep DEF ProcInv
  <2> QED
    BY <1>1, <1>4, <2>1 DEF Compare, disk
<1>5. CASE Claim(p)
  <2>1. CASE ~Finish(p)
    BY <1>5, <2>1, ClaimInv
  <2>2. CASE Finish(p)
    <3>1. pc'[p] = "idle"
      BY <1>0, <2>2, FinishOwn
    <3>2. ~Goto(p, "writeCurrent")
      BY <1>0, <3>1 DEF Goto, LocalType
    <3> QED
      BY <1>1, <1>5, <2>2, <3>2 DEF Claim
  <2> QED
    BY <2>1, <2>2
<1>6. CASE WriteCurrent(p)
  <2>1. /\ pc[p] = "writeCurrent" /\ Goto(p, "save")
        /\ UNCHANGED <<record, files, job, copy, doomed>>
    BY <1>6 DEF WriteCurrent
  <2>2. pc'[p] = "save" /\ Writing(p)
    BY <1>0, <2>1 DEF LocalType, Goto, Writing
  <2>3. ProcInv(p)'
    BY <1>0, <2>1, <2>2 DEF ProcInv, CopyTrails, HoldsSlot, SparesRecorded, Writing, Present,
       LatestRev
  <2> QED
    BY <2>1, <2>2, <2>3, QuietStep
<1>7. CASE Save(p)
  BY <1>7, SaveInv
<1>8. CASE AppendLog(p)
  BY <1>1, <1>8 DEF AppendLog
<1>9. CASE SaveGroup(p)
  BY <1>9, SaveGroupInv
<1>10. CASE ListOrphans(p)
  <2>1. /\ pc[p] = "list" /\ doomed' = [doomed EXCEPT ![p] = Orphans(copy[p])]
        /\ Goto(p, "remove") /\ UNCHANGED <<record, files, job, copy>>
    BY <1>10 DEF ListOrphans, disk
  <2>2. /\ pc'[p] = "remove" /\ copy'[p] = copy[p] /\ doomed'[p] = Orphans(copy[p])
        /\ copy[p] = record
    BY <1>0, <2>1 DEF LocalType, Goto, CopyTrails
  <2>3. \A m \in Orphans(record) : m >= Len(record.history)
    <3>1. ASSUME NEW m \in Revs, m < Len(record.history)
          PROVE  m \in Recorded(record)
      <4>1. m \in Nat /\ m + 1 \in 1..Len(record.history)
        BY <1>0, <3>1, RevsCount DEF Revs
      <4>2. record.history[m + 1].rev = m /\ m + 1 \in DOMAIN record.history
        BY <1>0, <4>1 DEF HistoryOnDisk, Record
      <4> QED
        BY <4>2 DEF Recorded
    <3>2. \A m \in Orphans(record) : m \in Revs /\ m \notin Recorded(record)
      BY DEF Orphans, OnDisk
    <3>3. \A m \in Revs : m \in Nat
      BY DEF Revs
    <3> QED
      BY <1>0, <3>1, <3>2, <3>3, RevsCount
  <2>4. ProcInv(p)' /\ ~Writing(p)'
    BY <1>0, <2>1, <2>2, <2>3 DEF ProcInv, CopyTrails, HoldsSlot, SparesRecorded, Writing, Present
  <2> QED
    BY <2>1, <2>4, QuietStep
<1>11. ASSUME NEW n \in Revs, RemoveRev(p, n)
       PROVE  IInv'
  BY <1>11, RemoveRevInv
<1>12. CASE RepairEnds(p)
  BY <1>1, <1>12 DEF RepairEnds, disk
<1> QED
  BY <1>2, <1>3, <1>4, <1>5, <1>6, <1>7, <1>8, <1>9, <1>10, <1>11, <1>12 DEF Step

LEMMA StartInv ==
    ASSUME IInv, NEW p \in Procs, Start(p),
           TypeOK', JobsFit', AloneRuns', Lawful(p), UNCHANGED disk
    PROVE  IInv'
<1>0. /\ TypeOK /\ LocalType /\ JobFits(p) /\ record \in Record
  BY TypeParts DEF IInv, JobsFit, TypeOK
<1>1. copy[p] = NoRecord /\ doomed[p] = {} /\ UNCHANGED doomed
  BY <1>0 DEF Start, StartRepair, StartSnapshot, StartModify, StartSetGroup, StartCreate,
     Begin, JobFits, Idle
<1>2. /\ ~Present(copy'[p]) /\ Len(copy'[p].history) = 0
  <2>1. copy'[p] = NoRecord \/ \E g \in Groups \cup {None} :
                                   copy'[p] = [NoRecord EXCEPT !.group = g]
    <3>1. ASSUME NEW by \in Authors, NEW c \in Contents, NEW g \in Groups \cup {None},
                 StartCreate(p, by, c, g)
          PROVE  copy'[p] = [NoRecord EXCEPT !.group = g]
      BY <1>0, <3>1 DEF StartCreate, LocalType
    <3>2. UNCHANGED copy => copy'[p] = NoRecord
      BY <1>1
    <3> QED
      BY <3>1, <3>2 DEF Start, StartRepair, StartSnapshot, StartModify, StartSetGroup
  <2>2. \A g : [NoRecord EXCEPT !.group = g].history = NoRecord.history
    BY DEF NoRecord
  <2>3. NoRecord.history = <<>> /\ Len(<<>>) = 0
    BY DEF NoRecord
  <2>4. copy'[p].history = <<>>
    BY <2>1, <2>2, <2>3
  <2> QED
    BY <2>3, <2>4 DEF Present
<1>3. pc'[p] \in {"claim", "load"}
  BY <1>0 DEF Start, StartRepair, StartSnapshot, StartModify, StartSetGroup, StartCreate,
     Begin, Goto, LocalType
<1>4. ProcInv(p)' /\ ~Writing(p)'
  <2>1. Len(record.history) \in Nat /\ record' = record /\ doomed'[p] = {}
    BY <1>0, <1>1, PresentFacts DEF disk
  <2> QED
    BY <1>2, <1>3, <2>1 DEF ProcInv, CopyTrails, HoldsSlot, SparesRecorded, Writing
<1> QED
  BY <1>4, QuietStep DEF disk

LEMMA InitIInv == Init => IInv
<1> SUFFICES ASSUME Init PROVE IInv
  OBVIOUS
<1>1. TypeOK /\ JobsFit
  BY InitTyped
<1>2. /\ record = NoRecord /\ \A m \in Revs : files[m] = None
      /\ \A p \in Procs : /\ pc[p] = "idle" /\ job[p] = NoJob
                          /\ copy[p] = NoRecord /\ doomed[p] = {}
  BY DEF Init
<1>3. Len(NoRecord.history) = 0 /\ ~Present(NoRecord)
  BY DEF NoRecord, Present
<1>4. HistoryOnDisk
  <2>1. \A m \in Revs : m \in Nat
    BY DEF Revs
  <2> QED
    BY <1>2, <1>3, <2>1 DEF HistoryOnDisk
<1>5. ASSUME NEW p \in Procs PROVE ProcInv(p)
  <2>1. /\ Len(copy[p].history) = 0 /\ Len(record.history) = 0 /\ ~Present(copy[p])
        /\ pc[p] = "idle" /\ doomed[p] = {}
    BY <1>2, <1>3
  <2> QED
    BY <2>1 DEF ProcInv, CopyTrails, HoldsSlot, SparesRecorded, Writing
<1>6. AloneRuns /\ OneWriter
  BY <1>2 DEF AloneRuns, OneWriter, Writing, Idle
<1> QED
  BY <1>1, <1>4, <1>5, <1>6 DEF IInv

LEMMA NextIInv == ASSUME QuietCommands PROVE IInv /\ [Next]_vars => IInv'
<1> SUFFICES ASSUME IInv, [Next]_vars PROVE IInv'
  OBVIOUS
<1>0. TypeOK /\ JobsFit /\ AloneRuns /\ TypeOK' /\ JobsFit'
  BY NextTyped DEF IInv
<1>1. ASSUME NEW p \in Procs, Start(p) \/ Step(p) \/ Crash(p)
      PROVE  IInv'
  <2>1. JobFits(p) /\ AloneRuns'
    BY <1>0, <1>1, AloneKept DEF JobsFit
  <2>2. CASE Start(p)
    BY <1>0, <2>1, <2>2, StartLawful, StartInv
  <2>3. CASE Step(p)
    BY <1>0, <2>1, <2>3, StepLawful, StepInv
  <2>4. CASE Crash(p)
    <3>1. Finish(p) /\ UNCHANGED disk /\ Lawful(p) /\ LocalType
      BY <1>0, <2>4, CrashLawful, TypeParts DEF Crash
    <3>2. ProcInv(p)' /\ ~Writing(p)'
      BY <1>0, <3>1, FinishOwn, IdleInv DEF Writing
    <3> QED
      BY <1>0, <2>1, <3>1, <3>2, QuietStep DEF disk
  <2> QED
    BY <1>1, <2>2, <2>3, <2>4
<1>2. ASSUME NEW c \in Contents, UserEdits(c)
      PROVE  IInv'
  BY <1>0, <1>2 DEF UserEdits, IInv, AloneRuns, Idle, HistoryOnDisk, OneWriter, Writing, ProcInv,
     CopyTrails, HoldsSlot, SparesRecorded, Present, LatestRev
<1>3. CASE UNCHANGED vars
  BY <1>0, <1>3 DEF vars, disk, IInv, AloneRuns, Idle, HistoryOnDisk, OneWriter, Writing, ProcInv,
     CopyTrails, HoldsSlot, SparesRecorded, Present, LatestRev
<1> QED
  BY <1>1, <1>2, <1>3 DEF Next

-----------------------------------------------------------------------------
(* The record and its rev files implement the abstract log.                *)

EntriesOf(r, f) ==
    [i \in DOMAIN r.history |->
        [by |-> r.history[i].by, content |-> f[r.history[i].rev]]]

EntryType == [by: Authors, content: Contents \cup {None}]

Counts(r) == \A i \in 1..Len(r.history) : r.history[i].rev = i - 1

LEMMA EntriesFacts ==
    ASSUME NEW r \in Record, NEW f \in [Revs -> Contents \cup {None}], Counts(r)
    PROVE  /\ Len(r.history) \in Nat
           /\ EntriesOf(r, f) \in Seq(EntryType) /\ Len(EntriesOf(r, f)) = Len(r.history)
           /\ \A i \in 1..Len(r.history) :
                 /\ i - 1 \in Revs
                 /\ EntriesOf(r, f)[i] = [by |-> r.history[i].by, content |-> f[i - 1]]
<1> DEFINE Entry(i) == [by |-> r.history[i].by, content |-> f[r.history[i].rev]]
<1>1. /\ r.history \in Seq(Touch) /\ Len(r.history) \in Nat
      /\ DOMAIN r.history = 1..Len(r.history)
  BY DEF Record
<1>2. ASSUME NEW i \in 1..Len(r.history)
      PROVE  /\ Entry(i) \in EntryType /\ i - 1 \in Revs
             /\ Entry(i) = [by |-> r.history[i].by, content |-> f[i - 1]]
  <2>1. r.history[i] \in Touch
    BY <1>1
  <2>2. r.history[i].rev \in Revs /\ r.history[i].by \in Authors
    BY <2>1 DEF Touch
  <2>3. f[r.history[i].rev] \in Contents \cup {None}
    BY <2>2
  <2>4. r.history[i].rev = i - 1
    BY DEF Counts
  <2> QED
    BY <2>2, <2>3, <2>4 DEF EntryType
<1>3. EntriesOf(r, f) = [i \in 1..Len(r.history) |-> Entry(i)]
  BY <1>1 DEF EntriesOf
<1>4. EntriesOf(r, f) \in [1..Len(r.history) -> EntryType]
  BY <1>2, <1>3
<1>5. EntriesOf(r, f) \in Seq(EntryType)
  BY <1>1, <1>4, SeqDef
<1>6. Len(EntriesOf(r, f)) = Len(r.history)
  BY <1>1, <1>4, <1>5, LenProperties
<1> QED
  BY <1>1, <1>2, <1>3, <1>5, <1>6

\* Files of revs the record does not name make no difference.
LEMMA EntriesKept ==
    ASSUME NEW r \in Record, NEW s \in Record, r.history = s.history, Counts(r),
           NEW f \in [Revs -> Contents \cup {None}], NEW g \in [Revs -> Contents \cup {None}],
           \A m \in Revs : m < Len(r.history) => f[m] = g[m]
    PROVE  EntriesOf(r, f) = EntriesOf(s, g)
<1>0. Counts(s)
  BY DEF Counts
<1>1. /\ EntriesOf(r, f) \in Seq(EntryType) /\ EntriesOf(s, g) \in Seq(EntryType)
      /\ Len(EntriesOf(r, f)) = Len(r.history) /\ Len(EntriesOf(s, g)) = Len(r.history)
      /\ Len(r.history) \in Nat
  BY <1>0, EntriesFacts
<1>2. ASSUME NEW i \in 1..Len(r.history)
      PROVE  EntriesOf(r, f)[i] = EntriesOf(s, g)[i]
  <2>1. /\ EntriesOf(r, f)[i] = [by |-> r.history[i].by, content |-> f[i - 1]]
        /\ EntriesOf(s, g)[i] = [by |-> r.history[i].by, content |-> g[i - 1]]
        /\ i - 1 \in Revs
    BY <1>0, EntriesFacts
  <2>2. i - 1 < Len(r.history)
    BY <1>1
  <2> QED
    BY <2>1, <2>2
<1> QED
  BY <1>1, <1>2, SeqEqual

\* A save appends exactly one entry.
LEMMA EntriesAppended ==
    ASSUME NEW r \in Record, NEW f \in [Revs -> Contents \cup {None}], Counts(r),
           NEW by \in Authors, NEW s \in Record, Len(r.history) \in Revs, Counts(s),
           s.history = Append(r.history, [by |-> by, rev |-> Len(r.history)])
    PROVE  EntriesOf(s, f) =
              Append(EntriesOf(r, f), [by |-> by, content |-> f[Len(r.history)]])
<1> DEFINE n == Len(r.history)
           e == [by |-> by, content |-> f[n]]
<1>1. /\ EntriesOf(r, f) \in Seq(EntryType) /\ EntriesOf(s, f) \in Seq(EntryType)
      /\ Len(EntriesOf(r, f)) = n /\ n \in Nat /\ Len(EntriesOf(s, f)) = Len(s.history)
  BY EntriesFacts
<1>2. r.history \in Seq(Touch) /\ [by |-> by, rev |-> n] \in Touch
  BY DEF Record, Touch
<1>3. /\ Len(s.history) = n + 1
      /\ \A i \in 1..n : s.history[i] = r.history[i]
      /\ s.history[n + 1] = [by |-> by, rev |-> n]
  BY <1>1, <1>2
<1>4. e \in EntryType
  BY DEF EntryType
<1>5. /\ Append(EntriesOf(r, f), e) \in Seq(EntryType)
      /\ Len(Append(EntriesOf(r, f), e)) = n + 1
      /\ \A i \in 1..n : Append(EntriesOf(r, f), e)[i] = EntriesOf(r, f)[i]
      /\ Append(EntriesOf(r, f), e)[n + 1] = e
  BY <1>1, <1>4
<1>6. ASSUME NEW i \in 1..(n + 1)
      PROVE  EntriesOf(s, f)[i] = Append(EntriesOf(r, f), e)[i]
  <2>1. EntriesOf(s, f)[i] = [by |-> s.history[i].by, content |-> f[i - 1]]
    BY <1>3, EntriesFacts
  <2>2. CASE i = n + 1
    <3>1. s.history[i].by = by /\ i - 1 = n
      BY <1>1, <1>3, <2>2
    <3> QED
      BY <1>5, <2>1, <2>2, <3>1
  <2>3. CASE i \in 1..n
    <3>1. EntriesOf(r, f)[i] = [by |-> r.history[i].by, content |-> f[i - 1]]
      BY <2>3, EntriesFacts
    <3> QED
      BY <1>3, <1>5, <2>1, <2>3, <3>1
  <2>4. i = n + 1 \/ i \in 1..n
    BY <1>1
  <2> QED
    BY <2>2, <2>3, <2>4
<1>7. Len(EntriesOf(s, f)) = n + 1
  BY <1>1, <1>3
<1> HIDE DEF n, e
<1>8. \A i \in 1..Len(EntriesOf(s, f)) :
         EntriesOf(s, f)[i] = Append(EntriesOf(r, f), e)[i]
  BY <1>6, <1>7
<1>9. EntriesOf(s, f) = Append(EntriesOf(r, f), e)
  BY <1>1, <1>5, <1>7, <1>8, SeqEqual
<1> QED
  BY <1>9 DEF e, n

\* The refinement mapping of ArtifactService!Log, by name.
Entries == EntriesOf(record, files)

LEMMA InitMaps == Init => Log!LogInit
<1> SUFFICES ASSUME Init PROVE Log!LogInit
  OBVIOUS
<1>1. record = NoRecord
  BY DEF Init
<1>2. NoRecord \in Record /\ NoRecord.history = <<>> /\ Len(NoRecord.history) = 0
  BY NoRecordType DEF NoRecord
<1>3. Counts(record) /\ files \in [Revs -> Contents \cup {None}]
  BY <1>1, <1>2 DEF Counts, Init
<1>4. Entries \in Seq(EntryType) /\ Len(Entries) = 0
  BY <1>1, <1>2, <1>3, EntriesFacts DEF Entries
<1>5. Entries = <<>> /\ record.group = None
  BY <1>1, <1>4 DEF NoRecord
<1> QED
  BY <1>5 DEF Log!LogInit, Entries, EntriesOf

\* Save commits one revision, SaveGroup sets the group, nothing else shows.
LEMMA StepMaps ==
    ASSUME IInv, IInv', QuietCommands, [Next]_vars
    PROVE  [Log!LogNext]_(Log!logVars)
<1> DEFINE n == Len(record.history)
<1>0. /\ TypeOK /\ TypeOK' /\ HistoryOnDisk /\ LocalType
      /\ record \in Record /\ record' \in Record /\ n \in Nat
      /\ files \in [Revs -> Contents \cup {None}] /\ files' \in [Revs -> Contents \cup {None}]
      /\ Counts(record) /\ Counts(record')
  BY TypeParts, PresentFacts DEF IInv, TypeOK, HistoryOnDisk, Counts
<1>1. ASSUME record'.history = record.history, record'.group = record.group,
             \A m \in Revs : m < n => files'[m] = files[m]
      PROVE  UNCHANGED Log!logVars
  <2>1. EntriesOf(record, files) = EntriesOf(record', files')
    BY <1>0, <1>1, EntriesKept
  <2> QED
    BY <1>1, <2>1 DEF Log!logVars, EntriesOf
<1>2. ASSUME NEW p \in Procs, Save(p)
      PROVE  Log!LogNext
  <2>1. /\ CopyTrails(p) /\ HoldsSlot(p) /\ JobFits(p)
    BY DEF IInv, ProcInv, JobsFit
  <2>2. /\ pc[p] = "save" /\ record' = Touched(copy[p], job[p].by) /\ UNCHANGED files
    BY <1>2 DEF Save
  <2>3. \E by \in Authors, c \in Contents : by = job[p].by /\ c = job[p].content
    BY <2>1, <2>2 DEF JobFits
  <2>4. PICK by \in Authors, c \in Contents : by = job[p].by /\ c = job[p].content
    BY <2>3
  <2>5. /\ copy[p].history = record.history /\ files[n] = c /\ copy[p] \in Record
        /\ NextRev(copy[p]) \in Revs
        /\ Present(record) => files[LatestRev(record)] # c
    BY <1>0, <2>1, <2>2, <2>4 DEF HoldsSlot, Writing, JobFits, LocalType
  <2>6. /\ NextRev(copy[p]) = n
        /\ Present(record) => LatestRev(record) = n - 1
        /\ Present(record) <=> n > 0
    BY <1>0, <2>1, <2>5, RevsCount, PresentFacts
  <2>7. /\ record'.history = Append(record.history, [by |-> by, rev |-> n])
        /\ record'.group = copy[p].group
    BY <2>2, <2>4, <2>5, <2>6, TouchedFacts
  <2>8. Entries' = Append(Entries, [by |-> by, content |-> c])
    BY <1>0, <2>2, <2>4, <2>5, <2>6, <2>7, EntriesAppended DEF Entries
  <2>9. /\ Entries \in Seq(EntryType) /\ Len(Entries) = n
        /\ \A i \in 1..n :
              Entries[i] = [by |-> record.history[i].by, content |-> files[i - 1]]
    BY <1>0, EntriesFacts DEF Entries
  <2>10. Entries = <<>> <=> n = 0
    BY <2>9
  <2>11. Entries = <<>> \/ Entries[Len(Entries)].content # c
    <3>1. CASE n > 0
      <4>1. n \in 1..n
        BY <1>0, <3>1
      <4>2. Entries[n] = [by |-> record.history[n].by, content |-> files[n - 1]]
        BY <2>9, <4>1
      <4>3. Entries[n].content = files[n - 1]
        BY <4>2
      <4> QED
        BY <2>5, <2>6, <2>9, <3>1, <4>3
    <3>2. CASE n = 0
      BY <2>10, <3>2
    <3> QED
      BY <1>0, <3>1, <3>2
  <2>12. IF Entries = <<>> THEN record'.group \in Groups \cup {None}
         ELSE record'.group = record.group
    <3>1. record'.group \in Groups \cup {None}
      BY <1>0 DEF Record
    <3>2. n > 0 => copy[p].group = record.group
      BY <2>1, <2>5, <2>6 DEF CopyTrails, Present
    <3> QED
      BY <1>0, <2>7, <2>10, <3>1, <3>2
  <2>13. Log!Commit(by, c)
    BY <2>8, <2>11, <2>12 DEF Log!Commit, Log!Fresh, Entries, EntriesOf
  <2> QED
    BY <2>13 DEF Log!LogNext
<1>3. ASSUME NEW p \in Procs, SaveGroup(p)
      PROVE  Log!LogNext
  <2>1. /\ CopyTrails(p) /\ JobFits(p) /\ job[p] \in Job
    BY <1>0 DEF IInv, ProcInv, JobsFit, LocalType
  <2>2. /\ pc[p] = "saveGroup" /\ record' = [copy[p] EXCEPT !.group = job[p].group]
        /\ UNCHANGED files
    BY <1>3 DEF SaveGroup
  <2>3. copy[p] = record /\ Present(record)
    BY <2>1, <2>2 DEF CopyTrails, JobFits
  <2>4. \E g \in Groups \cup {None} : g = job[p].group
    BY <2>1 DEF Job
  <2>5. PICK g \in Groups \cup {None} : g = job[p].group
    BY <2>4
  <2>6. record'.history = record.history /\ record'.group = g
    BY <1>0, <2>2, <2>3, <2>5 DEF Record
  <2>7. \A m \in Revs : m < n => files[m] = files'[m]
    BY <2>2
  <2>8. EntriesOf(record, files) = EntriesOf(record', files')
    BY <1>0, <2>6, <2>7, EntriesKept
  <2>9. EntriesOf(record, files) # <<>>
    <3>1. EntriesOf(record, files) \in Seq(EntryType) /\ Len(EntriesOf(record, files)) = n
      BY <1>0, EntriesFacts
    <3>2. n > 0
      BY <1>0, <2>3, PresentFacts
    <3> QED
      BY <3>1, <3>2
  <2>10. Log!SetGroup(g)
    BY <2>6, <2>8, <2>9 DEF Log!SetGroup, EntriesOf
  <2> QED
    BY <2>10 DEF Log!LogNext
<1>4. ASSUME NEW p \in Procs, Claim(p)
      PROVE  UNCHANGED Log!logVars
  <2>1. UNCHANGED record /\ (UNCHANGED files \/
           /\ files[NextRev(copy[p])] = None
           /\ files' = [files EXCEPT ![NextRev(copy[p])] = job[p].content])
    BY <1>4 DEF Claim, SlotFree
  <2>2. \A m \in Revs : m < n => files[m] # None
    BY <1>0 DEF HistoryOnDisk
  <2>3. \A m \in Revs : m < n => files'[m] = files[m]
    BY <1>0, <2>1, <2>2
  <2> QED
    BY <1>1, <2>1, <2>3
<1>5. ASSUME NEW p \in Procs, NEW k \in Revs, RemoveRev(p, k)
      PROVE  UNCHANGED Log!logVars
  <2>1. k >= n
    BY <1>5 DEF RemoveRev, IInv, ProcInv, SparesRecorded
  <2>2. UNCHANGED record /\ files' = [files EXCEPT ![k] = None]
    BY <1>5 DEF RemoveRev
  <2>3. \A m \in Revs : m \in Nat
    BY DEF Revs
  <2>4. \A m \in Revs : m < n => files'[m] = files[m]
    BY <1>0, <2>1, <2>2, <2>3
  <2> QED
    BY <1>1, <2>2, <2>4
<1>6. ASSUME UNCHANGED <<record, files>>
      PROVE  UNCHANGED Log!logVars
  BY <1>1, <1>6
<1>7. ASSUME NEW p \in Procs, Start(p) \/ Step(p) \/ Crash(p)
      PROVE  [Log!LogNext]_(Log!logVars)
  <2>1. CASE \/ Load(p) \/ ReadCurrent(p) \/ Compare(p) \/ WriteCurrent(p) \/ AppendLog(p)
             \/ ListOrphans(p) \/ RepairEnds(p) \/ Crash(p)
    BY <1>6, <2>1 DEF Load, ReadCurrent, Compare, WriteCurrent, AppendLog, ListOrphans,
       RepairEnds, Crash, disk
  <2>2. CASE Start(p)
    BY <1>6, <2>2 DEF Start, StartRepair, StartSnapshot, StartModify, StartSetGroup, StartCreate,
       Begin, disk
  <2> QED
    BY <1>2, <1>3, <1>4, <1>5, <1>7, <2>1, <2>2 DEF Step
<1>8. ASSUME NEW c \in Contents, UserEdits(c)
      PROVE  UNCHANGED Log!logVars
  BY <1>6, <1>8 DEF UserEdits
<1>9. CASE UNCHANGED vars
  BY <1>6, <1>9 DEF vars, disk
<1> QED
  BY <1>7, <1>8, <1>9 DEF Next

-----------------------------------------------------------------------------
(* The theorems.                                                           *)

\* Every variable of the model keeps its type, whatever the processes do.
THEOREM Typing == Spec => []TypeOK
<1>1. Init => TypeOK /\ JobsFit
  BY InitTyped
<1>2. (TypeOK /\ JobsFit) /\ [Next]_vars => (TypeOK /\ JobsFit)'
  BY NextTyped
<1> QED
  BY <1>1, <1>2, PTL DEF Spec

\* No revision the record names ever lacks its file, for any number of
\* writers dying anywhere, as long as repair runs when nothing else does
\* (the condition repair_orphans states) and so does a group change.
THEOREM RevisionsExist == ASSUME QuietCommands PROVE Spec => []CommittedRevsExist
<1>1. Init => IInv
  BY InitIInv
<1>2. IInv /\ [Next]_vars => IInv'
  BY NextIInv
<1>3. IInv => CommittedRevsExist
  <2> SUFFICES ASSUME IInv, NEW m \in Recorded(record) PROVE m \in OnDisk
    BY DEF CommittedRevsExist
  <2>1. record \in Record /\ Len(record.history) \in Nat /\ HistoryOnDisk
    BY PresentFacts DEF IInv, TypeOK
  <2>2. PICK i \in 1..Len(record.history) : m = record.history[i].rev
    BY <2>1 DEF Recorded, Record
  <2>3. record.history[i] \in Touch
    BY <2>1 DEF Record
  <2>4. m \in Revs /\ m = i - 1
    BY <2>1, <2>2, <2>3 DEF Touch, HistoryOnDisk
  <2> QED
    BY <2>1, <2>4 DEF HistoryOnDisk, OnDisk
<1> QED
  BY <1>1, <1>2, <1>3, PTL DEF Spec

\* Under the same condition the record and its rev files implement an
\* append-only log: no touch is lost, reordered or changed (the exclusive
\* claim of revs/<n> is the only lock, artifact_store.py).
THEOREM ArtifactImplementsLog == ASSUME QuietCommands PROVE Spec => ImplementsLog
<1>1. Init => IInv
  BY InitIInv
<1>2. IInv /\ [Next]_vars => IInv'
  BY NextIInv
<1>3. Init => Log!LogInit
  BY InitMaps
<1>4. IInv /\ IInv' /\ [Next]_vars => [Log!LogNext]_(Log!logVars)
  BY StepMaps
<1> QED
  BY <1>1, <1>2, <1>3, <1>4, PTL DEF Spec, ImplementsLog, Log!LogSpec

-----------------------------------------------------------------------------
(* What doctor finds while no process has died.                            *)

\* The working copy is written before the first commit and never removed.
CurrentKept == Present(record) \/ (\E p \in Procs : pc[p] = "save") => current # None

\* Debris has an owner: the slot past the record is being written, the line that is
\* missing is about to be appended, the first working copy waits for its record.
DebrisOwned ==
    /\ \A m \in OnDisk : m >= Len(record.history) => \E p \in Procs : Writing(p)
    /\ \A m \in Revs : m < Len(record.history) =>
          m \in log \/ \E p \in Procs : pc[p] = "log" /\ LatestRev(copy[p]) = m
    /\ current # None => Present(record) \/ \E p \in Procs : pc[p] = "save"

DebrisInv == CurrentKept /\ (crashes = MaxCrashes => DebrisOwned)

\* A step of a process that owned no debris, and that leaves the files alone.
LEMMA DebrisQuiet ==
    ASSUME IInv, DebrisInv, NEW p \in Procs, OwnMove(p),
           pc[p] \notin {"writeCurrent", "save", "log"}, pc'[p] # "save",
           record'.history = record.history, UNCHANGED <<current, log, crashes>>,
           \A m \in Revs : files'[m] # None => files[m] # None
    PROVE  DebrisInv'
<1>1. \A q \in Procs \ {p} : pc'[q] = pc[q] /\ copy'[q] = copy[q]
  BY TypeParts, OwnMoveFacts DEF IInv
<1>2. (Present(record) <=> Present(record')) /\ Len(record'.history) = Len(record.history)
  BY DEF Present
<1>3. CurrentKept'
  BY <1>1, <1>2 DEF DebrisInv, CurrentKept
<1>4. ASSUME DebrisOwned PROVE DebrisOwned'
  <2>1. ASSUME NEW m \in OnDisk', m >= Len(record'.history)
        PROVE  (\E q \in Procs : Writing(q))'
    <3>1. m \in OnDisk /\ m >= Len(record.history)
      BY <1>2, <2>1 DEF OnDisk
    <3>2. PICK q \in Procs : Writing(q)
      BY <1>4, <3>1 DEF DebrisOwned
    <3>3. q \in Procs \ {p}
      BY <3>2 DEF Writing
    <3> QED
      BY <1>1, <3>2, <3>3 DEF Writing
  <2>2. ASSUME NEW m \in Revs, m < Len(record'.history), m \notin log
        PROVE  \E q \in Procs : pc'[q] = "log" /\ LatestRev(copy'[q]) = m
    <3>1. PICK q \in Procs : pc[q] = "log" /\ LatestRev(copy[q]) = m
      BY <1>2, <1>4, <2>2 DEF DebrisOwned
    <3> QED
      BY <1>1, <3>1
  <2>3. current # None => Present(record') \/ \E q \in Procs : pc'[q] = "save"
    <3>1. ASSUME NEW q \in Procs, pc[q] = "save" PROVE pc'[q] = "save"
      BY <1>1, <3>1
    <3> QED
      BY <1>2, <1>4, <3>1 DEF DebrisOwned
  <2> QED
    BY <2>1, <2>2, <2>3 DEF DebrisOwned
<1> QED
  BY <1>3, <1>4 DEF DebrisInv

LEMMA ClaimDebris ==
    ASSUME IInv, DebrisInv, NEW p \in Procs, Claim(p), ~Finish(p), OwnMove(p)
    PROVE  DebrisInv'
<1>0. LocalType
  BY TypeParts DEF IInv
<1>1. /\ pc[p] = "claim" /\ Goto(p, "writeCurrent")
      /\ UNCHANGED <<record, current, log, copy, crashes>>
  BY DEF Claim
<1>2. pc'[p] = "writeCurrent" /\ \A q \in Procs \ {p} : pc'[q] = pc[q]
  BY <1>0, <1>1 DEF Goto, LocalType
<1>3. CurrentKept'
  BY <1>1, <1>2 DEF DebrisInv, CurrentKept, Present
<1>4. ASSUME DebrisOwned PROVE DebrisOwned'
  <2>1. Writing(p)'
    BY <1>2 DEF Writing
  <2>2. ASSUME NEW m \in Revs, m < Len(record.history), m \notin log
        PROVE  \E q \in Procs : pc'[q] = "log" /\ LatestRev(copy[q]) = m
    BY <1>1, <1>2, <1>4, <2>2 DEF DebrisOwned
  <2>3. current # None => Present(record) \/ \E q \in Procs : pc'[q] = "save"
    <3>1. ASSUME NEW q \in Procs, pc[q] = "save" PROVE pc'[q] = "save"
      BY <1>1, <1>2, <3>1
    <3> QED
      BY <1>4, <3>1 DEF DebrisOwned
  <2> QED
    BY <1>1, <2>1, <2>2, <2>3 DEF DebrisOwned, Present, LatestRev
<1> QED
  BY <1>1, <1>3, <1>4 DEF DebrisInv

LEMMA WriteCurrentDebris ==
    ASSUME IInv, DebrisInv, NEW p \in Procs, WriteCurrent(p)
    PROVE  DebrisInv'
<1>0. LocalType /\ JobFits(p)
  BY TypeParts DEF IInv, JobsFit
<1>1. /\ pc[p] = "writeCurrent" /\ Goto(p, "save") /\ current' = job[p].content
      /\ UNCHANGED <<record, files, log, copy, crashes>>
  BY DEF WriteCurrent
<1>2. pc'[p] = "save" /\ \A q \in Procs \ {p} : pc'[q] = pc[q]
  BY <1>0, <1>1 DEF Goto, LocalType
<1>3. current' # None
  BY <1>0, <1>1, ArtifactAssumption DEF JobFits
<1>4. ASSUME DebrisOwned PROVE DebrisOwned'
  <2>1. Writing(p)'
    BY <1>2 DEF Writing
  <2>2. ASSUME NEW m \in Revs, m < Len(record.history), m \notin log
        PROVE  \E q \in Procs : pc'[q] = "log" /\ LatestRev(copy[q]) = m
    BY <1>1, <1>2, <1>4, <2>2 DEF DebrisOwned
  <2> QED
    BY <1>1, <1>2, <2>1, <2>2 DEF DebrisOwned, LatestRev
<1> QED
  BY <1>1, <1>3, <1>4 DEF DebrisInv, CurrentKept

LEMMA SaveDebris ==
    ASSUME IInv, DebrisInv, NEW p \in Procs, Save(p)
    PROVE  DebrisInv'
<1> DEFINE h == record.history
<1>0. /\ TypeOK /\ LocalType /\ JobFits(p) /\ CopyTrails(p) /\ HoldsSlot(p) /\ HistoryOnDisk
  BY TypeParts DEF IInv, JobsFit, ProcInv
<1>1. /\ pc[p] = "save" /\ record' = Touched(copy[p], job[p].by)
      /\ copy' = [copy EXCEPT ![p] = Touched(copy[p], job[p].by)]
      /\ Goto(p, "log") /\ UNCHANGED <<files, current, log, crashes>>
  BY DEF Save
<1>2. /\ copy[p] \in Record /\ job[p].by \in Authors
      /\ NextRev(copy[p]) \in Revs /\ copy[p].history = h
  BY <1>0, <1>1 DEF TypeOK, JobFits, HoldsSlot, Writing
<1>3. /\ Len(h) \in Nat /\ NextRev(copy[p]) = Len(h)
  BY <1>0, <1>2, RevsCount
<1>4. /\ record'.history = Append(h, [by |-> job[p].by, rev |-> NextRev(copy[p])])
      /\ Present(record') /\ record' \in Record
  BY <1>1, <1>2, TouchedFacts
<1>5. /\ Len(record'.history) = Len(h) + 1
      /\ LatestRev(record') = Len(h)
  <2>1. h \in Seq(Touch)
    BY <1>2 DEF Record
  <2> QED
    BY <1>3, <1>4, <2>1 DEF LatestRev
<1>6. /\ pc'[p] = "log" /\ LatestRev(copy'[p]) = Len(h)
      /\ \A q \in Procs \ {p} : pc'[q] = pc[q] /\ copy'[q] = copy[q]
  BY <1>0, <1>1, <1>5 DEF Goto, LocalType
<1>7. CurrentKept'
  BY <1>1 DEF DebrisInv, CurrentKept
<1>8. ASSUME DebrisOwned PROVE DebrisOwned'
  <2>1. ASSUME NEW m \in OnDisk' PROVE ~(m >= Len(record'.history))
    <3>1. m \in Revs /\ files[m] # None /\ m \in Nat
      BY <1>1, <2>1 DEF OnDisk, Revs
    <3> QED
      BY <1>0, <1>3, <1>5, <3>1 DEF HistoryOnDisk
  <2>2. ASSUME NEW m \in Revs, m < Len(record'.history), m \notin log
        PROVE  \E q \in Procs : pc'[q] = "log" /\ LatestRev(copy'[q]) = m
    <3>1. CASE m = Len(h)
      BY <1>6, <3>1
    <3>2. CASE m # Len(h)
      <4>1. m < Len(h)
        BY <1>3, <1>5, <2>2, <3>2 DEF Revs
      <4>2. PICK q \in Procs : pc[q] = "log" /\ LatestRev(copy[q]) = m
        BY <1>8, <2>2, <4>1 DEF DebrisOwned
      <4> QED
        BY <1>1, <1>6, <4>2
    <3> QED
      BY <3>1, <3>2
  <2> QED
    BY <1>1, <1>4, <2>1, <2>2 DEF DebrisOwned
<1> QED
  BY <1>1, <1>7, <1>8 DEF DebrisInv

LEMMA AppendLogDebris ==
    ASSUME IInv, DebrisInv, NEW p \in Procs, AppendLog(p)
    PROVE  DebrisInv'
<1>0. LocalType
  BY TypeParts DEF IInv
<1>1. /\ pc[p] = "log" /\ log' = log \cup {LatestRev(copy[p])} /\ Finish(p)
      /\ UNCHANGED <<record, files, current, crashes>>
  BY DEF AppendLog, LoggedRev
<1>2. pc'[p] = "idle" /\ \A q \in Procs \ {p} : pc'[q] = pc[q] /\ copy'[q] = copy[q]
  BY <1>0, <1>1, FinishOwn, OwnMoveFacts
<1>3. \A q \in Procs : pc'[q] = "save" <=> pc[q] = "save"
  BY <1>1, <1>2
<1>4. CurrentKept'
  BY <1>1, <1>3 DEF DebrisInv, CurrentKept, Present
<1>5. ASSUME DebrisOwned PROVE DebrisOwned'
  <2>1. ASSUME NEW m \in OnDisk', m >= Len(record.history)
        PROVE  (\E q \in Procs : Writing(q))'
    <3>1. PICK q \in Procs : Writing(q)
      BY <1>1, <1>5, <2>1 DEF DebrisOwned, OnDisk
    <3> QED
      BY <1>1, <1>2, <3>1 DEF Writing
  <2>2. ASSUME NEW m \in Revs, m < Len(record.history), m \notin log'
        PROVE  \E q \in Procs : pc'[q] = "log" /\ LatestRev(copy'[q]) = m
    <3>1. PICK q \in Procs : pc[q] = "log" /\ LatestRev(copy[q]) = m
      BY <1>1, <1>5, <2>2 DEF DebrisOwned
    <3> QED
      BY <1>1, <1>2, <2>2, <3>1
  <2>3. current # None => Present(record) \/ \E q \in Procs : pc'[q] = "save"
    BY <1>3, <1>5 DEF DebrisOwned
  <2> QED
    BY <1>1, <2>1, <2>2, <2>3 DEF DebrisOwned, Present
<1> QED
  BY <1>1, <1>4, <1>5 DEF DebrisInv

LEMMA StepDebris ==
    ASSUME IInv, DebrisInv, NEW p \in Procs, Step(p)
    PROVE  DebrisInv'
<1>0. TypeOK /\ LocalType /\ JobFits(p) /\ CopyTrails(p) /\ record \in Record
  BY TypeParts DEF IInv, JobsFit, ProcInv, TypeOK
<1>1. OwnMove(p)
  BY <1>0, StepLawful DEF Lawful
<1>2. Finish(p) => pc'[p] = "idle"
  BY <1>0, FinishOwn
<1>3. ASSUME NEW l \in Steps, Goto(p, l) PROVE pc'[p] = l
  BY <1>0, <1>3 DEF Goto, LocalType
<1>4. CASE Load(p) \/ ReadCurrent(p) \/ Compare(p) \/ ListOrphans(p) \/ RepairEnds(p)
  <2>1. /\ UNCHANGED <<record, files, current, log, crashes>>
        /\ pc[p] \notin {"writeCurrent", "save", "log"}
    BY <1>4 DEF Load, ReadCurrent, Compare, ListOrphans, RepairEnds, disk
  <2>2. Finish(p) \/ \E l \in Steps \ {"save"} : Goto(p, l)
    BY <1>4 DEF Load, ReadCurrent, Compare, ListOrphans, RepairEnds, AfterLoad, Steps
  <2>3. pc'[p] # "save"
    BY <1>2, <1>3, <2>2
  <2> QED
    BY <1>1, <2>1, <2>3, DebrisQuiet
<1>5. CASE Claim(p) /\ Finish(p)
  <2>1. ~Goto(p, "writeCurrent")
    BY <1>2, <1>3, <1>5 DEF Steps
  <2>2. UNCHANGED <<record, files, current, log, crashes>> /\ pc[p] = "claim"
    BY <1>5, <2>1 DEF Claim
  <2> QED
    BY <1>1, <1>2, <1>5, <2>2, DebrisQuiet
<1>6. CASE Claim(p) /\ ~Finish(p)
  BY <1>1, <1>6, ClaimDebris
<1>7. CASE SaveGroup(p)
  <2>1. record'.history = record.history
    <3>1. copy[p] = record /\ record' = [copy[p] EXCEPT !.group = job[p].group]
      BY <1>0, <1>7 DEF SaveGroup, CopyTrails
    <3> QED
      BY <1>0, <3>1 DEF Record
  <2> QED
    BY <1>1, <1>2, <1>7, <2>1, DebrisQuiet DEF SaveGroup
<1>8. ASSUME NEW n \in Revs, RemoveRev(p, n)
      PROVE  DebrisInv'
  <2>1. \A m \in Revs : files'[m] # None => files[m] # None
    BY <1>0, <1>8 DEF RemoveRev, TypeOK
  <2> QED
    BY <1>1, <1>8, <2>1, DebrisQuiet DEF RemoveRev
<1> QED
  BY <1>4, <1>5, <1>6, <1>7, <1>8, WriteCurrentDebris, SaveDebris, AppendLogDebris DEF Step

LEMMA NextDebris ==
    ASSUME IInv, DebrisInv, [Next]_vars
    PROVE  DebrisInv'
<1>0. TypeOK /\ LocalType /\ JobsFit
  BY TypeParts DEF IInv
<1>1. ASSUME NEW p \in Procs, Start(p)
      PROVE  DebrisInv'
  <2>1. OwnMove(p) /\ UNCHANGED disk
    BY <1>0, <1>1, StartLawful DEF Lawful, JobsFit
  <2>2. pc[p] = "idle" /\ pc'[p] \in {"claim", "load"} /\ UNCHANGED crashes
    BY <1>0, <1>1 DEF Start, StartRepair, StartSnapshot, StartModify, StartSetGroup,
       StartCreate, Begin, Idle, Goto, LocalType
  <2> QED
    BY <2>1, <2>2, DebrisQuiet DEF disk
<1>2. ASSUME NEW p \in Procs, Crash(p)
      PROVE  DebrisInv'
  <2>1. Finish(p) /\ UNCHANGED disk /\ crashes' = crashes - 1 /\ crashes \in 0..MaxCrashes
    BY <1>0, <1>2 DEF Crash, TypeOK
  <2>2. crashes' # MaxCrashes
    BY <2>1, ArtifactAssumption
  <2>3. pc'[p] = "idle" /\ \A q \in Procs \ {p} : pc'[q] = pc[q]
    BY <1>0, <2>1, FinishOwn, OwnMoveFacts
  <2> QED
    BY <2>1, <2>2, <2>3 DEF DebrisInv, CurrentKept, disk, Present
<1>3. ASSUME NEW c \in Contents, UserEdits(c)
      PROVE  DebrisInv'
  BY <1>3, ArtifactAssumption
     DEF UserEdits, DebrisInv, CurrentKept, DebrisOwned, Present, OnDisk, Writing, LatestRev
<1>4. CASE UNCHANGED vars
  BY <1>4 DEF vars, disk, DebrisInv, CurrentKept, DebrisOwned, Present, OnDisk, Writing,
     LatestRev
<1> QED
  BY <1>1, <1>2, <1>3, <1>4, StepDebris DEF Next

\* Under the same condition `tx artifact doctor` finds nothing once no process runs, if
\* none has died: no orphan rev, no unlogged touch, no content without a record.
THEOREM DoctorFindsNothing == ASSUME QuietCommands PROVE Spec => []DoctorFindsNoDebris
<1>1. Init => IInv /\ DebrisInv
  <2> SUFFICES ASSUME Init PROVE DebrisInv
    BY InitIInv
  <2>1. /\ record = NoRecord /\ OnDisk = {} /\ current = None
        /\ \A p \in Procs : pc[p] = "idle"
    BY DEF Init, OnDisk
  <2>2. ~Present(record) /\ \A m \in Revs : ~(m < Len(record.history))
    <3>1. Len(NoRecord.history) = 0
      BY DEF NoRecord
    <3> QED
      BY <2>1, <3>1, NoRecordType DEF Revs
  <2> QED
    BY <2>1, <2>2 DEF DebrisInv, CurrentKept, DebrisOwned
<1>2. (IInv /\ DebrisInv) /\ [Next]_vars => (IInv /\ DebrisInv)'
  BY NextIInv, NextDebris
<1>3. IInv /\ DebrisInv => DoctorFindsNoDebris
  <2> SUFFICES ASSUME IInv, DebrisInv, \A p \in Procs : Idle(p), crashes = MaxCrashes
               PROVE  /\ Orphans(record) = {}
                      /\ Recorded(record) \subseteq log
                      /\ (current = None) <=> ~Present(record)
    BY DEF DoctorFindsNoDebris
  <2>1. record \in Record /\ Len(record.history) \in Nat /\ HistoryOnDisk /\ DebrisOwned
    BY PresentFacts DEF IInv, TypeOK, DebrisInv
  <2>2. \A m \in Revs : m \in Nat
    BY DEF Revs
  <2>3. \A m \in Revs : m < Len(record.history) => m \in Recorded(record)
    <3> SUFFICES ASSUME NEW m \in Revs, m < Len(record.history) PROVE m \in Recorded(record)
      OBVIOUS
    <3>1. m + 1 \in 1..Len(record.history) /\ (m + 1) - 1 = m
      BY <2>1, <2>2
    <3>2. record.history[m + 1].rev = m /\ m + 1 \in DOMAIN record.history
      BY <2>1, <3>1 DEF HistoryOnDisk, Record
    <3> QED
      BY <3>2 DEF Recorded
  <2>4. \A m \in Recorded(record) : m \in Revs /\ m < Len(record.history)
    <3> SUFFICES ASSUME NEW i \in DOMAIN record.history
                 PROVE  record.history[i].rev \in Revs
                        /\ record.history[i].rev < Len(record.history)
      BY DEF Recorded
    <3>1. i \in 1..Len(record.history) /\ record.history[i] \in Touch
      BY <2>1 DEF Record
    <3>2. record.history[i].rev = i - 1 /\ record.history[i].rev \in Revs
      BY <2>1, <3>1 DEF HistoryOnDisk, Touch
    <3> QED
      BY <2>1, <3>1, <3>2
  <2>5. \A p \in Procs : pc[p] = "idle"
    BY DEF Idle
  <2>6. Orphans(record) = {}
    <3>1. \A m \in OnDisk : m \in Revs /\ m < Len(record.history)
      BY <2>1, <2>2, <2>5 DEF DebrisOwned, Writing, OnDisk
    <3> QED
      BY <2>3, <3>1 DEF Orphans
  <2>7. Recorded(record) \subseteq log
    BY <2>1, <2>4, <2>5 DEF DebrisOwned
  <2>8. (current = None) <=> ~Present(record)
    BY <2>1, <2>5 DEF DebrisOwned, DebrisInv, CurrentKept
  <2> QED
    BY <2>6, <2>7, <2>8
<1> QED
  BY <1>1, <1>2, <1>3, PTL DEF Spec
=============================================================================
