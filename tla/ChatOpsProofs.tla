--------------------------- MODULE ChatOpsProofs ---------------------------
(***************************************************************************)
(* Proofs about ChatOps, for every number of operations and faults.        *)
(***************************************************************************)
EXTENDS ChatOps, FiniteSetTheorems, TLAPS

-----------------------------------------------------------------------------
(* Artifact paths.                                                          *)

LEMMA PathFacts ==
    /\ NoPath \notin Paths
    /\ \A kind \in Kinds : <<kind, None>> \notin Paths /\ <<kind, None>> # NoPath
    /\ \A kind \in Kinds : <<kind, None>> \in SelfPaths
    /\ \A s \in Slugs : <<"handover", s>> \in Paths
    /\ \A n \in 1..Cardinality(Ops) : <<"rollover", n>> \in Paths
<1>1. \A s : <<"none">> # <<"handover", s>> /\ <<"none">> # <<"rollover", s>>
  OBVIOUS
<1>2. Cardinality(Ops) \in Nat
  BY ChatOpsAssumption, FS_CardinalityType
<1>3. \A n \in 1..Cardinality(Ops) : None # n
  BY <1>2, ChatOpsAssumption
<1>4. \A s \in Slugs : None # s
  BY ChatOpsAssumption
<1> QED
  BY <1>1, <1>3, <1>4 DEF NoPath, Paths, SelfPaths, Kinds

\* A path belongs to the operation that wrote its brief.
BriefsOwned == \A p \in Paths : brief[p] # None => path[brief[p]] = p

\* The notes are the briefs of other operations, so that a new operation finds
\* a number for its own.
LEMMA NextNotePath ==
    ASSUME TypeOK, BriefsOwned, NEW op \in Ops, ~Started(op)
    PROVE  <<"rollover", NextNote>> \in Paths
<1> DEFINE Notes == {p \in DOMAIN brief : p[1] = "rollover" /\ brief[p] # None}
           owner == [p \in Notes |-> brief[p]]
<1>1. DOMAIN brief = Paths /\ \A p \in Paths : brief[p] \in Ops \cup {None}
  BY DEF TypeOK
<1>2. \A p \in Notes : brief[p] \in Ops /\ path[brief[p]] = p /\ p \in Paths
  BY <1>1 DEF BriefsOwned
<1>3. \A p \in Notes : brief[p] # op
  BY <1>2, PathFacts DEF Started
<1>4. owner \in Injection(Notes, Ops \ {op})
  <2>1. owner \in [Notes -> Ops \ {op}]
    BY <1>2, <1>3
  <2>2. \A p, q \in Notes : owner[p] = owner[q] => p = q
    BY <1>2
  <2> QED
    BY <2>1, <2>2 DEF Injection, IsInjective
<1>5. /\ IsFiniteSet(Ops) /\ IsFiniteSet(Ops \ {op}) /\ Cardinality(Ops) \in Nat
      /\ Cardinality(Ops \ {op}) = Cardinality(Ops) - 1
  BY ChatOpsAssumption, FS_RemoveElement, FS_CardinalityType
<1>6. IsFiniteSet(Notes) /\ Cardinality(Notes) <= Cardinality(Ops) - 1
  <2> HIDE DEF Notes, owner
  <2> QED
    BY <1>4, <1>5, FS_Injection
<1>7. Cardinality(Notes) \in Nat
  BY <1>6, FS_CardinalityType
<1>8. Cardinality(Notes) + 1 \in 1..Cardinality(Ops)
  BY <1>5, <1>6, <1>7
<1>9. NextNote = Cardinality(Notes) + 1
  BY DEF NextNote, RolloverNotes
<1> QED
  BY <1>8, <1>9, PathFacts

LEMMA ArtifactPathType ==
    ASSUME TypeOK, BriefsOwned, NEW op \in Ops, ~Started(op),
           NEW kind \in Kinds, NEW s \in Slugs
    PROVE  ArtifactPath(kind, s) \in Paths
  BY NextNotePath, PathFacts DEF ArtifactPath

-----------------------------------------------------------------------------
(* Type correctness.                                                        *)

LEMMA GotoType ==
    ASSUME TypeOK, NEW op \in Ops, NEW r \in Roles, NEW step \in Steps, Goto(op, r, step)
    PROVE  /\ pc' \in [Ops -> [Roles -> Steps]]
           /\ pc'[op][r] = step
           /\ \A q \in Roles \ {r} : pc'[op][q] = pc[op][q]
           /\ \A o \in Ops \ {op} : pc'[o] = pc[o]
<1>1. pc \in [Ops -> [Roles -> Steps]]
  BY DEF TypeOK
<1>2. pc' = [pc EXCEPT ![op] = [pc[op] EXCEPT ![r] = step]]
  BY DEF Goto
<1>3. [pc[op] EXCEPT ![r] = step] \in [Roles -> Steps]
  BY <1>1
<1> QED
  BY <1>1, <1>2, <1>3

LEMMA DistillerEndsType ==
    ASSUME TypeOK, NEW op \in Ops, NEW step \in Steps, DistillerEnds(op, step)
    PROVE  /\ pc' \in [Ops -> [Roles -> Steps]]
           /\ distiller' \in [Ops -> {"none", "working", "written", "dead"}]
           /\ distiller'[op] = "dead"
           /\ pc'[op]["watch"] = step
           /\ pc'[op]["start"] = pc[op]["start"]
           /\ ~ToolsSurvive => pc'[op]["tool"] = "idle"
           /\ \A o \in Ops \ {op} : pc'[o] = pc[o] /\ distiller'[o] = distiller[o]
<1>1. pc \in [Ops -> [Roles -> Steps]] /\ distiller \in [Ops -> {"none", "working", "written", "dead"}]
  BY DEF TypeOK
<1>2. "idle" \in Steps /\ {"start", "tool", "watch"} = Roles
  BY DEF Steps, Roles
<1>3. PICK tool \in {"idle"} \cup (IF ToolsSurvive THEN {pc[op]["tool"]} ELSE {}) :
          pc' = [pc EXCEPT ![op] = [@ EXCEPT !.tool = tool, !.watch = step]]
  BY DEF DistillerEnds
<1>4. tool \in Steps /\ (~ToolsSurvive => tool = "idle")
  BY <1>1, <1>2, <1>3
<1>5. distiller' = [distiller EXCEPT ![op] = "dead"]
  BY DEF DistillerEnds
<1> DEFINE ended == [pc[op] EXCEPT !.tool = tool, !.watch = step]
<1>6. /\ ended \in [Roles -> Steps] /\ ended["tool"] = tool /\ ended["watch"] = step
      /\ ended["start"] = pc[op]["start"]
  BY <1>1, <1>2, <1>4
<1>7. pc' = [pc EXCEPT ![op] = ended]
  BY <1>3
<1> HIDE DEF ended
<1> QED
  BY <1>1, <1>4, <1>5, <1>6, <1>7

LEMMA StepFacts ==
    /\ \A r \in Roles : Returned(r) \in Steps
    /\ {"idle", "distill", "detach", "load", "check", "claim", "source", "launch", "link",
         "done", "poll", "grace", "ensure", "await", "kill", "list", "remove"} = Steps
    /\ Roles = {"start", "tool", "watch"}
  BY DEF Returned, Steps, FinishSteps, Roles

\* Distillers belong to operations that have one; the same strengthening gives
\* the brief of an operation its path.
DistillersFit == \A op \in Ops : distiller[op] # "none" => Distilled(op)

\* A distiller is spawned for an operation with a path, and watched.
StartsFit ==
    \A op \in Ops :
        /\ pc[op]["start"] \in {"distill", "detach"} => Distilled(op) /\ pc[op]["watch"] = "idle"
        /\ Distilled(op) => pc[op]["start"] \in {"distill", "detach", "idle"}
        /\ ~Distilled(op) => pc[op]["tool"] = "idle" /\ pc[op]["watch"] = "idle"
        /\ ~Started(op) => pc[op]["start"] = "idle"

TInv == TypeOK /\ BriefsOwned /\ DistillersFit /\ StartsFit

LEMMA TInvInit == Init => TInv
<1> SUFFICES ASSUME Init PROVE TInv
  OBVIOUS
<1>1. NoPath \notin Paths
  BY PathFacts
<1>3. TypeOK
  BY StepFacts, ChatOpsAssumption DEF Init, TypeOK
<1>4. BriefsOwned /\ DistillersFit /\ StartsFit
  BY <1>1, StepFacts DEF Init, BriefsOwned, DistillersFit, StartsFit, Distilled, Started
<1> QED
  BY <1>3, <1>4 DEF TInv

\* A step that starts no operation and touches at most the pc of one process,
\* not at the start of a distiller, keeps the roles apart.
LEMMA FitsKept ==
    ASSUME TInv, NEW op \in Ops, NEW r \in Roles, NEW step \in Steps, Goto(op, r, step),
           pc[op][r] # "idle",
           step \notin {"distill", "detach"},
           r = "start" /\ Distilled(op) => step = "idle",
           UNCHANGED <<path, distiller, brief>>
    PROVE  BriefsOwned' /\ DistillersFit' /\ StartsFit'
<1>1. BriefsOwned' /\ DistillersFit'
  BY DEF TInv, BriefsOwned, DistillersFit, Distilled
<1>2. ASSUME NEW o \in Ops, o # op
      PROVE  pc'[o] = pc[o]
  BY <1>2, GotoType DEF TInv
<1>3. /\ pc'[op][r] = step /\ \A q \in Roles \ {r} : pc'[op][q] = pc[op][q]
  BY GotoType DEF TInv
<1>4. StartsFit'
  BY <1>2, <1>3, StepFacts DEF TInv, StartsFit, Distilled, Started
<1> QED
  BY <1>1, <1>4

\* A step of a finish, whoever runs it.
LEMMA FinishStep ==
    ASSUME NEW op \in Ops, NEW r \in Roles, Finish(op, r)
    PROVE  /\ pc[op][r] \in FinishSteps
           /\ \E step \in Steps :
                 Goto(op, r, step) /\ step \notin {"distill", "detach"}
           /\ \/ UNCHANGED entries
              \/ entries' = [entries EXCEPT ![op] = @ \cup {"claim"}]
              \/ entries' = [entries EXCEPT ![op] = @ \cup {"done"}]
           /\ UNCHANGED <<path, distiller, brief, expired, source, doomed, faults>>
<1> USE StepFacts
<1>1. CASE LoadSpec(op, r)
  BY <1>1 DEF LoadSpec, FinishSteps, disk
<1>2. CASE CheckDone(op, r)
  BY <1>2 DEF CheckDone, FinishSteps, disk, Returned
<1>3. CASE Claim(op, r)
  BY <1>3 DEF Claim, FinishSteps, Returned
<1>4. CASE LoadSource(op, r)
  BY <1>4 DEF LoadSource, FinishSteps, disk
<1>5. CASE Launch(op, r)
  BY <1>5 DEF Launch, FinishSteps
<1>6. CASE Link(op, r)
  BY <1>6 DEF Link, FinishSteps
<1>7. CASE WriteDone(op, r)
  BY <1>7 DEF WriteDone, FinishSteps, Returned
<1> QED
  BY <1>1, <1>2, <1>3, <1>4, <1>5, <1>6, <1>7 DEF Finish

LEMMA FinishKeepsTInv ==
    ASSUME TInv, NEW op \in Ops, NEW r \in Roles, Finish(op, r)
    PROVE  TInv'
<1> USE StepFacts
<1>0. TypeOK
  BY DEF TInv
<1>1. r = "start" => ~Distilled(op)
  BY FinishStep DEF TInv, StartsFit, FinishSteps
<1>3. PICK step \in Steps : Goto(op, r, step) /\ step \notin {"distill", "detach"}
  BY FinishStep
<1>2. pc[op][r] # "idle"
  BY FinishStep DEF FinishSteps
<1>4. UNCHANGED <<path, distiller, brief, expired, source, doomed, faults>>
  BY FinishStep
<1>5. BriefsOwned' /\ DistillersFit' /\ StartsFit'
  BY <1>1, <1>2, <1>3, <1>4, FitsKept
<1>6. pc' \in [Ops -> [Roles -> Steps]]
  BY <1>0, <1>3, GotoType
<1>7. entries' \in [Ops -> SUBSET Entries]
  BY <1>0, FinishStep DEF TypeOK, Entries
<1>8. launched' \in [Ops -> Nat]
  BY <1>0 DEF Finish, LoadSpec, CheckDone, Claim, LoadSource, Launch, Link, WriteDone, disk, TypeOK
<1>9. linked' \in [Ops -> BOOLEAN]
  BY <1>0 DEF Finish, LoadSpec, CheckDone, Claim, LoadSource, Launch, Link, WriteDone, disk, TypeOK
<1>10. TypeOK'
  BY <1>0, <1>4, <1>6, <1>7, <1>8, <1>9 DEF TypeOK
<1> QED
  BY <1>5, <1>10 DEF TInv

\* Steps of the watchdog that only move it on.
LEMMA MovesKeepTInv ==
    ASSUME TInv, NEW op \in Ops, NEW r \in Roles, NEW step \in Steps, Goto(op, r, step),
           pc[op][r] # "idle",
           step \notin {"distill", "detach"},
           r = "start" /\ Distilled(op) => step = "idle",
           UNCHANGED <<path, distiller, brief, entries, launched, linked, expired, source>>,
           doomed' \in [Ops -> SUBSET (Entries \ {"dir"})],
           faults' \in 0..MaxFaults
    PROVE  TInv'
<1>1. BriefsOwned' /\ DistillersFit' /\ StartsFit'
  BY FitsKept
<1>2. TypeOK'
  BY GotoType DEF TInv, TypeOK
<1> QED
  BY <1>1, <1>2 DEF TInv

LEMMA StartKeepsTInv ==
    ASSUME TInv, NEW op \in Ops, Start(op)
    PROVE  TInv'
<1> USE StepFacts
<1>1. PICK kind \in Kinds, s \in Slugs, selfCatchUp \in BOOLEAN : StartOp(op, kind, s, selfCatchUp)
  BY DEF Start
<1> DEFINE p == IF selfCatchUp THEN <<kind, None>> ELSE ArtifactPath(kind, s)
           step == IF selfCatchUp THEN "load" ELSE "distill"
<1>2. /\ ~Started(op)
      /\ path' = [path EXCEPT ![op] = p]
      /\ entries' = [entries EXCEPT ![op] = {"dir", "spec"}]
      /\ Goto(op, "start", step)
      /\ UNCHANGED <<brief, launched, linked, distiller, expired, source, doomed, faults>>
  BY <1>1 DEF StartOp
<1>3. /\ p # NoPath
      /\ p \in Paths \cup SelfPaths
      /\ selfCatchUp <=> p \notin Paths
  BY <1>2, ArtifactPathType, PathFacts DEF TInv
<1>4. step \in Steps /\ (step = "distill" <=> p \in Paths) /\ step \in {"load", "distill"}
  BY <1>3
<1> HIDE DEF p, step
<1>5. /\ path' \in [Ops -> Paths \cup SelfPaths \cup {NoPath}] /\ path'[op] = p
      /\ \A o \in Ops \ {op} : path'[o] = path[o]
  BY <1>2, <1>3 DEF TInv, TypeOK
<1>6. /\ pc' \in [Ops -> [Roles -> Steps]]
      /\ pc'[op]["start"] = step
      /\ \A q \in Roles \ {"start"} : pc'[op][q] = pc[op][q]
      /\ \A o \in Ops \ {op} : pc'[o] = pc[o]
  BY <1>2, <1>4, GotoType DEF TInv
<1>7. TypeOK'
  BY <1>2, <1>5, <1>6 DEF TInv, TypeOK, Entries
<1>8. ~Distilled(op) /\ path[op] = NoPath
  BY <1>2, PathFacts DEF Started, Distilled
<1>9. BriefsOwned'
  BY <1>2, <1>5, <1>8, PathFacts DEF TInv, TypeOK, BriefsOwned
<1>10. DistillersFit'
  BY <1>2, <1>5, <1>8 DEF TInv, DistillersFit, Distilled
<1>11. StartsFit'
  BY <1>3, <1>4, <1>5, <1>6, <1>8 DEF TInv, StartsFit, Distilled, Started
<1> QED
  BY <1>7, <1>9, <1>10, <1>11 DEF TInv

\* When a distiller ends, its operation has left the start behind or is still
\* at it; nothing else about the roles changes.
LEMMA EndsKeepTInv ==
    ASSUME TInv, NEW op \in Ops, NEW step \in Steps, DistillerEnds(op, step), Distilled(op),
           pc[op]["watch"] = "idle" => step = "idle",
           UNCHANGED <<path, brief, entries, launched, linked, expired, source, doomed, faults>>
    PROVE  TInv'
<1> USE StepFacts
<1>1. /\ pc' \in [Ops -> [Roles -> Steps]]
      /\ distiller' \in [Ops -> {"none", "working", "written", "dead"}]
      /\ pc'[op]["watch"] = step
      /\ pc'[op]["start"] = pc[op]["start"]
      /\ \A o \in Ops \ {op} : pc'[o] = pc[o] /\ distiller'[o] = distiller[o]
  BY DistillerEndsType DEF TInv
<1>2. TypeOK'
  BY <1>1 DEF TInv, TypeOK
<1>3. BriefsOwned' /\ DistillersFit'
  BY <1>1 DEF TInv, BriefsOwned, DistillersFit, Distilled
<1>4. StartsFit'
  BY <1>1 DEF TInv, StartsFit, Distilled, Started
<1> QED
  BY <1>2, <1>3, <1>4 DEF TInv

LEMMA WatchKeepsTInv ==
    ASSUME TInv, NEW op \in Ops, Watch(op)
    PROVE  TInv'
<1> USE StepFacts
<1>1. doomed \in [Ops -> SUBSET (Entries \ {"dir"})] /\ faults \in 0..MaxFaults
  BY DEF TInv, TypeOK
<1>2. CASE PollEnds(op)
  BY <1>1, <1>2, MovesKeepTInv DEF PollEnds, disk
<1>3. CASE GraceEnds(op)
  BY <1>1, <1>3, MovesKeepTInv DEF GraceEnds, disk
<1>4. CASE Ensure(op)
  <2>1. PICK step \in {"load", "await"} : Goto(op, "watch", step)
    BY <1>4 DEF Ensure
  <2> QED
    BY <1>1, <1>4, <2>1, MovesKeepTInv DEF Ensure, disk
<1>5. CASE AwaitEnds(op)
  BY <1>1, <1>5, MovesKeepTInv DEF AwaitEnds, disk
<1>6. CASE KillDistiller(op)
  <2>1. pc[op]["watch"] = "kill" /\ Distilled(op)
    BY <1>6 DEF KillDistiller, TInv, StartsFit
  <2> QED
    BY <1>6, <2>1, EndsKeepTInv DEF KillDistiller, disk
<1> QED
  BY <1>2, <1>3, <1>4, <1>5, <1>6 DEF Watch

LEMMA CleanupKeepsTInv ==
    ASSUME TInv, NEW op \in Ops, NEW r \in Roles, Cleanup(op, r)
    PROVE  TInv'
<1> USE StepFacts
<1>1. TypeOK
  BY DEF TInv
<1>2. r = "start" => ~Distilled(op)
  <2>1. pc[op][r] \in {"list", "remove"}
    BY DEF Cleanup, ListDir, RemoveDir, RemoveEntry
  <2> QED
    BY <2>1 DEF TInv, StartsFit
<1>3. CASE ListDir(op, r)
  <2>1. doomed' \in [Ops -> SUBSET (Entries \ {"dir"})] /\ faults' \in 0..MaxFaults
    BY <1>1, <1>3 DEF ListDir, TypeOK
  <2> QED
    BY <1>2, <1>3, <2>1, MovesKeepTInv DEF ListDir, disk
<1>4. CASE RemoveDir(op, r)
  <2>1. BriefsOwned' /\ DistillersFit' /\ StartsFit'
    BY <1>2, <1>4, FitsKept DEF RemoveDir
  <2>2. pc' \in [Ops -> [Roles -> Steps]]
    BY <1>1, <1>4, GotoType DEF RemoveDir
  <2>3. TypeOK'
    BY <1>1, <1>4, <2>2 DEF RemoveDir, TypeOK
  <2> QED
    BY <2>1, <2>3 DEF TInv
<1>5. ASSUME NEW e \in Entries, RemoveEntry(op, r, e)
      PROVE  TInv'
  <2>1. TypeOK'
    BY <1>1, <1>5 DEF RemoveEntry, TypeOK
  <2>2. UNCHANGED <<path, distiller, brief, pc>>
    BY <1>5 DEF RemoveEntry
  <2> QED
    BY <2>1, <2>2 DEF TInv, BriefsOwned, DistillersFit, StartsFit, Distilled, Started
<1> QED
  BY <1>3, <1>4, <1>5 DEF Cleanup

LEMMA SpawnKeepsTInv ==
    ASSUME TInv, NEW op \in Ops, SpawnDistiller(op) \/ DetachWatch(op)
    PROVE  TInv'
<1> USE StepFacts
<1>1. TypeOK
  BY DEF TInv
<1>2. Distilled(op) /\ pc[op]["watch"] = "idle"
  BY DEF SpawnDistiller, DetachWatch, TInv, StartsFit
<1>3. CASE SpawnDistiller(op)
  <2>1. /\ pc' \in [Ops -> [Roles -> Steps]]
        /\ pc'[op]["start"] = "detach"
        /\ pc'[op]["watch"] = "idle"
        /\ \A o \in Ops \ {op} : pc'[o] = pc[o]
    BY <1>1, <1>2, <1>3, GotoType DEF SpawnDistiller
  <2>2. distiller' = [distiller EXCEPT ![op] = "working"]
    BY <1>3 DEF SpawnDistiller
  <2>3. TypeOK'
    BY <1>1, <1>3, <2>1, <2>2 DEF SpawnDistiller, TypeOK, disk
  <2>4. UNCHANGED <<path, brief>>
    BY <1>3 DEF SpawnDistiller, disk
  <2>5. DistillersFit' /\ BriefsOwned'
    BY <1>1, <1>2, <2>2, <2>4 DEF TInv, TypeOK, DistillersFit, BriefsOwned, Distilled
  <2>6. StartsFit'
    BY <1>2, <2>1, <2>4, PathFacts DEF TInv, StartsFit, Distilled, Started
  <2> QED
    BY <2>3, <2>5, <2>6 DEF TInv
<1>4. CASE DetachWatch(op)
  <2> DEFINE watched == [pc[op] EXCEPT !["start"] = "idle", !["watch"] = "poll"]
  <2>1. /\ watched \in [Roles -> Steps]
        /\ watched["start"] = "idle" /\ watched["watch"] = "poll"
        /\ watched["tool"] = pc[op]["tool"]
    BY <1>1 DEF TypeOK
  <2>2. pc' = [pc EXCEPT ![op] = watched]
    BY <1>1, <1>4 DEF DetachWatch, TypeOK
  <2> HIDE DEF watched
  <2>3. TypeOK'
    BY <1>1, <1>4, <2>1, <2>2 DEF DetachWatch, TypeOK, disk
  <2>4. UNCHANGED <<path, brief, distiller>>
    BY <1>4 DEF DetachWatch, disk
  <2>5. StartsFit'
    BY <1>1, <1>2, <2>1, <2>2, <2>4 DEF TInv, TypeOK, StartsFit, Distilled, Started
  <2>6. DistillersFit' /\ BriefsOwned'
    BY <2>4 DEF TInv, DistillersFit, BriefsOwned, Distilled
  <2> QED
    BY <2>3, <2>5, <2>6 DEF TInv
<1> QED
  BY <1>3, <1>4

LEMMA WorldKeepsTInv ==
    ASSUME TInv, NEW op \in Ops, World(op)
    PROVE  TInv'
<1> USE StepFacts
<1>1. TypeOK
  BY DEF TInv
<1>2. Running(op) => Distilled(op)
  BY DEF TInv, DistillersFit, Running
<1>3. CASE WriteBrief(op)
  <2>1. Distilled(op) /\ distiller' = [distiller EXCEPT ![op] = "written"]
        /\ brief' = [brief EXCEPT ![path[op]] = op]
    BY <1>2, <1>3 DEF WriteBrief, Running
  <2>2. TypeOK'
    BY <1>1, <1>3, <2>1 DEF WriteBrief, TypeOK, Distilled
  <2>3. UNCHANGED <<path, pc>>
    BY <1>3 DEF WriteBrief
  <2>4. BriefsOwned'
    BY <1>1, <2>1, <2>3 DEF TInv, TypeOK, BriefsOwned
  <2>5. DistillersFit' /\ StartsFit'
    BY <1>1, <2>1, <2>3 DEF TInv, TypeOK, DistillersFit, StartsFit, Distilled, Started
  <2> QED
    BY <2>2, <2>4, <2>5 DEF TInv
<1>4. CASE StartTool(op)
  <2>1. /\ pc' \in [Ops -> [Roles -> Steps]]
        /\ \A q \in Roles \ {"tool"} : pc'[op][q] = pc[op][q]
        /\ \A o \in Ops \ {op} : pc'[o] = pc[o]
    BY <1>1, <1>4, GotoType DEF StartTool
  <2>2. Distilled(op) /\ UNCHANGED <<path, brief, distiller>>
    BY <1>2, <1>4 DEF StartTool, disk
  <2>3. TypeOK'
    BY <1>1, <1>4, <2>1 DEF StartTool, TypeOK, disk
  <2>4. BriefsOwned' /\ DistillersFit'
    BY <2>2 DEF TInv, BriefsOwned, DistillersFit, Distilled
  <2>5. StartsFit'
    BY <2>1, <2>2 DEF TInv, StartsFit, Distilled, Started
  <2> QED
    BY <2>3, <2>4, <2>5 DEF TInv
<1>5. CASE DistillerDies(op)
  <2>1. Distilled(op) /\ pc[op]["watch"] \in Steps
    BY <1>1, <1>2, <1>5 DEF DistillerDies, TypeOK
  <2> QED
    BY <1>5, <2>1, EndsKeepTInv DEF DistillerDies, disk
<1>6. CASE Expire(op)
  <2>1. TypeOK'
    BY <1>1, <1>6 DEF Expire, TypeOK, disk
  <2> QED
    BY <1>6, <2>1 DEF Expire, disk, TInv, BriefsOwned, DistillersFit, StartsFit, Distilled, Started
<1>7. ASSUME NEW r \in Roles, Crash(op, r)
      PROVE  TInv'
  <2>1. faults' \in 0..MaxFaults
    BY <1>1, <1>7, ChatOpsAssumption DEF Crash, TypeOK
  <2>2. doomed' \in [Ops -> SUBSET (Entries \ {"dir"})]
    BY <1>1, <1>7 DEF Crash, TypeOK
  <2> QED
    BY <1>7, <2>1, <2>2, MovesKeepTInv DEF Crash, disk
<1> QED
  BY <1>3, <1>4, <1>5, <1>6, <1>7 DEF World

LEMMA TInvNext == TInv /\ [Next]_vars => TInv'
<1> SUFFICES ASSUME TInv, [Next]_vars
             PROVE  TInv'
  OBVIOUS
<1>1. ASSUME NEW op \in Ops, Start(op) \/ Step(op) \/ World(op)
      PROVE  TInv'
  BY <1>1, StartKeepsTInv, SpawnKeepsTInv, WatchKeepsTInv, FinishKeepsTInv, CleanupKeepsTInv,
     WorldKeepsTInv DEF Step
<1>2. CASE RemoveSource
  <2>1. faults' \in 0..MaxFaults
    BY <1>2, ChatOpsAssumption DEF RemoveSource, TInv, TypeOK
  <2>2. TypeOK'
    BY <1>2, <2>1 DEF RemoveSource, TInv, TypeOK, disk
  <2> QED
    BY <1>2, <2>2 DEF RemoveSource, disk, TInv, BriefsOwned, DistillersFit, StartsFit, Distilled, Started
<1>3. CASE UNCHANGED vars
  BY <1>3 DEF vars, disk, TInv, TypeOK, BriefsOwned, DistillersFit, StartsFit, Distilled, Started
<1> QED
  BY <1>1, <1>2, <1>3 DEF Next

\* Every variable keeps its type, for every number of operations and faults.
THEOREM Typing == Spec => []TypeOK
<1>1. Spec => []TInv
  BY TInvInit, TInvNext, PTL DEF Spec
<1>2. TInv => TypeOK
  BY DEF TInv
<1> QED
  BY <1>1, <1>2, PTL

-----------------------------------------------------------------------------
(* Single execution.                                                        *)

\* Nobody is left who could claim: the teardown is under way or over.
Closed(op) ==
    /\ Started(op) /\ ~Running(op)
    /\ \A r \in Roles : pc[op][r] \in {"idle", "list", "remove"}

\* The claim stands until it no longer matters.
Claimed(op) == "claim" \in entries[op] \/ Closed(op)

OnceInv(op) ==
    /\ \A r \in Roles : pc[op][r] \in {"list", "remove"} => Closed(op)
    /\ \A r \in Roles : Finishing(op, r) => Claimed(op)
    /\ \A r, q \in Roles : Finishing(op, r) /\ Finishing(op, q) => r = q
    /\ \A r \in Roles : pc[op][r] \in {"source", "launch"} => launched[op] = 0
    /\ launched[op] \in {0, 1}
    /\ launched[op] # 0 => Claimed(op) /\ Started(op)

EInv == TInv /\ \A op \in Ops : OnceInv(op)

LEMMA EInvInit == Init => EInv
<1> SUFFICES ASSUME Init PROVE EInv
  OBVIOUS
<1>1. \A op \in Ops : OnceInv(op)
  BY DEF Init, OnceInv, Finishing
<1> QED
  BY <1>1, TInvInit DEF EInv

\* Operations do not meddle in each other's state.
LEMMA Frame ==
    ASSUME NEW o \in Ops, OnceInv(o), pc'[o] = pc[o], path'[o] = path[o],
           distiller'[o] = distiller[o], entries'[o] = entries[o], launched'[o] = launched[o]
    PROVE  OnceInv(o)'
  BY DEF OnceInv, Claimed, Closed, Finishing, Started, Running

\* A process goes on without claiming, launching or tearing down.
LEMMA MoveKeepsOnce ==
    ASSUME TInv, NEW op \in Ops, NEW r \in Roles, NEW step \in Steps, OnceInv(op),
           Goto(op, r, step), pc[op][r] # "idle",
           step \notin {"list", "remove", "source"},
           step = "launch" => pc[op][r] = "source",
           step \in {"link", "done"} => Finishing(op, r),
           pc[op][r] \in {"list", "remove"} => step = "idle",
           "claim" \in entries[op] => "claim" \in entries'[op],
           path'[op] = path[op], distiller'[op] = distiller[op], launched'[op] = launched[op]
    PROVE  OnceInv(op)'
<1>1. pc'[op][r] = step /\ \A q \in Roles \ {r} : pc'[op][q] = pc[op][q]
  BY GotoType DEF TInv
<1>2. Closed(op) => Closed(op)'
  BY <1>1 DEF Closed, Started, Running
<1>3. Claimed(op) => Claimed(op)'
  BY <1>2 DEF Claimed
<1>4. \A q \in Roles : Finishing(op, q)' => Finishing(op, q)
  BY <1>1 DEF Finishing
<1>5. \A q \in Roles : pc'[op][q] \in {"source", "launch"} => pc[op][q] \in {"source", "launch"}
  BY <1>1
<1>6. \A q \in Roles : pc'[op][q] \in {"list", "remove"} => pc[op][q] \in {"list", "remove"}
  BY <1>1
<1>7. Started(op)' <=> Started(op)
  BY DEF Started
<1> QED
  BY <1>2, <1>3, <1>4, <1>5, <1>6, <1>7 DEF OnceInv

\* The claim is made once: it stands while anyone could make it again.
LEMMA ClaimKeepsOnce ==
    ASSUME TInv, NEW op \in Ops, NEW r \in Roles, OnceInv(op), Claim(op, r)
    PROVE  OnceInv(op)'
<1> USE StepFacts
<1>1. pc[op][r] = "claim" /\ UNCHANGED <<launched, path, distiller>>
  BY DEF Claim
<1>2. CASE "dir" \in entries[op] /\ ClaimFree(op)
  <2>1. Goto(op, r, "source") /\ entries' = [entries EXCEPT ![op] = @ \cup {"claim"}]
    BY <1>2 DEF Claim
  <2>2. pc'[op][r] = "source" /\ \A q \in Roles \ {r} : pc'[op][q] = pc[op][q]
    BY <2>1, GotoType DEF TInv
  <2>3. "claim" \in entries'[op]
    BY <2>1 DEF TInv, TypeOK
  <2>4. ~Claimed(op)
    BY <1>1, <1>2 DEF Claimed, Closed, ClaimFree
  <2>5. launched[op] = 0 /\ \A q \in Roles : ~Finishing(op, q)
    BY <2>4 DEF OnceInv
  <2>6. \A q \in Roles : pc[op][q] \notin {"list", "remove"}
    BY <2>4 DEF OnceInv, Claimed
  <2>7. \A q \in Roles : Finishing(op, q)' => q = r
    BY <2>2, <2>5 DEF Finishing
  <2>8. \A q \in Roles : pc'[op][q] \notin {"list", "remove"}
    BY <2>2, <2>6
  <2> QED
    BY <1>1, <2>3, <2>5, <2>7, <2>8 DEF OnceInv, Claimed
<1>3. CASE ~("dir" \in entries[op] /\ ClaimFree(op))
  <2>1. PICK step \in {"idle", "await"} : Goto(op, r, step)
    BY <1>3 DEF Claim, Returned
  <2>2. UNCHANGED entries
    BY <1>3 DEF Claim
  <2> QED
    BY <1>1, <2>1, <2>2, MoveKeepsOnce
<1> QED
  BY <1>2, <1>3

LEMMA LaunchKeepsOnce ==
    ASSUME TInv, NEW op \in Ops, NEW r \in Roles, OnceInv(op), Launch(op, r)
    PROVE  OnceInv(op)'
<1> USE StepFacts
<1>1. /\ pc[op][r] = "launch" /\ Goto(op, r, "link")
      /\ launched' = [launched EXCEPT ![op] = @ + 1]
      /\ UNCHANGED <<entries, path, distiller>>
  BY DEF Launch
<1>2. pc'[op][r] = "link" /\ \A q \in Roles \ {r} : pc'[op][q] = pc[op][q]
  BY <1>1, GotoType DEF TInv
<1>3. launched'[op] = 1
  BY <1>1 DEF OnceInv, TInv, TypeOK
<1>4. Finishing(op, r) /\ ~Closed(op)
  BY <1>1 DEF Finishing, Closed
<1>5. "claim" \in entries'[op]
  BY <1>1, <1>4 DEF OnceInv, Claimed
<1>6. \A q \in Roles \ {r} : ~Finishing(op, q)
  BY <1>4 DEF OnceInv
<1>7. \A q \in Roles : Finishing(op, q)' => q = r
  BY <1>2, <1>6 DEF Finishing
<1>8. \A q \in Roles : pc'[op][q] \notin {"list", "remove", "source", "launch"}
  BY <1>2, <1>4, <1>6 DEF OnceInv, Finishing
<1>9. Started(op)'
  BY <1>1, PathFacts DEF TInv, StartsFit, Started, Distilled
<1> QED
  BY <1>3, <1>5, <1>7, <1>8, <1>9 DEF OnceInv, Claimed

\* Only an operation without a distiller goes from done to its cleanup, and
\* that has no other process.
LEMMA WriteDoneKeepsOnce ==
    ASSUME TInv, NEW op \in Ops, NEW r \in Roles, OnceInv(op), WriteDone(op, r)
    PROVE  OnceInv(op)'
<1> USE StepFacts
<1>1. pc[op][r] = "done" /\ UNCHANGED <<launched, path, distiller>>
  BY DEF WriteDone
<1>2. "claim" \in entries[op] => "claim" \in entries'[op]
  BY DEF WriteDone, TInv, TypeOK
<1>3. CASE "dir" \in entries[op] /\ CleansUp(op)
  <2>1. Goto(op, r, "list")
    BY <1>3 DEF WriteDone
  <2>2. r = "start" /\ distiller[op] = "none" /\ pc[op]["tool"] = "idle" /\ pc[op]["watch"] = "idle"
    BY <1>1, <1>3 DEF CleansUp, TInv, StartsFit, DistillersFit
  <2>3. /\ pc'[op]["start"] = "list" /\ pc'[op]["tool"] = "idle" /\ pc'[op]["watch"] = "idle"
    BY <2>1, <2>2, GotoType DEF TInv
  <2>4. Started(op)
    BY <1>1, <2>2, PathFacts DEF TInv, StartsFit
  <2>5. Closed(op)'
    BY <1>1, <2>2, <2>3, <2>4 DEF Closed, Started, Running
  <2>6. launched'[op] \in {0, 1}
    BY <1>1 DEF OnceInv
  <2> QED
    BY <2>3, <2>5, <2>6 DEF OnceInv, Finishing, Claimed, Closed
<1>4. CASE ~("dir" \in entries[op] /\ CleansUp(op))
  <2>1. PICK step \in {"idle", "await"} : Goto(op, r, step)
    BY <1>4 DEF WriteDone, Returned
  <2> QED
    BY <1>1, <1>2, <2>1, MoveKeepsOnce
<1> QED
  BY <1>3, <1>4

LEMMA FinishKeepsOnce ==
    ASSUME TInv, NEW op \in Ops, NEW r \in Roles, OnceInv(op), Finish(op, r)
    PROVE  OnceInv(op)'
<1> USE StepFacts
<1>1. CASE LoadSpec(op, r)
  <2>1. PICK step \in {"check", "idle"} : Goto(op, r, step)
    BY <1>1 DEF LoadSpec
  <2> QED
    BY <1>1, <2>1, MoveKeepsOnce DEF LoadSpec, disk
<1>2. CASE CheckDone(op, r)
  <2>1. PICK step \in {"claim", "idle", "await"} : Goto(op, r, step)
    BY <1>2 DEF CheckDone, Returned
  <2> QED
    BY <1>2, <2>1, MoveKeepsOnce DEF CheckDone, disk
<1>3. CASE LoadSource(op, r)
  <2>1. PICK step \in {"launch", "idle"} : Goto(op, r, step)
    BY <1>3 DEF LoadSource
  <2> QED
    BY <1>3, <2>1, MoveKeepsOnce DEF LoadSource, disk
<1>4. CASE Link(op, r)
  <2>1. PICK step \in {"done", "idle"} : Goto(op, r, step)
    BY <1>4 DEF Link
  <2>2. Finishing(op, r) /\ pc[op][r] = "link"
    BY <1>4 DEF Link, Finishing
  <2> QED
    BY <1>4, <2>1, <2>2, MoveKeepsOnce DEF Link
<1> QED
  BY <1>1, <1>2, <1>3, <1>4, ClaimKeepsOnce, LaunchKeepsOnce, WriteDoneKeepsOnce DEF Finish

\* The death of a distiller ends what it ran.
LEMMA EndsKeepOnce ==
    ASSUME TInv, NEW op \in Ops, NEW step \in Steps, OnceInv(op), DistillerEnds(op, step),
           ~ToolsSurvive, Distilled(op),
           \/ step = pc[op]["watch"]
           \/ step = "list" /\ pc[op]["watch"] = "kill",
           UNCHANGED <<path, entries, launched>>
    PROVE  OnceInv(op)'
<1> USE StepFacts
<1>1. /\ pc'[op]["watch"] = step /\ pc'[op]["start"] = pc[op]["start"]
      /\ pc'[op]["tool"] = "idle" /\ distiller'[op] = "dead"
  BY DistillerEndsType DEF TInv
<1>2. \A q \in Roles : pc'[op][q] \in {pc[op][q], "idle"} \/ (q = "watch" /\ step = "list")
  BY <1>1
<1>3. ~Running(op)' /\ Started(op)' /\ Started(op)
  <2>1. Started(op)
    BY PathFacts DEF Started, Distilled
  <2>2. ~Running(op)'
    BY <1>1 DEF Running
  <2>3. Started(op)'
    BY <2>1 DEF Started
  <2> QED
    BY <2>1, <2>2, <2>3
<1>4. Closed(op) => Closed(op)'
  BY <1>1, <1>2, <1>3 DEF Closed
<1>5. step = "list" => Closed(op)'
  <2>1. CASE pc[op]["watch"] = "kill" /\ step = "list"
    <3>1. pc[op]["start"] = "idle"
      BY <2>1 DEF TInv, StartsFit
    <3> QED
      BY <1>1, <1>3, <2>1, <3>1 DEF Closed
  <2>2. CASE step = pc[op]["watch"] /\ step = "list"
    BY <1>4, <2>2 DEF OnceInv
  <2> QED
    BY <2>1, <2>2
<1>6. Claimed(op) => Claimed(op)'
  BY <1>4 DEF Claimed
<1>7. \A q \in Roles : Finishing(op, q)' => Finishing(op, q)
  BY <1>2, <1>1 DEF Finishing
<1>8. \A q \in Roles : pc'[op][q] \in {"source", "launch"} => pc[op][q] \in {"source", "launch"}
  BY <1>1, <1>2
<1>9. \A q \in Roles : pc'[op][q] \in {"list", "remove"} => Closed(op)'
  BY <1>2, <1>4, <1>5 DEF OnceInv
<1> QED
  BY <1>3, <1>6, <1>7, <1>8, <1>9 DEF OnceInv

LEMMA WatchKeepsOnce ==
    ASSUME TInv, NEW op \in Ops, OnceInv(op), Watch(op), ~ToolsSurvive
    PROVE  OnceInv(op)'
<1> USE StepFacts
<1>1. CASE PollEnds(op)
  BY <1>1, MoveKeepsOnce DEF PollEnds, disk
<1>2. CASE GraceEnds(op)
  BY <1>2, MoveKeepsOnce DEF GraceEnds, disk
<1>3. CASE Ensure(op)
  <2>1. PICK step \in {"load", "await"} : Goto(op, "watch", step)
    BY <1>3 DEF Ensure
  <2> QED
    BY <1>3, <2>1, MoveKeepsOnce DEF Ensure, disk
<1>4. CASE AwaitEnds(op)
  BY <1>4, MoveKeepsOnce DEF AwaitEnds, disk
<1>5. CASE KillDistiller(op)
  <2>1. pc[op]["watch"] = "kill" /\ Distilled(op)
    BY <1>5 DEF KillDistiller, TInv, StartsFit
  <2> QED
    BY <1>5, <2>1, EndsKeepOnce DEF KillDistiller, disk
<1> QED
  BY <1>1, <1>2, <1>3, <1>4, <1>5 DEF Watch

\* The teardown removes the claim when nobody can make another.
LEMMA CleanupKeepsOnce ==
    ASSUME TInv, NEW op \in Ops, NEW r \in Roles, OnceInv(op), Cleanup(op, r)
    PROVE  OnceInv(op)'
<1> USE StepFacts
<1>1. /\ pc[op][r] \in {"list", "remove"}
      /\ UNCHANGED <<path, distiller, launched>>
      /\ pc' = pc \/ (\E step \in {"remove", "idle"} : Goto(op, r, step))
  BY DEF Cleanup, ListDir, RemoveDir, RemoveEntry, disk
<1>2. Closed(op)
  BY <1>1 DEF OnceInv
<1>3. \A q \in Roles : pc'[op][q] \in {"idle", "list", "remove"}
  <2>1. CASE pc' = pc
    BY <1>2, <2>1 DEF Closed
  <2>2. ASSUME NEW step \in {"remove", "idle"}, Goto(op, r, step)
        PROVE  \A q \in Roles : pc'[op][q] \in {"idle", "list", "remove"}
    <3>1. pc'[op][r] = step /\ \A q \in Roles \ {r} : pc'[op][q] = pc[op][q]
      BY <2>2, GotoType DEF TInv
    <3> QED
      BY <1>2, <3>1 DEF Closed
  <2> QED
    BY <1>1, <2>1, <2>2
<1>4. Closed(op)'
  BY <1>1, <1>2, <1>3 DEF Closed, Started, Running
<1> QED
  BY <1>1, <1>3, <1>4 DEF OnceInv, Finishing, Claimed, Closed

LEMMA StartKeepsOnce ==
    ASSUME TInv, NEW op \in Ops, OnceInv(op), Start(op)
    PROVE  OnceInv(op)'
<1> USE StepFacts
<1>1. PICK kind \in Kinds, s \in Slugs, selfCatchUp \in BOOLEAN : StartOp(op, kind, s, selfCatchUp)
  BY DEF Start
<1>2. PICK step \in {"load", "distill"} : Goto(op, "start", step)
  BY <1>1 DEF StartOp
<1>3. ~Started(op) /\ UNCHANGED launched
  BY <1>1 DEF StartOp
<1>4. launched'[op] = 0
  BY <1>3 DEF OnceInv
<1>5. ~Distilled(op)
  BY <1>3, PathFacts DEF Started, Distilled
<1>6. \A q \in Roles : pc[op][q] = "idle"
  BY <1>3, <1>5 DEF TInv, StartsFit
<1>7. \A q \in Roles : pc'[op][q] \in {"idle", step}
  BY <1>2, <1>6, GotoType DEF TInv
<1> QED
  BY <1>4, <1>7 DEF OnceInv, Finishing

\* The command spawns the distiller and the watchdog before anybody claims.
LEMMA SpawnKeepsOnce ==
    ASSUME TInv, NEW op \in Ops, OnceInv(op), SpawnDistiller(op) \/ DetachWatch(op)
    PROVE  OnceInv(op)'
<1> USE StepFacts
<1>1. UNCHANGED <<path, entries, launched>> /\ pc[op]["start"] \in {"distill", "detach"}
  BY DEF SpawnDistiller, DetachWatch, disk
<1>2. ~Closed(op)
  BY <1>1 DEF Closed
<1>3. \A q \in Roles : pc'[op][q] \in {pc[op][q], "detach", "idle", "poll"}
  <2>1. CASE SpawnDistiller(op)
    <3>1. Goto(op, "start", "detach")
      BY <2>1 DEF SpawnDistiller
    <3> QED
      BY <3>1, GotoType DEF TInv
  <2>2. CASE DetachWatch(op)
    BY <2>2 DEF DetachWatch, TInv, TypeOK
  <2> QED
    BY <2>1, <2>2
<1>4. \A q \in Roles : Finishing(op, q)' => Finishing(op, q)
  BY <1>3 DEF Finishing
<1>5. \A q \in Roles : pc'[op][q] \in {"source", "launch"} => pc[op][q] \in {"source", "launch"}
  BY <1>3
<1>6. \A q \in Roles : pc'[op][q] \notin {"list", "remove"}
  BY <1>2, <1>3 DEF OnceInv
<1>7. Started(op)' <=> Started(op)
  BY <1>1 DEF Started
<1>8. Claimed(op) => Claimed(op)'
  BY <1>1, <1>2 DEF Claimed
<1> QED
  BY <1>1, <1>4, <1>5, <1>6, <1>7, <1>8 DEF OnceInv

LEMMA WorldKeepsOnce ==
    ASSUME TInv, NEW op \in Ops, OnceInv(op), World(op), ~ToolsSurvive
    PROVE  OnceInv(op)'
<1> USE StepFacts
<1>1. Running(op) => Distilled(op)
  BY DEF TInv, DistillersFit, Running
<1>2. CASE WriteBrief(op)
  <2>1. UNCHANGED <<pc, path, entries, launched>> /\ Running(op) /\ distiller'[op] = "written"
    BY <1>2 DEF WriteBrief, Running, TInv, TypeOK
  <2>2. ~Closed(op)
    BY <2>1 DEF Closed
  <2> QED
    BY <2>1, <2>2 DEF OnceInv, Claimed, Finishing, Started
<1>3. CASE StartTool(op)
  <2>1. /\ Goto(op, "tool", "load") /\ Running(op) /\ pc[op]["tool"] = "idle"
        /\ UNCHANGED <<path, entries, launched>>
    BY <1>3 DEF StartTool, disk
  <2>2. \A q \in Roles : pc'[op][q] \in {pc[op][q], "load"}
    BY <2>1, GotoType DEF TInv
  <2>3. ~Closed(op)
    BY <2>1 DEF Closed
  <2>4. \A q \in Roles : Finishing(op, q)' => Finishing(op, q)
    BY <2>2 DEF Finishing
  <2>5. \A q \in Roles : pc'[op][q] \in {"source", "launch"} => pc[op][q] \in {"source", "launch"}
    BY <2>2
  <2>6. \A q \in Roles : pc'[op][q] \notin {"list", "remove"}
    BY <2>2, <2>3 DEF OnceInv
  <2>7. (Started(op)' <=> Started(op)) /\ (Claimed(op) => Claimed(op)')
    BY <2>1, <2>3 DEF Started, Claimed
  <2> QED
    BY <2>1, <2>4, <2>5, <2>6, <2>7 DEF OnceInv
<1>4. CASE DistillerDies(op)
  <2>1. Distilled(op) /\ pc[op]["watch"] \in Steps
    BY <1>1, <1>4 DEF DistillerDies, TInv, TypeOK
  <2> QED
    BY <1>4, <2>1, EndsKeepOnce DEF DistillerDies, disk
<1>5. CASE Expire(op)
  BY <1>5, Frame DEF Expire, disk
<1>6. ASSUME NEW r \in Roles, Crash(op, r)
      PROVE  OnceInv(op)'
  BY <1>6, MoveKeepsOnce DEF Crash, disk
<1> QED
  BY <1>2, <1>3, <1>4, <1>5, <1>6 DEF World

\* A step of one operation leaves the others as they are.
LEMMA OthersKept ==
    ASSUME TInv, NEW op \in Ops, Start(op) \/ Step(op) \/ World(op), NEW o \in Ops, o # op
    PROVE  /\ pc'[o] = pc[o] /\ path'[o] = path[o] /\ distiller'[o] = distiller[o]
           /\ entries'[o] = entries[o] /\ launched'[o] = launched[o]
<1> USE StepFacts DEF TInv, TypeOK
<1>1. CASE Start(op)
  BY <1>1 DEF Start, StartOp, Goto
<1>2. CASE SpawnDistiller(op)
  BY <1>2 DEF SpawnDistiller, Goto, disk
<1>3. CASE DetachWatch(op)
  BY <1>3 DEF DetachWatch, disk
<1>4. CASE Watch(op)
  <2>1. CASE KillDistiller(op)
    BY <2>1, DistillerEndsType DEF KillDistiller, disk
  <2> QED
    BY <1>4, <2>1 DEF Watch, PollEnds, GraceEnds, Ensure, AwaitEnds, Goto, disk
<1>5. ASSUME NEW r \in Roles, Finish(op, r)
      PROVE  /\ pc'[o] = pc[o] /\ path'[o] = path[o] /\ distiller'[o] = distiller[o]
             /\ entries'[o] = entries[o] /\ launched'[o] = launched[o]
  <2>1. PICK step \in Steps : Goto(op, r, step)
    BY <1>5, FinishStep
  <2>2. launched'[o] = launched[o]
    BY <1>5 DEF Finish, LoadSpec, CheckDone, Claim, LoadSource, Launch, Link, WriteDone, disk
  <2>3. pc'[o] = pc[o]
    BY <2>1 DEF Goto
  <2>4. /\ UNCHANGED <<path, distiller>>
        /\ \/ UNCHANGED entries
           \/ entries' = [entries EXCEPT ![op] = @ \cup {"claim"}]
           \/ entries' = [entries EXCEPT ![op] = @ \cup {"done"}]
    BY <1>5, FinishStep
  <2>5. entries'[o] = entries[o]
    BY <2>4
  <2> QED
    BY <2>2, <2>3, <2>4, <2>5
<1>6. ASSUME NEW r \in Roles, Cleanup(op, r)
      PROVE  /\ pc'[o] = pc[o] /\ path'[o] = path[o] /\ distiller'[o] = distiller[o]
             /\ entries'[o] = entries[o] /\ launched'[o] = launched[o]
  BY <1>6 DEF Cleanup, ListDir, RemoveDir, RemoveEntry, Goto, disk
<1>7. CASE World(op)
  <2>1. CASE DistillerDies(op)
    BY <2>1, DistillerEndsType DEF DistillerDies, disk
  <2> QED
    BY <1>7, <2>1 DEF World, WriteBrief, StartTool, Expire, Crash, Goto, disk
<1> QED
  BY <1>1, <1>2, <1>3, <1>4, <1>5, <1>6, <1>7 DEF Step

LEMMA EInvNext == EInv /\ [Next]_vars /\ ~ToolsSurvive => EInv'
<1> SUFFICES ASSUME EInv, [Next]_vars, ~ToolsSurvive
             PROVE  EInv'
  OBVIOUS
<1>1. TInv'
  BY TInvNext DEF EInv
<1>2. ASSUME NEW op \in Ops, Start(op) \/ Step(op) \/ World(op), NEW o \in Ops
      PROVE  OnceInv(o)'
  <2>1. CASE o # op
    BY <1>2, <2>1, OthersKept, Frame DEF EInv
  <2>2. CASE o = op
    BY <1>2, <2>2, StartKeepsOnce, SpawnKeepsOnce, WatchKeepsOnce, FinishKeepsOnce,
       CleanupKeepsOnce, WorldKeepsOnce DEF EInv, Step
  <2> QED
    BY <2>1, <2>2
<1>3. CASE RemoveSource \/ UNCHANGED vars
  <2>1. UNCHANGED <<pc, path, distiller, entries, launched>>
    BY <1>3 DEF RemoveSource, vars, disk
  <2>2. \A o \in Ops : OnceInv(o)'
    BY <2>1, Frame DEF EInv
  <2> QED
    BY <1>1, <2>2 DEF EInv
<1> QED
  BY <1>1, <1>2, <1>3 DEF Next, EInv

\* When a finish ends with the session of the distiller that runs it, one
\* operation starts one continuation, whoever finishes it, however often, and
\* wherever they fail.
THEOREM AtMostOneContinuation ==
    ASSUME ~ToolsSurvive
    PROVE  Spec => []SingleExecution
<1>1. EInv => SingleExecution
  BY DEF EInv, OnceInv, SingleExecution
<1>2. EInv /\ [Next]_vars => EInv'
  BY EInvNext
<1>3. Spec => []EInv
  BY <1>2, EInvInit, PTL DEF Spec
<1> QED
  BY <1>1, <1>3, PTL

----------------------------------------------------------------------------
(***************************************************************************)
(* The end of an operation of ChatOps, for every number of operations and   *)
(* faults: the watchdog kills no distiller whose finish has made the claim,  *)
(* and what is torn down without a fault was completed.  Both need a claim  *)
(* to mean that a finish is under way or over, which is what the invariants *)
(* ClaimHolds and Whole say of every step between the two.                  *)
(***************************************************************************)

Busy(op) == \E r \in Roles : Finishing(op, r)

Complete(op) == launched[op] = 1 /\ linked[op]

\* The watchdog waits for a claim to come to its end, faults or not.
ClaimHolds(op) ==
    /\ \A r \in Roles : pc[op][r] \in {"link", "done"} => launched[op] = 1
    /\ "done" \in entries[op] => launched[op] = 1 /\ ~Busy(op)
    /\ pc[op]["watch"] \in {"await", "kill"} => "claim" \in entries[op]
    /\ pc[op]["watch"] = "kill" => ~Busy(op)

\* Without a fault a claim comes to its end with the operation completed, and the
\* directory stays until then.
Whole(op) ==
    /\ \A r \in Roles : pc[op][r] = "done" => linked[op]
    /\ "done" \in entries[op] => linked[op]
    /\ "claim" \in entries[op] => Busy(op) \/ Complete(op)
    /\ \A r \in Roles : pc[op][r] \in {"kill", "list", "remove"} => Complete(op)
    /\ Started(op) => "dir" \in entries[op] \/ (Closed(op) /\ Complete(op))

CInv == EInv /\ \A op \in Ops : ClaimHolds(op)

TearInv == CInv /\ (NoFault => source /\ \A op \in Ops : Whole(op))

----------------------------------------------------------------------------

LEMMA InitTear == Init => TearInv
<1> SUFFICES ASSUME Init PROVE TearInv
  OBVIOUS
<1>1. \A op \in Ops : ClaimHolds(op) /\ Whole(op)
  BY StepFacts DEF Init, ClaimHolds, Whole, Busy, Finishing, Started
<1> QED  BY <1>1, EInvInit DEF TearInv, CInv, Init

\* What the two say of an operation depends on its own state alone.
LEMMA TearFrame ==
  ASSUME NEW o \in Ops, pc'[o] = pc[o], path'[o] = path[o], linked'[o] = linked[o],
         distiller'[o] = distiller[o], entries'[o] = entries[o], launched'[o] = launched[o]
  PROVE  (ClaimHolds(o) => ClaimHolds(o)') /\ (Whole(o) => Whole(o)')
<1>1. Busy(o)' <=> Busy(o)
  BY DEF Busy, Finishing
<1>2. Closed(o)' <=> Closed(o)
  BY DEF Closed, Started, Running
<1> QED  BY <1>1, <1>2 DEF ClaimHolds, Whole, Complete, Started

\* A process goes from one step to another without touching the directory.
LEMMA MoveKeepsTear ==
  ASSUME TInv, NEW op \in Ops, NEW r \in Roles, NEW step \in Steps, OnceInv(op), ClaimHolds(op),
         Goto(op, r, step), pc[op][r] # "idle",
         step \notin {"source", "link", "list", "remove"},
         pc[op][r] \in {"list", "remove"} => step = "idle",
         step = "launch" => pc[op][r] = "source",
         step = "done" => pc[op][r] = "link",
         r = "watch" /\ step = "await" => "claim" \in entries[op],
         step = "kill" => "claim" \in entries[op] /\ ~Busy(op),
         UNCHANGED <<entries, launched, path, distiller>>
  PROVE  /\ ClaimHolds(op)'
         /\ /\ Whole(op) /\ (linked[op] => linked'[op])
            /\ Finishing(op, r) => step \in {"launch", "done"}
            /\ step = "done" => linked'[op]
            /\ step = "kill" => Complete(op)
            => Whole(op)'
<1> USE StepFacts
<1>1. pc'[op][r] = step /\ \A q \in Roles \ {r} : pc'[op][q] = pc[op][q]
  BY GotoType DEF TInv
<1>2. Busy(op)' => Busy(op)
  BY <1>1 DEF Busy, Finishing
<1>3. ASSUME step \in {"launch", "done"} PROVE Busy(op)'
  <2>1. Finishing(op, r)'
    BY <1>1, <1>3 DEF Finishing
  <2> QED  BY <2>1 DEF Busy
<1>4. ASSUME Busy(op), ~Finishing(op, r) PROVE Busy(op)'
  <2>1. PICK q \in Roles : Finishing(op, q)
    BY <1>4 DEF Busy
  <2>2. Finishing(op, q)'
    BY <1>1, <1>4, <2>1 DEF Finishing
  <2> QED  BY <2>2 DEF Busy
<1>5. Closed(op) => Closed(op)'
  BY <1>1 DEF Closed, Started, Running
<1>6. ClaimHolds(op)'
  BY <1>1, <1>2 DEF ClaimHolds
<1>7. ASSUME Whole(op), linked[op] => linked'[op],
             Finishing(op, r) => step \in {"launch", "done"},
             step = "done" => linked'[op],
             step = "kill" => Complete(op)
      PROVE  Whole(op)'
  <2>1. Complete(op) => Complete(op)'
    BY <1>7 DEF Complete
  <2>2. \A q \in Roles : pc'[op][q] = "done" => linked'[op]
    BY <1>1, <1>7 DEF Whole
  <2>3. "claim" \in entries'[op] => Busy(op)' \/ Complete(op)'
    BY <1>3, <1>4, <1>7, <2>1 DEF Whole
  <2>4. \A q \in Roles : pc'[op][q] \in {"kill", "list", "remove"} => Complete(op)'
    BY <1>1, <1>7, <2>1 DEF Whole
  <2>5. Started(op)' => "dir" \in entries'[op] \/ (Closed(op)' /\ Complete(op)')
    BY <1>5, <1>7, <2>1 DEF Whole, Started
  <2>6. "done" \in entries'[op] => linked'[op]
    BY <1>7 DEF Whole
  <2> QED  BY <2>2, <2>3, <2>4, <2>5, <2>6 DEF Whole
<1> QED  BY <1>6, <1>7

----------------------------------------------------------------------------
(* The steps of a finish.                                                   *)

\* Where done is, or anybody launched, the claim stands until the teardown.
LEMMA ClaimStands ==
  ASSUME NEW op \in Ops, NEW r \in Roles, OnceInv(op), ClaimHolds(op),
         "done" \in entries[op] \/ launched[op] = 1,
         pc[op][r] \notin {"idle", "list", "remove"}
  PROVE  "claim" \in entries[op]
BY DEF OnceInv, ClaimHolds, Claimed, Closed

LEMMA ReadsKeepTear ==
  ASSUME TInv, NEW op \in Ops, NEW r \in Roles, OnceInv(op), ClaimHolds(op),
         LoadSpec(op, r) \/ CheckDone(op, r) \/ LoadSource(op, r) \/ Link(op, r)
  PROVE  ClaimHolds(op)' /\ (Whole(op) /\ source => Whole(op)')
<1> USE StepFacts
<1>1. CASE LoadSpec(op, r)
  <2>1. PICK step \in {"check", "idle"} : Goto(op, r, step)
    BY <1>1 DEF LoadSpec
  <2>2. /\ pc[op][r] = "load" /\ ~Finishing(op, r)
        /\ UNCHANGED <<entries, launched, linked, path, distiller>>
    BY <1>1 DEF LoadSpec, Finishing, disk
  <2> QED  BY <2>1, <2>2, MoveKeepsTear
<1>2. CASE CheckDone(op, r)
  <2>1. PICK step \in {"claim", "idle", "await"} :
          Goto(op, r, step) /\ (step = "await" => "done" \in entries[op])
    BY <1>2 DEF CheckDone, Returned
  <2>2. /\ pc[op][r] = "check" /\ ~Finishing(op, r)
        /\ UNCHANGED <<entries, launched, linked, path, distiller>>
    BY <1>2 DEF CheckDone, Finishing, disk
  <2>3. step = "await" => "claim" \in entries[op]
    BY <2>1, <2>2, ClaimStands
  <2> QED  BY <2>1, <2>2, <2>3, MoveKeepsTear
<1>3. CASE LoadSource(op, r)
  <2>1. PICK step \in {"launch", "idle"} : Goto(op, r, step) /\ (source => step = "launch")
    BY <1>3 DEF LoadSource
  <2>2. pc[op][r] = "source" /\ UNCHANGED <<entries, launched, linked, path, distiller>>
    BY <1>3 DEF LoadSource, disk
  <2> QED  BY <2>1, <2>2, MoveKeepsTear
<1>4. CASE Link(op, r)
  <2>1. PICK step \in {"done", "idle"} :
          Goto(op, r, step) /\ (source => step = "done") /\ (step = "done" => linked'[op])
    BY <1>4 DEF Link, TInv, TypeOK
  <2>2. pc[op][r] = "link" /\ UNCHANGED <<entries, launched, path, distiller>>
    BY <1>4 DEF Link
  <2>3. linked[op] => linked'[op]
    BY <1>4 DEF Link, TInv, TypeOK
  <2> QED  BY <2>1, <2>2, <2>3, MoveKeepsTear
<1> QED  BY <1>1, <1>2, <1>3, <1>4

LEMMA ClaimKeepsTear ==
  ASSUME TInv, NEW op \in Ops, NEW r \in Roles, OnceInv(op), ClaimHolds(op), Claim(op, r)
  PROVE  ClaimHolds(op)' /\ (Whole(op) => Whole(op)')
<1> USE StepFacts
<1>1. /\ pc[op][r] = "claim" /\ ~Finishing(op, r)
      /\ UNCHANGED <<launched, linked, path, distiller>>
  BY DEF Claim, Finishing
<1>2. CASE "dir" \in entries[op] /\ ClaimFree(op)
  <2>1. Goto(op, r, "source") /\ entries' = [entries EXCEPT ![op] = @ \cup {"claim"}]
    BY <1>2 DEF Claim
  <2>2. pc'[op][r] = "source" /\ \A q \in Roles \ {r} : pc'[op][q] = pc[op][q]
    BY <2>1, GotoType DEF TInv
  <2>3. entries'[op] = entries[op] \cup {"claim"}
    BY <2>1 DEF TInv, TypeOK
  <2>4. "done" \notin entries[op] /\ launched[op] # 1 /\ pc[op]["watch"] \notin {"await", "kill"}
    BY <1>1, <1>2, ClaimStands DEF ClaimFree, ClaimHolds
  <2>5. Busy(op)'
    <3>1. Finishing(op, r)'
      BY <2>2 DEF Finishing
    <3> QED  BY <3>1 DEF Busy
  <2>6. ClaimHolds(op)'
    BY <1>1, <2>2, <2>3, <2>4 DEF ClaimHolds
  <2>7. ASSUME Whole(op) PROVE Whole(op)'
    <3>1. \A q \in Roles : pc'[op][q] \notin {"kill", "list", "remove", "done"}
      BY <2>2, <2>4, <2>7 DEF Whole, Complete, ClaimHolds
    <3>2. "dir" \in entries'[op] /\ "done" \notin entries'[op]
      BY <1>2, <2>3, <2>4
    <3> QED  BY <2>5, <3>1, <3>2 DEF Whole
  <2> QED  BY <2>6, <2>7
<1>3. CASE ~("dir" \in entries[op] /\ ClaimFree(op))
  <2>1. PICK step \in {"idle", "await"} :
          Goto(op, r, step) /\ (step = "await" => "claim" \in entries[op])
    BY <1>3 DEF Claim, Returned, ClaimFree
  <2>2. UNCHANGED entries
    BY <1>3 DEF Claim
  <2> QED  BY <1>1, <2>1, <2>2, MoveKeepsTear
<1> QED  BY <1>2, <1>3

LEMMA LaunchKeepsTear ==
  ASSUME TInv, NEW op \in Ops, NEW r \in Roles, OnceInv(op), ClaimHolds(op), Launch(op, r)
  PROVE  ClaimHolds(op)' /\ (Whole(op) => Whole(op)')
<1> USE StepFacts
<1>1. /\ pc[op][r] = "launch" /\ Goto(op, r, "link") /\ launched'[op] = launched[op] + 1
      /\ UNCHANGED <<entries, linked, path, distiller>>
  BY DEF Launch, TInv, TypeOK
<1>2. pc'[op][r] = "link" /\ \A q \in Roles \ {r} : pc'[op][q] = pc[op][q]
  BY <1>1, GotoType DEF TInv
<1>3. launched[op] = 0 /\ launched'[op] = 1 /\ Busy(op)
  BY <1>1 DEF OnceInv, Busy, Finishing
<1>4. \A q \in Roles \ {r} : ~Finishing(op, q)
  BY <1>1 DEF OnceInv, Finishing
<1>5. Busy(op)'
  <2>1. Finishing(op, r)'
    BY <1>2 DEF Finishing
  <2> QED  BY <2>1 DEF Busy
<1>6. ClaimHolds(op)'
  BY <1>1, <1>2, <1>3 DEF ClaimHolds
<1>7. ASSUME Whole(op) PROVE Whole(op)'
  <2>1. \A q \in Roles : pc'[op][q] \notin {"kill", "list", "remove", "done"}
    BY <1>2, <1>3, <1>4, <1>7 DEF Whole, Complete, Finishing
  <2>2. Started(op)' => "dir" \in entries'[op]
    BY <1>1, <1>3, <1>7 DEF Whole, Complete, Started
  <2>3. "done" \notin entries'[op]
    BY <1>1, <1>3 DEF ClaimHolds
  <2> QED  BY <1>5, <2>1, <2>2, <2>3 DEF Whole
<1> QED  BY <1>6, <1>7

LEMMA WriteDoneKeepsTear ==
  ASSUME TInv, NEW op \in Ops, NEW r \in Roles, OnceInv(op), ClaimHolds(op), WriteDone(op, r)
  PROVE  ClaimHolds(op)' /\ (Whole(op) => Whole(op)')
<1> USE StepFacts
<1>1. /\ pc[op][r] = "done" /\ launched[op] = 1
      /\ UNCHANGED <<launched, linked, path, distiller>>
  BY DEF WriteDone, ClaimHolds
<1>2. PICK step \in {"idle", "list", "await"} : Goto(op, r, step)
  BY DEF WriteDone, Returned
<1>3. pc'[op][r] = step /\ \A q \in Roles \ {r} : pc'[op][q] = pc[op][q]
  BY <1>2, GotoType DEF TInv
<1>4. /\ entries'[op] \in {entries[op], entries[op] \cup {"done"}}
  BY DEF WriteDone, TInv, TypeOK
<1>5. "claim" \in entries[op]
  BY <1>1, ClaimStands
<1>6. \A q \in Roles : ~Finishing(op, q)'
  BY <1>1, <1>3 DEF OnceInv, Finishing
<1>7. ClaimHolds(op)'
  BY <1>1, <1>3, <1>4, <1>5, <1>6 DEF ClaimHolds, Busy, Finishing
<1>8. ASSUME Whole(op) PROVE Whole(op)'
  <2>1. Complete(op)'
    BY <1>1, <1>8 DEF Whole, Complete
  <2>2. ~Closed(op) /\ (Started(op)' => Started(op))
    BY <1>1 DEF Closed, Started
  <2> QED  BY <1>4, <1>8, <2>1, <2>2 DEF Whole, Complete
<1> QED  BY <1>7, <1>8

LEMMA FinishKeepsTear ==
  ASSUME TInv, NEW op \in Ops, NEW r \in Roles, OnceInv(op), ClaimHolds(op), Finish(op, r)
  PROVE  ClaimHolds(op)' /\ (Whole(op) /\ source => Whole(op)')
BY ReadsKeepTear, ClaimKeepsTear, LaunchKeepsTear, WriteDoneKeepsTear DEF Finish

----------------------------------------------------------------------------
(* The watchdog and the teardown.                                           *)

\* A distiller that ends with no finish of its own under way.
LEMMA EndsKeepTear ==
  ASSUME TInv, NEW op \in Ops, NEW step \in Steps, OnceInv(op), ClaimHolds(op),
         DistillerEnds(op, step), ~ToolsSurvive,
         step = pc[op]["watch"] \/ (step = "list" /\ pc[op]["watch"] = "kill"),
         UNCHANGED <<path, entries, launched, linked>>
  PROVE  ClaimHolds(op)' /\ (Whole(op) /\ ~Finishing(op, "tool") => Whole(op)')
<1> USE StepFacts
<1>1. /\ pc'[op]["watch"] = step /\ pc'[op]["start"] = pc[op]["start"]
      /\ pc'[op]["tool"] = "idle" /\ distiller'[op] = "dead"
  BY DistillerEndsType DEF TInv
<1>2. \A q \in Roles : pc'[op][q] \in {pc[op][q], "idle"} \/ (q = "watch" /\ step = "list")
  BY <1>1
<1>3. Busy(op)' => Busy(op)
  BY <1>1, <1>2 DEF Busy, Finishing
<1>4. ClaimHolds(op)'
  BY <1>1, <1>2, <1>3 DEF ClaimHolds
<1>5. ASSUME Whole(op), ~Finishing(op, "tool") PROVE Whole(op)'
  <2>1. Busy(op) => Busy(op)'
    <3>1. ASSUME Busy(op) PROVE Busy(op)'
      <4>1. PICK q \in Roles : Finishing(op, q)
        BY <3>1 DEF Busy
      <4>2. q # "tool" /\ (q = "watch" => step = pc[op]["watch"])
        BY <1>5, <4>1 DEF Finishing
      <4>3. Finishing(op, q)'
        BY <1>1, <4>1, <4>2 DEF Finishing
      <4> QED  BY <4>3 DEF Busy
    <3> QED  BY <3>1
  <2>2. Complete(op)' <=> Complete(op)
    BY DEF Complete
  <2>3. ~Running(op)'
    BY <1>1 DEF Running
  <2>4. ASSUME Closed(op) PROVE Closed(op)'
    <3>1. Started(op)'
      BY <2>4 DEF Closed, Started
    <3>2. \A q \in Roles : pc'[op][q] \in {"idle", "list", "remove"}
      BY <1>1, <1>2, <2>4 DEF Closed
    <3> QED  BY <2>3, <3>1, <3>2 DEF Closed
  <2>5. \A q \in Roles : pc'[op][q] = "done" => linked'[op]
    BY <1>1, <1>2, <1>5 DEF Whole
  <2>6. \A q \in Roles : pc'[op][q] \in {"kill", "list", "remove"} => Complete(op)'
    BY <1>1, <1>2, <1>5, <2>2 DEF Whole
  <2>7. ("claim" \in entries'[op] => Busy(op)' \/ Complete(op)') /\ ("done" \in entries'[op] => linked'[op])
    BY <1>5, <2>1, <2>2 DEF Whole
  <2>8. Started(op)' => "dir" \in entries'[op] \/ (Closed(op)' /\ Complete(op)')
    BY <1>5, <2>2, <2>4 DEF Whole, Started
  <2> QED  BY <2>5, <2>6, <2>7, <2>8 DEF Whole
<1> QED  BY <1>4, <1>5

LEMMA WatchKeepsTear ==
  ASSUME TInv, NEW op \in Ops, OnceInv(op), ClaimHolds(op), Watch(op), Prompt, ~ToolsSurvive
  PROVE  ClaimHolds(op)' /\ (Whole(op) => Whole(op)')
<1> USE StepFacts
<1>1. CASE PollEnds(op)
  BY <1>1, MoveKeepsTear DEF PollEnds, disk, Finishing
<1>2. CASE GraceEnds(op)
  BY <1>2, MoveKeepsTear DEF GraceEnds, disk, Finishing
<1>3. CASE Ensure(op)
  <2>1. PICK step \in {"load", "await"} :
          Goto(op, "watch", step) /\ (step = "await" => "done" \in entries[op])
    BY <1>3 DEF Ensure, NeedsFinish
  <2>2. /\ pc[op]["watch"] = "ensure" /\ ~Finishing(op, "watch")
        /\ UNCHANGED <<entries, launched, linked, path, distiller>>
    BY <1>3 DEF Ensure, disk, Finishing
  <2>3. step = "await" => "claim" \in entries[op]
    BY <2>1, <2>2, ClaimStands
  <2> QED  BY <2>1, <2>2, <2>3, MoveKeepsTear
<1>4. CASE AwaitEnds(op)
  <2>1. /\ pc[op]["watch"] = "await" /\ ~Finishing(op, "watch") /\ Goto(op, "watch", "kill")
        /\ UNCHANGED <<entries, launched, linked, path, distiller>>
    BY <1>4 DEF AwaitEnds, disk, Finishing
  <2>2. "claim" \in entries[op]
    BY <2>1 DEF ClaimHolds
  <2>3. ~Busy(op)
    BY <1>4 DEF AwaitEnds, ClaimHolds, Busy
  <2>4. Whole(op) => Complete(op)
    BY <2>2, <2>3 DEF Whole
  <2> QED  BY <2>1, <2>2, <2>3, <2>4, MoveKeepsTear
<1>5. CASE KillDistiller(op)
  <2>1. pc[op]["watch"] = "kill" /\ DistillerEnds(op, "list")
        /\ UNCHANGED <<path, entries, launched, linked>>
    BY <1>5 DEF KillDistiller, disk
  <2>2. ~Finishing(op, "tool")
    BY <2>1 DEF ClaimHolds, Busy
  <2> QED  BY <2>1, <2>2, EndsKeepTear
<1> QED  BY <1>1, <1>2, <1>3, <1>4, <1>5 DEF Watch

\* The teardown removes what nobody will look at again.
LEMMA CleanupKeepsTear ==
  ASSUME TInv, NEW op \in Ops, NEW r \in Roles, OnceInv(op), ClaimHolds(op), Cleanup(op, r)
  PROVE  ClaimHolds(op)' /\ (Whole(op) => Whole(op)')
<1> USE StepFacts
<1>1. /\ pc[op][r] \in {"list", "remove"}
      /\ UNCHANGED <<path, distiller, launched, linked>>
      /\ pc' = pc \/ (\E step \in {"remove", "idle"} : Goto(op, r, step))
      /\ entries'[op] \subseteq entries[op]
  BY DEF Cleanup, ListDir, RemoveDir, RemoveEntry, disk, TInv, TypeOK
<1>2. Closed(op)
  BY <1>1 DEF OnceInv
<1>3. \A q \in Roles : pc'[op][q] \in {"idle", "list", "remove"}
  <2>1. CASE pc' = pc
    BY <1>2, <2>1 DEF Closed
  <2>2. ASSUME NEW step \in {"remove", "idle"}, Goto(op, r, step)
        PROVE  \A q \in Roles : pc'[op][q] \in {"idle", "list", "remove"}
    <3>1. pc'[op][r] = step /\ \A q \in Roles \ {r} : pc'[op][q] = pc[op][q]
      BY <2>2, GotoType DEF TInv
    <3> QED  BY <1>2, <3>1 DEF Closed
  <2> QED  BY <1>1, <2>1, <2>2
<1>4. Closed(op)' /\ ~Busy(op)'
  BY <1>1, <1>2, <1>3 DEF Closed, Started, Running, Busy, Finishing
<1>5. ClaimHolds(op)'
  BY <1>1, <1>3, <1>4 DEF ClaimHolds
<1>6. ASSUME Whole(op) PROVE Whole(op)'
  <2>1. Complete(op)'
    BY <1>1, <1>6 DEF Whole, Complete
  <2> QED  BY <1>3, <1>4, <2>1 DEF Whole, Complete
<1> QED  BY <1>5, <1>6

----------------------------------------------------------------------------
(* The start of an operation and the world around it.                       *)

LEMMA StartKeepsTear ==
  ASSUME TInv, NEW op \in Ops, OnceInv(op), Start(op)
  PROVE  ClaimHolds(op)' /\ Whole(op)'
<1> USE StepFacts
<1>1. PICK kind \in Kinds, s \in Slugs, selfCatchUp \in BOOLEAN : StartOp(op, kind, s, selfCatchUp)
  BY DEF Start
<1>2. PICK step \in {"load", "distill"} : Goto(op, "start", step)
  BY <1>1 DEF StartOp
<1>3. ~Started(op) /\ entries'[op] = {"dir", "spec"}
  BY <1>1 DEF StartOp, TInv, TypeOK
<1>4. ~Distilled(op)
  BY <1>3, PathFacts DEF Started, Distilled
<1>5. \A q \in Roles : pc[op][q] = "idle"
  BY <1>3, <1>4 DEF TInv, StartsFit
<1>6. \A q \in Roles : pc'[op][q] \in {"idle", step}
  BY <1>2, <1>5, GotoType DEF TInv
<1> QED  BY <1>3, <1>6 DEF ClaimHolds, Whole

\* Processes that neither finish nor tear down come and go.
LEMMA PlainKeepsTear ==
  ASSUME NEW op \in Ops, ClaimHolds(op), ~Closed(op),
         \A q \in Roles : pc'[op][q] \in {pc[op][q], "idle", "detach", "poll", "load"},
         UNCHANGED <<path, entries, launched, linked>>
  PROVE  /\ ClaimHolds(op)'
         /\ /\ Whole(op)
            /\ \A q \in Roles : Finishing(op, q) => pc'[op][q] = pc[op][q]
            => Whole(op)'
<1> USE StepFacts
<1>1. Busy(op)' => Busy(op)
  BY DEF Busy, Finishing
<1>2. ClaimHolds(op)'
  BY <1>1 DEF ClaimHolds
<1>3. ASSUME Whole(op), \A q \in Roles : Finishing(op, q) => pc'[op][q] = pc[op][q]
      PROVE  Whole(op)'
  <2>1. ASSUME Busy(op) PROVE Busy(op)'
    <3>1. PICK q \in Roles : Finishing(op, q)
      BY <2>1 DEF Busy
    <3>2. Finishing(op, q)'
      BY <1>3, <3>1 DEF Finishing
    <3> QED  BY <3>2 DEF Busy
  <2>2. Started(op)' => "dir" \in entries'[op]
    BY <1>3 DEF Whole, Started
  <2> QED  BY <1>3, <2>1, <2>2 DEF Whole, Complete
<1> QED  BY <1>2, <1>3

LEMMA SpawnKeepsTear ==
  ASSUME TInv, NEW op \in Ops, ClaimHolds(op), SpawnDistiller(op) \/ DetachWatch(op)
  PROVE  ClaimHolds(op)' /\ (Whole(op) => Whole(op)')
<1> USE StepFacts
<1>1. UNCHANGED <<path, entries, launched, linked>> /\ pc[op]["start"] \in {"distill", "detach"}
  BY DEF SpawnDistiller, DetachWatch, disk
<1>2. ~Closed(op)
  BY <1>1 DEF Closed
<1>3. pc[op]["watch"] = "idle"
  BY <1>1 DEF TInv, StartsFit
<1>4. /\ pc'[op]["start"] \in {"detach", "idle"} /\ pc'[op]["watch"] \in {pc[op]["watch"], "poll"}
      /\ pc'[op]["tool"] = pc[op]["tool"]
  <2>1. CASE SpawnDistiller(op)
    <3>1. Goto(op, "start", "detach")
      BY <2>1 DEF SpawnDistiller
    <3> QED  BY <3>1, GotoType DEF TInv
  <2>2. CASE DetachWatch(op)
    BY <2>2 DEF DetachWatch, TInv, TypeOK
  <2> QED  BY <2>1, <2>2
<1>5. \A q \in Roles : Finishing(op, q) => q = "tool"
  BY <1>1, <1>3 DEF Finishing
<1> QED  BY <1>1, <1>2, <1>4, <1>5, PlainKeepsTear

LEMMA WorldKeepsTear ==
  ASSUME TInv, NEW op \in Ops, OnceInv(op), ClaimHolds(op), World(op), ~ToolsSurvive
  PROVE  ClaimHolds(op)' /\ (Whole(op) /\ ~DiesInFinish /\ NoFault' => Whole(op)')
<1> USE StepFacts
<1>1. CASE WriteBrief(op)
  <2>1. /\ UNCHANGED <<pc, path, entries, launched, linked>> /\ Running(op)
    BY <1>1 DEF WriteBrief, Running, TInv, TypeOK
  <2>2. ~Closed(op)
    BY <2>1 DEF Closed
  <2> QED  BY <2>1, <2>2, PlainKeepsTear
<1>2. CASE StartTool(op)
  <2>1. /\ Goto(op, "tool", "load") /\ Running(op) /\ pc[op]["tool"] = "idle"
        /\ UNCHANGED <<path, entries, launched, linked>>
    BY <1>2 DEF StartTool, disk
  <2>2. pc'[op]["tool"] = "load" /\ \A q \in Roles \ {"tool"} : pc'[op][q] = pc[op][q]
    BY <2>1, GotoType DEF TInv
  <2>3. ~Closed(op) /\ ~Finishing(op, "tool")
    BY <2>1 DEF Closed, Finishing
  <2> QED  BY <2>1, <2>2, <2>3, PlainKeepsTear
<1>3. CASE DistillerDies(op)
  <2>1. /\ DistillerEnds(op, pc[op]["watch"]) /\ UNCHANGED <<path, entries, launched, linked>>
        /\ ~DiesInFinish => ~Finishing(op, "tool")
    BY <1>3 DEF DistillerDies, disk
  <2>2. pc[op]["watch"] \in Steps
    BY DEF TInv, TypeOK
  <2> QED  BY <2>1, <2>2, EndsKeepTear
<1>4. CASE Expire(op)
  BY <1>4, TearFrame DEF Expire, disk
<1>5. ASSUME NEW r \in Roles, Crash(op, r)
      PROVE  ClaimHolds(op)' /\ ~NoFault'
  <2>1. pc[op][r] # "idle" /\ Goto(op, r, "idle") /\ UNCHANGED <<entries, launched, path, distiller>>
    BY <1>5 DEF Crash, disk
  <2>2. ClaimHolds(op)'
    BY <2>1, MoveKeepsTear
  <2>3. ~NoFault'
    BY <1>5, ChatOpsAssumption DEF Crash, NoFault, TInv, TypeOK
  <2> QED  BY <2>2, <2>3
<1> QED  BY <1>1, <1>2, <1>3, <1>4, <1>5 DEF World

----------------------------------------------------------------------------
(* All steps.                                                               *)

LEMMA OwnKeepsTear ==
  ASSUME CInv, Prompt, ~ToolsSurvive, NEW op \in Ops, Start(op) \/ Step(op) \/ World(op)
  PROVE  ClaimHolds(op)' /\ (Whole(op) /\ source /\ ~DiesInFinish /\ NoFault' => Whole(op)')
<1>1. TInv /\ OnceInv(op) /\ ClaimHolds(op)
  BY DEF CInv, EInv
<1> QED  BY <1>1, StartKeepsTear, SpawnKeepsTear, WatchKeepsTear, FinishKeepsTear,
            CleanupKeepsTear, WorldKeepsTear DEF Step

LEMMA OthersLinked ==
  ASSUME TInv, NEW op \in Ops, Start(op) \/ Step(op) \/ World(op), NEW o \in Ops, o # op
  PROVE  linked'[o] = linked[o]
BY DEF Start, StartOp, Step, SpawnDistiller, DetachWatch, Watch, PollEnds, GraceEnds, Ensure,
       AwaitEnds, KillDistiller, Finish, LoadSpec, CheckDone, Claim, LoadSource, Launch, Link,
       WriteDone, Cleanup, ListDir, RemoveDir, RemoveEntry, World, WriteBrief, StartTool,
       DistillerDies, Expire, Crash, disk, TInv, TypeOK

\* Faults only come, and without one no step takes the source away.
LEMMA FaultsStay ==
  ASSUME TInv, [Next]_vars, NoFault'
  PROVE  NoFault /\ source' = source
<1> USE ChatOpsAssumption
<1>1. CASE RemoveSource
  BY <1>1 DEF RemoveSource, NoFault, TInv, TypeOK
<1>2. CASE UNCHANGED vars
  BY <1>2 DEF vars, NoFault
<1>3. ASSUME NEW op \in Ops, Start(op) \/ Step(op) \/ World(op)
      PROVE  NoFault /\ source' = source
  <2>1. CASE \E r \in Roles : Crash(op, r)
    BY <2>1 DEF Crash, NoFault, TInv, TypeOK
  <2>2. CASE ~\E r \in Roles : Crash(op, r)
    <3>1. UNCHANGED <<faults, source>>
      BY <1>3, <2>2 DEF Start, StartOp, Step, SpawnDistiller, DetachWatch, Watch, PollEnds,
         GraceEnds, Ensure, AwaitEnds, KillDistiller, Finish, LoadSpec, CheckDone, Claim,
         LoadSource, Launch, Link, WriteDone, Cleanup, ListDir, RemoveDir, RemoveEntry, World,
         WriteBrief, StartTool, DistillerDies, Expire, disk
    <3> QED  BY <3>1 DEF NoFault
  <2> QED  BY <2>1, <2>2
<1> QED  BY <1>1, <1>2, <1>3 DEF Next

LEMMA CInvNext == CInv /\ [Next]_vars /\ Prompt /\ ~ToolsSurvive => CInv'
<1> SUFFICES ASSUME CInv, [Next]_vars, Prompt, ~ToolsSurvive PROVE CInv'
  OBVIOUS
<1>1. EInv'
  BY EInvNext DEF CInv
<1>2. ASSUME NEW op \in Ops, Start(op) \/ Step(op) \/ World(op), NEW o \in Ops
      PROVE  ClaimHolds(o)'
  <2>1. CASE o # op
    <3>1. TInv /\ ClaimHolds(o)
      BY DEF CInv, EInv
    <3> QED  BY <1>2, <2>1, <3>1, OthersKept, OthersLinked, TearFrame
  <2> QED  BY <1>2, <2>1, OwnKeepsTear
<1>3. CASE RemoveSource \/ UNCHANGED vars
  <2>1. UNCHANGED <<pc, path, distiller, entries, launched, linked>>
    BY <1>3 DEF RemoveSource, vars, disk
  <2> QED  BY <1>1, <2>1, TearFrame DEF CInv
<1> QED  BY <1>1, <1>2, <1>3 DEF Next, CInv

LEMMA TearInvNext ==
  TearInv /\ [Next]_vars /\ Prompt /\ ~ToolsSurvive /\ ~DiesInFinish => TearInv'
<1> SUFFICES ASSUME TearInv, [Next]_vars, Prompt, ~ToolsSurvive, ~DiesInFinish PROVE TearInv'
  OBVIOUS
<1>1. CInv'
  BY CInvNext DEF TearInv
<1>2. SUFFICES ASSUME NoFault' PROVE source' /\ \A o \in Ops : Whole(o)'
  BY <1>1 DEF TearInv
<1>3. TInv
  BY DEF TearInv, CInv, EInv
<1>4. NoFault /\ source' = source
  BY <1>2, <1>3, FaultsStay
<1>5. source /\ \A o \in Ops : Whole(o)
  BY <1>4 DEF TearInv
<1>6. ASSUME NEW op \in Ops, Start(op) \/ Step(op) \/ World(op), NEW o \in Ops
      PROVE  Whole(o)'
  <2>1. CASE o # op
    BY <1>3, <1>5, <1>6, <2>1, OthersKept, OthersLinked, TearFrame
  <2> QED  BY <1>2, <1>5, <1>6, <2>1, OwnKeepsTear DEF TearInv
<1>7. CASE RemoveSource \/ UNCHANGED vars
  <2>1. UNCHANGED <<pc, path, distiller, entries, launched, linked>>
    BY <1>7 DEF RemoveSource, vars, disk
  <2> QED  BY <1>4, <1>5, <2>1, TearFrame
<1> QED  BY <1>4, <1>5, <1>6, <1>7 DEF Next

\* Where a finish ends within the watchdog's wait, and with the session of the
\* agent that runs it, no teardown kills a distiller that holds the claim:
\* processes may die, and the source vanish, at any step.
THEOREM FinisherIsSpared ==
  ASSUME Prompt, ~ToolsSurvive
  PROVE  Spec => NeverKillsFinisher
<1>1. ASSUME CInv, NEW op \in Ops, pc[op]["watch"] = "kill"
      PROVE  ~Finishing(op, "tool")
  BY <1>1, StepFacts DEF CInv, ClaimHolds, Busy
<1>2. CInv /\ [Next]_vars =>
        [\A op \in Ops : (pc[op]["watch"] = "kill" /\ pc'[op]["watch"] # "kill")
            => ~(Running(op) /\ Finishing(op, "tool"))]_vars
  BY <1>1
<1>3. Init => CInv
  BY InitTear DEF TearInv
<1>4. CInv /\ [Next]_vars => CInv'
  BY CInvNext
<1> QED  BY <1>2, <1>3, <1>4, PTL DEF Spec, NeverKillsFinisher

\* Where a distiller does not die in the middle of its finish either, what is
\* torn down without a fault was completed: one continuation, its chat
\* recorded, and no distiller left.
THEOREM TeardownIsWhole ==
  ASSUME Prompt, ~ToolsSurvive, ~DiesInFinish
  PROVE  Spec => []TornDownWhole
<1>1. TearInv => TornDownWhole
  <2>1. ASSUME TearInv, NEW op \in Ops, NoFault, TornDown(op)
        PROVE  launched[op] = 1 /\ linked[op] /\ ~Running(op)
    <3>1. Whole(op) /\ OnceInv(op)
      BY <2>1 DEF TearInv, CInv, EInv
    <3>2. Closed(op) /\ Complete(op)
      BY <2>1, <3>1, StepFacts DEF TornDown, Whole, OnceInv
    <3> QED  BY <3>2 DEF Closed, Complete
  <2> QED  BY <2>1 DEF TornDownWhole
<1>2. TearInv /\ [Next]_vars => TearInv'
  BY TearInvNext
<1>3. Spec => []TearInv
  BY <1>2, InitTear, PTL DEF Spec
<1> QED  BY <1>1, <1>3, PTL

-----------------------------------------------------------------------------
(* No distiller is cut off early.                                           *)

\* Operations that do not share an artifact path.  Two handovers of one task
\* do, unless the first has left no brief behind.
PathsNotShared == FreshPaths \/ \A o1, o2 \in Ops : o1 = o2

PathsApart == \A o1, o2 \in Ops : Distilled(o1) /\ path[o1] = path[o2] => o1 = o2

\* What lets the watchdog leave its poll, and stays once it is there.
Due(op) == "done" \in entries[op] \/ expired[op] \/ brief[path[op]] = op

\* A brief of an operation's own was saved by its distiller, which is then no
\* longer at it; past its poll, the watchdog has something to go by.
Early(op) ==
    /\ pc[op]["tool"] \notin {"list", "remove"}
    /\ pc[op]["start"] = "distill" => distiller[op] = "none"
    /\ Distilled(op) /\ brief[path[op]] = op => distiller[op] \in {"written", "dead"}
    /\ pc[op]["watch"] \in {"grace", "ensure"} => Due(op)

EarlyInv == TInv /\ PathsApart /\ \A op \in Ops : Early(op)

LEMMA EarlyInit == Init => EarlyInv
<1> SUFFICES ASSUME Init PROVE EarlyInv
  OBVIOUS
<1>1. \A op \in Ops : ~Distilled(op)
  BY PathFacts DEF Init, Distilled
<1>2. PathsApart /\ \A op \in Ops : Early(op)
  BY <1>1, StepFacts DEF Init, PathsApart, Early
<1> QED
  BY <1>2, TInvInit DEF EarlyInv

\* What another operation does, as long as it writes no brief at this path.
LEMMA EarlyFrame ==
    ASSUME TInv, NEW o \in Ops, Early(o),
           pc'[o] = pc[o], path'[o] = path[o], distiller'[o] = distiller[o],
           entries'[o] = entries[o], expired'[o] = expired[o],
           Distilled(o) => brief'[path[o]] = brief[path[o]]
    PROVE  Early(o)'
<1>1. pc[o]["watch"] \in {"grace", "ensure"} => Distilled(o)
  BY DEF TInv, StartsFit
<1> QED
  BY <1>1 DEF Early, Due, Distilled

\* A process goes on; the watchdog leaves its poll only when it may.
LEMMA MoveKeepsEarly ==
    ASSUME TInv, NEW op \in Ops, NEW r \in Roles, NEW step \in Steps, Early(op),
           Goto(op, r, step), step # "distill",
           r = "tool" => step \notin {"list", "remove"},
           r = "watch" /\ step \in {"grace", "ensure"} => Due(op),
           UNCHANGED <<path, distiller, brief, expired>>,
           "done" \in entries[op] => "done" \in entries'[op]
    PROVE  Early(op)'
<1>1. pc'[op][r] = step /\ \A q \in Roles \ {r} : pc'[op][q] = pc[op][q]
  BY GotoType DEF TInv
<1>2. Due(op) => Due(op)'
  BY DEF Due
<1> QED
  BY <1>1, <1>2, StepFacts DEF Early, Distilled

LEMMA StartKeepsEarly ==
    ASSUME EarlyInv, NEW op \in Ops, Start(op)
    PROVE  Early(op)'
<1> USE StepFacts
<1>1. PICK kind \in Kinds, s \in Slugs, selfCatchUp \in BOOLEAN : StartOp(op, kind, s, selfCatchUp)
  BY DEF Start
<1>2. PICK step \in {"load", "distill"} : Goto(op, "start", step)
  BY <1>1 DEF StartOp
<1>3. ~Started(op) /\ ~Distilled(op) /\ UNCHANGED <<brief, distiller>>
  BY <1>1, PathFacts DEF StartOp, Started, Distilled
<1>4. \A q \in Roles : pc[op][q] = "idle"
  BY <1>3 DEF EarlyInv, TInv, StartsFit
<1>5. distiller[op] = "none"
  BY <1>3 DEF EarlyInv, TInv, DistillersFit
<1>6. \A p \in Paths : brief'[p] # op
  <2>1. ASSUME NEW p \in Paths, brief[p] = op PROVE FALSE
    BY <1>3, <2>1, ChatOpsAssumption DEF EarlyInv, TInv, BriefsOwned, Distilled
  <2> QED
    BY <1>3, <2>1
<1>7. pc'[op]["start"] = step /\ \A q \in {"tool", "watch"} : pc'[op][q] = "idle"
  BY <1>2, <1>4, GotoType DEF EarlyInv, TInv
<1> QED
  BY <1>3, <1>5, <1>6, <1>7 DEF Early, Distilled

LEMMA SpawnKeepsEarly ==
    ASSUME TInv, NEW op \in Ops, Early(op), SpawnDistiller(op) \/ DetachWatch(op)
    PROVE  Early(op)'
<1> USE StepFacts
<1>1. CASE SpawnDistiller(op)
  <2>1. /\ Goto(op, "start", "detach") /\ UNCHANGED <<path, brief>>
        /\ distiller[op] = "none" /\ distiller'[op] = "working"
    BY <1>1 DEF SpawnDistiller, disk, Early, TInv, TypeOK
  <2>2. pc'[op]["start"] = "detach" /\ \A q \in {"tool", "watch"} : pc'[op][q] = pc[op][q]
    BY <2>1, GotoType DEF TInv
  <2>3. pc[op]["watch"] = "idle"
    BY <1>1 DEF SpawnDistiller, TInv, StartsFit
  <2> QED
    BY <2>1, <2>2, <2>3 DEF Early, Distilled
<1>2. CASE DetachWatch(op)
  <2>1. /\ pc'[op]["start"] = "idle" /\ pc'[op]["watch"] = "poll"
        /\ pc'[op]["tool"] = pc[op]["tool"]
        /\ UNCHANGED <<path, brief, distiller>>
    BY <1>2 DEF DetachWatch, disk, TInv, TypeOK
  <2> QED
    BY <2>1 DEF Early, Distilled
<1> QED
  BY <1>1, <1>2

\* The session of a distiller ends, and with it maybe the finish it runs.
LEMMA EndsKeepEarly ==
    ASSUME TInv, NEW op \in Ops, NEW step \in Steps, Early(op), DistillerEnds(op, step),
           step = pc[op]["watch"] \/ step = "list",
           pc[op]["start"] = "distill" => distiller[op] # "none",
           UNCHANGED <<path, brief, entries, expired>>
    PROVE  Early(op)'
<1>1. /\ pc'[op]["watch"] = step /\ pc'[op]["start"] = pc[op]["start"]
      /\ distiller'[op] = "dead"
  BY DistillerEndsType DEF TInv
<1>2. pc'[op]["tool"] \in {"idle", pc[op]["tool"]}
  BY StepFacts DEF DistillerEnds, TInv, TypeOK
<1> QED
  BY <1>1, <1>2 DEF Early, Due, Distilled

LEMMA WatchKeepsEarly ==
    ASSUME TInv, PathsApart, NEW op \in Ops, Early(op), Watch(op)
    PROVE  Early(op)'
<1> USE StepFacts
<1>1. CASE PollEnds(op)
  <2>1. Distilled(op) /\ brief[path[op]] \in Ops \cup {None}
    BY <1>1 DEF PollEnds, TInv, TypeOK, StartsFit, Distilled
  <2>2. brief[path[op]] # None => brief[path[op]] = op
    BY <2>1 DEF TInv, BriefsOwned, PathsApart, Distilled
  <2>3. Due(op)
    BY <1>1, <2>2 DEF PollEnds, PollOver, BriefLanded, Due
  <2> QED
    BY <1>1, <2>3, MoveKeepsEarly DEF PollEnds, disk
<1>2. CASE GraceEnds(op)
  BY <1>2, MoveKeepsEarly DEF GraceEnds, disk, Early
<1>3. CASE Ensure(op)
  <2>1. PICK step \in {"load", "await"} : Goto(op, "watch", step)
    BY <1>3 DEF Ensure
  <2> QED
    BY <1>3, <2>1, MoveKeepsEarly DEF Ensure, disk
<1>4. CASE AwaitEnds(op)
  BY <1>4, MoveKeepsEarly DEF AwaitEnds, disk
<1>5. CASE KillDistiller(op)
  <2>1. pc[op]["start"] # "distill"
    BY <1>5 DEF KillDistiller, TInv, StartsFit
  <2> QED
    BY <1>5, <2>1, EndsKeepEarly DEF KillDistiller, disk
<1> QED
  BY <1>1, <1>2, <1>3, <1>4, <1>5 DEF Watch

LEMMA FinishKeepsEarly ==
    ASSUME TInv, NEW op \in Ops, NEW r \in Roles, Early(op), Finish(op, r)
    PROVE  Early(op)'
<1> USE StepFacts
<1>1. UNCHANGED <<path, distiller, brief, expired>>
  BY FinishStep
<1>2. "done" \in entries[op] => "done" \in entries'[op]
  BY FinishStep DEF TInv, TypeOK
<1>3. PICK step \in (FinishSteps \cup {"idle", "await", "list"}) : Goto(op, r, step)
  BY DEF Finish, LoadSpec, CheckDone, Claim, LoadSource, Launch, Link, WriteDone, Returned,
         FinishSteps
<1>4. r = "tool" => Distilled(op)
  BY FinishStep DEF TInv, StartsFit, FinishSteps
<1>5. CASE step # "list" \/ r # "tool"
  BY <1>1, <1>2, <1>3, <1>5, MoveKeepsEarly DEF FinishSteps
<1>6. CASE step = "list" /\ r = "tool"
  <2>1. PICK other \in (FinishSteps \cup {"idle"}) : Goto(op, r, other)
    BY <1>4, <1>6 DEF Finish, LoadSpec, CheckDone, Claim, LoadSource, Launch, Link, WriteDone,
                      Returned, CleansUp, FinishSteps
  <2> QED
    BY <1>1, <1>2, <2>1, MoveKeepsEarly DEF FinishSteps
<1> QED
  BY <1>5, <1>6

\* A teardown removes done, when the watchdog has no more use for it.
LEMMA CleanupKeepsEarly ==
    ASSUME TInv, NEW op \in Ops, NEW r \in Roles, Early(op), Cleanup(op, r)
    PROVE  Early(op)'
<1> USE StepFacts
<1>1. pc[op][r] \in {"list", "remove"} /\ UNCHANGED <<path, distiller, brief, expired>>
  BY DEF Cleanup, ListDir, RemoveDir, RemoveEntry, disk
<1>2. pc[op]["watch"] \notin {"grace", "ensure"}
  BY <1>1 DEF Early, TInv, StartsFit
<1>3. CASE pc' = pc
  BY <1>1, <1>2, <1>3 DEF Early, Distilled
<1>4. ASSUME NEW step \in {"remove", "idle"}, Goto(op, r, step)
      PROVE  Early(op)'
  <2>1. pc'[op][r] = step /\ \A q \in Roles \ {r} : pc'[op][q] = pc[op][q]
    BY <1>4, GotoType DEF TInv
  <2> QED
    BY <1>1, <1>2, <2>1 DEF Early, Distilled
<1> QED
  BY <1>3, <1>4 DEF Cleanup, ListDir, RemoveDir, RemoveEntry

LEMMA WorldKeepsEarly ==
    ASSUME TInv, NEW op \in Ops, Early(op), World(op)
    PROVE  Early(op)'
<1> USE StepFacts
<1>1. CASE WriteBrief(op)
  <2>1. /\ Distilled(op) /\ UNCHANGED <<path, pc>> /\ distiller'[op] = "written"
        /\ brief'[path[op]] = op
    BY <1>1 DEF WriteBrief, TInv, TypeOK, DistillersFit, Distilled
  <2>2. pc[op]["start"] # "distill"
    BY <1>1 DEF WriteBrief, Early
  <2> QED
    BY <2>1, <2>2 DEF Early, Due, Distilled
<1>2. CASE StartTool(op)
  BY <1>2, MoveKeepsEarly DEF StartTool, disk
<1>3. CASE DistillerDies(op)
  <2>1. pc[op]["watch"] \in Steps /\ distiller[op] # "none"
    BY <1>3 DEF DistillerDies, Running, TInv, TypeOK
  <2> QED
    BY <1>3, <2>1, EndsKeepEarly DEF DistillerDies, disk
<1>4. CASE Expire(op)
  BY <1>4 DEF Expire, disk, Early, Distilled
<1>5. ASSUME NEW r \in Roles, Crash(op, r)
      PROVE  Early(op)'
  BY <1>5, MoveKeepsEarly DEF Crash, disk
<1> QED
  BY <1>1, <1>2, <1>3, <1>4, <1>5 DEF World

\* Only a start gives an operation its path.
LEMMA ApartKept ==
    ASSUME EarlyInv, PathsNotShared, NEW op \in Ops, Start(op) \/ Step(op) \/ World(op)
    PROVE  PathsApart'
<1>1. CASE Start(op)
  <2>1. PICK kind \in Kinds, s \in Slugs, selfCatchUp \in BOOLEAN :
           StartOp(op, kind, s, selfCatchUp)
    BY <1>1 DEF Start
  <2> DEFINE p == IF selfCatchUp THEN <<kind, None>> ELSE ArtifactPath(kind, s)
  <2>2. /\ path' = [path EXCEPT ![op] = p] /\ path \in [Ops -> Paths \cup SelfPaths \cup {NoPath}]
        /\ FreshPaths /\ ~selfCatchUp => \A o \in Ops : path[o] # p
    BY <2>1 DEF StartOp, EarlyInv, TInv, TypeOK
  <2>3. selfCatchUp => p \notin Paths
    BY PathFacts
  <2> HIDE DEF p
  <2> QED
    BY <2>2, <2>3 DEF EarlyInv, PathsApart, PathsNotShared, Distilled
<1>2. CASE Step(op) \/ World(op)
  <2>1. UNCHANGED path
    BY <1>2, FinishStep DEF Step, SpawnDistiller, DetachWatch, Watch, PollEnds, GraceEnds,
       Ensure, AwaitEnds, KillDistiller, Cleanup, ListDir, RemoveDir, RemoveEntry, World,
       WriteBrief, StartTool, DistillerDies, Expire, Crash
  <2> QED
    BY <2>1 DEF EarlyInv, PathsApart, Distilled
<1> QED
  BY <1>1, <1>2

\* One operation writes no brief where another's is expected.
LEMMA OthersEarly ==
    ASSUME EarlyInv, NEW op \in Ops, Start(op) \/ Step(op) \/ World(op), NEW o \in Ops, o # op
    PROVE  Early(o)'
<1>1. TInv /\ Early(o)
  BY DEF EarlyInv
<1>2. /\ pc'[o] = pc[o] /\ path'[o] = path[o] /\ distiller'[o] = distiller[o]
      /\ entries'[o] = entries[o]
  BY <1>1, OthersKept
<1>3. expired'[o] = expired[o]
  BY <1>1, FinishStep DEF Start, StartOp, Step, SpawnDistiller, DetachWatch, Watch, PollEnds,
     GraceEnds, Ensure, AwaitEnds, KillDistiller, Cleanup, ListDir, RemoveDir, RemoveEntry,
     World, WriteBrief, StartTool, DistillerDies, Expire, Crash, TInv, TypeOK
<1>4. brief' = brief \/ (WriteBrief(op) /\ brief' = [brief EXCEPT ![path[op]] = op])
  BY FinishStep DEF Start, StartOp, Step, SpawnDistiller, DetachWatch, Watch, PollEnds,
     GraceEnds, Ensure, AwaitEnds, KillDistiller, Cleanup, ListDir, RemoveDir, RemoveEntry,
     World, WriteBrief, StartTool, DistillerDies, Expire, Crash, disk
<1>5. Distilled(o) => path[o] # path[op]
  BY DEF EarlyInv, PathsApart
<1>6. Distilled(o) => brief'[path[o]] = brief[path[o]]
  BY <1>1, <1>4, <1>5 DEF TInv, TypeOK, Distilled
<1> QED
  BY <1>1, <1>2, <1>3, <1>6, EarlyFrame

LEMMA EarlyNext == EarlyInv /\ [Next]_vars /\ PathsNotShared => EarlyInv'
<1> SUFFICES ASSUME EarlyInv, [Next]_vars, PathsNotShared PROVE EarlyInv'
  OBVIOUS
<1>1. TInv'
  BY TInvNext DEF EarlyInv
<1>2. ASSUME NEW op \in Ops, Start(op) \/ Step(op) \/ World(op), NEW o \in Ops
      PROVE  Early(o)'
  <2>1. CASE o # op
    BY <1>2, <2>1, OthersEarly
  <2>2. CASE o = op
    <3>1. TInv /\ PathsApart /\ Early(op)
      BY DEF EarlyInv
    <3> QED
      BY <1>2, <2>2, <3>1, StartKeepsEarly, SpawnKeepsEarly, WatchKeepsEarly,
         FinishKeepsEarly, CleanupKeepsEarly, WorldKeepsEarly DEF Step
  <2> QED
    BY <2>1, <2>2
<1>3. ASSUME RemoveSource \/ UNCHANGED vars
      PROVE  PathsApart' /\ \A o \in Ops : Early(o)'
  <2>1. UNCHANGED <<pc, path, distiller, entries, expired, brief>>
    BY <1>3 DEF RemoveSource, vars, disk
  <2> QED
    BY <2>1, EarlyFrame DEF EarlyInv, PathsApart, Distilled
<1> QED
  BY <1>1, <1>2, <1>3, ApartKept DEF Next, EarlyInv

\* Of the steps of the system, only its own decision sends a watchdog from
\* the grace window into the finish, and it finds no done then.
LEMMA OnlyEnsure ==
    ASSUME TInv, [Next]_vars, NEW op \in Ops,
           pc[op]["watch"] = "ensure", pc'[op]["watch"] = "load"
    PROVE  "done" \notin entries[op]
<1> USE StepFacts
<1>1. CASE RemoveSource \/ UNCHANGED vars
  BY <1>1 DEF RemoveSource, vars
<1>2. ASSUME NEW o \in Ops, Start(o) \/ Step(o) \/ World(o), o # op
      PROVE  FALSE
  BY <1>2, OthersKept
<1>3. ASSUME Goto(op, "start", "load") \/ (\E r \in {"start", "tool"}, s \in Steps : Goto(op, r, s))
      PROVE  FALSE
  BY <1>3, GotoType DEF TInv
<1>4. CASE Start(op)
  BY <1>3, <1>4 DEF Start, StartOp
<1>5. CASE SpawnDistiller(op) \/ DetachWatch(op)
  BY <1>5 DEF SpawnDistiller, DetachWatch, TInv, StartsFit
<1>6. CASE Watch(op)
  <2>1. Ensure(op)
    BY <1>6 DEF Watch, PollEnds, GraceEnds, AwaitEnds, KillDistiller
  <2>2. ASSUME "done" \in entries[op] PROVE FALSE
    <3>1. Goto(op, "watch", "await")
      BY <2>1, <2>2 DEF Ensure, NeedsFinish
    <3> QED
      BY <3>1, GotoType DEF TInv
  <2> QED
    BY <2>2
<1>7. ASSUME NEW r \in Roles, Finish(op, r)
      PROVE  FALSE
  <2>1. r # "watch"
    BY <1>7, FinishStep DEF FinishSteps
  <2> QED
    BY <1>3, <1>7, <2>1, FinishStep
<1>8. ASSUME NEW r \in Roles, Cleanup(op, r)
      PROVE  FALSE
  <2>1. r # "watch" /\ (pc' = pc \/ \E s \in Steps : Goto(op, r, s))
    BY <1>8 DEF Cleanup, ListDir, RemoveDir, RemoveEntry
  <2> QED
    BY <1>3, <2>1
<1>9. CASE World(op)
  <2>1. CASE DistillerDies(op)
    BY <2>1, DistillerEndsType DEF DistillerDies, TInv, TypeOK
  <2>2. CASE StartTool(op)
    BY <1>3, <2>2 DEF StartTool
  <2>3. CASE WriteBrief(op) \/ Expire(op)
    BY <2>3 DEF WriteBrief, Expire
  <2>4. ASSUME NEW r \in Roles, Crash(op, r)
        PROVE  FALSE
    BY <2>4, GotoType DEF Crash, TInv
  <2> QED
    BY <1>9, <2>1, <2>2, <2>3, <2>4 DEF World
<1> QED
  BY <1>1, <1>2, <1>4, <1>5, <1>6, <1>7, <1>8, <1>9 DEF Next, Step

\* The watchdog never finishes over the head of a distiller that is still at
\* its brief before the deadline, whatever dies, if operations do not share
\* the path of a brief (chat_op_watch: "a slow opus distiller is never cut off
\* early").
THEOREM SlowDistillersAreSpared ==
    ASSUME PathsNotShared
    PROVE  Spec => NeverCutOffEarly
<1>1. ASSUME EarlyInv, [Next]_vars, NEW op \in Ops,
             pc[op]["watch"] = "ensure", pc'[op]["watch"] = "load"
      PROVE  distiller[op] # "working" \/ expired[op]
  <2>1. TInv /\ Early(op) /\ Distilled(op)
    BY <1>1 DEF EarlyInv, TInv, StartsFit
  <2>2. Due(op) /\ "done" \notin entries[op]
    BY <1>1, <2>1, OnlyEnsure DEF Early
  <2> QED
    BY <2>1, <2>2 DEF Early, Due
<1>2. EarlyInv /\ [Next]_vars =>
        [\A op \in Ops :
            (pc[op]["watch"] = "ensure" /\ pc'[op]["watch"] = "load")
                => distiller[op] # "working" \/ expired[op]]_vars
  BY <1>1
<1>3. EarlyInv /\ [Next]_vars => EarlyInv'
  BY EarlyNext
<1> QED
  BY <1>2, <1>3, EarlyInit, PTL DEF Spec, NeverCutOffEarly
=============================================================================
