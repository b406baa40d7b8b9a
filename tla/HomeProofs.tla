----------------------------- MODULE HomeProofs -----------------------------
(***************************************************************************)
(* What is proved of the components of a home and its dashboards.          *)
(***************************************************************************)
EXTENDS MCHome, Integers, NumberLemmas, FiniteSetTheorems, SequenceTheorems, TLAPS

----------------------------------------------------------------------------
(***************************************************************************)
(* One installer at a time, and one attempt per interval, for any number of *)
(* launches: the lock belongs to one open log, and whoever is past the      *)
(* claim, or runs an installer that inherited the log, has it.              *)
(***************************************************************************)

\* The steps of a launch that has found a check due.
Checking == {"truncate", "write", "popen"}

\* The lock has one owner: the launch at work, or its installer.
LockHeld ==
    /\ \A l, m \in claims : l = m
    /\ installers \subseteq claims
    /\ \A l \in Launches : launch[l] # "idle" => l \in claims

\* An installer that has been started has left a log that is written and fresh, so
\* that no launch is on its way to another before the interval has passed.
LogTells ==
    /\ checks <= 1
    /\ checks = 1 => logFresh /\ logSize = "written"
    /\ \A l \in Launches :
         /\ launch[l] \in Checking => checks = 0
         /\ launch[l] = "popen" => logFresh /\ logSize = "written"

CodexInv == UpdTypeOK /\ LockHeld /\ LogTells

----------------------------------------------------------------------------
\* The types apart from the one Boolean.
TypeButFresh ==
    /\ logSize \in {"empty", "written"}
    /\ intervals \in 0..MaxIntervals /\ checks \in Nat
    /\ claims \subseteq Launches /\ installers \subseteq Launches
    /\ launch \in [Launches -> {"idle", "due", "truncate", "write", "popen", "close"}]

LEMMA TypeParts == UpdTypeOK <=> TypeButFresh /\ logFresh \in BOOLEAN
  BY DEF UpdTypeOK, TypeButFresh

LEMMA InitCodexInv == UpdInit => CodexInv
<1> SUFFICES ASSUME UpdInit PROVE CodexInv
  OBVIOUS
<1>1. logFresh \in BOOLEAN
  BY Zenon DEF UpdInit
<1>2. TypeButFresh /\ LockHeld /\ LogTells
  BY UpdateAssumption DEF UpdInit, TypeButFresh, LockHeld, LogTells, Checking
<1> QED  BY <1>1, <1>2, TypeParts DEF CodexInv

\* A step of a launch or of its installer.
LEMMA LaunchKeepsInv ==
  ASSUME CodexInv, NEW l \in Launches,
         \/ TryClaim(l) \/ CheckDue(l) \/ Truncate(l) \/ WriteHeader(l)
         \/ StartInstaller(l) \/ Close(l) \/ InstallerEnds(l)
  PROVE  CodexInv'
<1> USE DEF LaunchAt, LaunchGoto, TypeButFresh, LockHeld, Checking
<1>a. logFresh \in BOOLEAN /\ TypeButFresh
  BY TypeParts DEF CodexInv
<1>b. logFresh' \in BOOLEAN
  BY <1>a, Zenon
  DEF TryClaim, CheckDue, Truncate, WriteHeader, StartInstaller, Close, InstallerEnds, Touched
<1>c. (TypeButFresh /\ LockHeld /\ LogTells)'
  <2>1. CASE TryClaim(l)
    BY <1>a, <2>1 DEF TryClaim, CodexInv, LogTells, Locked
  <2>2. CASE CheckDue(l)
    BY <1>a, <2>2 DEF CheckDue, CodexInv, LogTells, Due
  <2>3. CASE Truncate(l)
    BY <1>a, <2>3 DEF Truncate, CodexInv, LogTells, Touched
  <2>4. CASE WriteHeader(l)
    BY <1>a, <2>4 DEF WriteHeader, CodexInv, LogTells, Touched
  <2>5. CASE StartInstaller(l)
    <3>1. l \in claims /\ launch[l] = "popen" /\ checks = 0 /\ logFresh /\ logSize = "written"
      BY <2>5 DEF StartInstaller, CodexInv, LogTells
    <3>2. logFresh' /\ checks' \in {0, 1}
      <4>1. logFresh'
        BY <2>5, <3>1, Zenon DEF StartInstaller, Touched
      <4>2. checks' \in {checks, checks + 1}
        BY <2>5, Zenon DEF StartInstaller
      <4> QED  BY <3>1, <4>1, <4>2
    <3>3. /\ installers' \in {installers, installers \cup {l}}
          /\ UNCHANGED <<logSize, intervals, claims>>
          /\ launch' = [launch EXCEPT ![l] = "close"]
      BY <2>5 DEF StartInstaller
    <3>4. \A m \in Launches : launch'[m] \notin Checking
      BY <1>a, <3>1, <3>3 DEF CodexInv
    <3> QED  BY <1>a, <3>1, <3>2, <3>3, <3>4 DEF CodexInv, LogTells
  <2>6. CASE Close(l)
    BY <1>a, <2>6 DEF Close, CodexInv, LogTells, Released
  <2>7. CASE InstallerEnds(l)
    <3>1. logFresh => logFresh'
      BY <2>7 DEF InstallerEnds, Touched
    <3>2. /\ l \in installers /\ installers' = installers \ {l}
          /\ claims' = IF launch[l] = "idle" THEN claims \ {l} ELSE claims
          /\ UNCHANGED <<logSize, intervals, checks, launch>>
      BY <2>7 DEF InstallerEnds, Released
    <3>3. TypeButFresh' /\ LockHeld'
      BY <1>a, <3>2 DEF CodexInv
    <3> QED  BY <1>a, <3>1, <3>2, <3>3 DEF CodexInv, LogTells
  <2> QED  BY <2>1, <2>2, <2>3, <2>4, <2>5, <2>6, <2>7
<1>d. UpdTypeOK'
  BY <1>b, <1>c DEF UpdTypeOK
<1> QED  BY <1>c, <1>d DEF CodexInv

\* Every step.
LEMMA NextKeepsInv == CodexInv /\ [UpdNext]_uVars => CodexInv'
<1> SUFFICES ASSUME CodexInv, [UpdNext]_uVars PROVE CodexInv'
  OBVIOUS
<1>1. CASE IntervalPasses
  <2>1. logFresh' \in BOOLEAN
    BY <1>1, Zenon DEF IntervalPasses
  <2>2. (TypeButFresh /\ LockHeld /\ LogTells)'
    BY <1>1, UpdateAssumption, TypeParts
    DEF IntervalPasses, CodexInv, TypeButFresh, LockHeld, LogTells, Checking
  <2>3. UpdTypeOK'
    BY <2>1, <2>2 DEF UpdTypeOK, TypeButFresh
  <2> QED  BY <2>2, <2>3 DEF CodexInv
<1>2. CASE UNCHANGED uVars
  BY <1>2 DEF uVars, CodexInv, UpdTypeOK, LockHeld, LogTells
<1>3. CASE \E l \in Launches :
             \/ TryClaim(l) \/ CheckDue(l) \/ Truncate(l) \/ WriteHeader(l)
             \/ StartInstaller(l) \/ Close(l) \/ InstallerEnds(l)
  BY <1>3, LaunchKeepsInv
<1> QED  BY <1>1, <1>2, <1>3 DEF UpdNext

\* CodexInv holds always.
LEMMA InvHolds == UpdSpec => []CodexInv
  BY InitCodexInv, NextKeepsInv, PTL DEF UpdSpec

\* However many launches start and die, two installers never run at once, and what
\* reaches npm is an interval apart (codex_update.py:4, 72-86).
THEOREM UpdatesKeepSpacing == UpdSpec => []UpdatesAreSpaced
<1>1. CodexInv => OneInstaller
  <2> SUFFICES ASSUME LockHeld PROVE Cardinality(installers) <= 1
    BY DEF CodexInv, OneInstaller
  <2>1. CASE installers = {}
    BY <2>1, FS_EmptySet
  <2>2. CASE installers # {}
    <3>1. PICK l : l \in installers
      BY <2>2
    <3>2. installers = {l}
      BY <3>1 DEF LockHeld
    <3> QED  BY <3>2, FS_Singleton
  <2> QED  BY <2>1, <2>2
<1>2. CodexInv => OneCheckPerInterval
  BY DEF CodexInv, LogTells, OneCheckPerInterval
<1>3. CodexInv => UpdatesAreSpaced
  BY <1>1, <1>2 DEF UpdatesAreSpaced
<1> QED  BY <1>3, InvHolds, PTL

----------------------------------------------------------------------------
(***************************************************************************)
(* HomeMigration.                                                           *)
(***************************************************************************)

FileState == [schema: {"old", "current", "bad", "gone"}, body: 0..MaxWrites]
MigType == [pc: {"idle", "next", "save", "probe", "mark", "unlink"},
            todo: SUBSET Files, file: Files \cup {None}, raw: 0..MaxWrites]

\* What the migration s has in hand is a view, or a record; a view that it is about
\* to unlink has its mark, unless its session has gone (live is on, marked is with).
MigSound(s, on, with) ==
    /\ s.pc = "save" => s.file \in OldRecords
    /\ s.pc \in {"probe", "mark", "unlink"} => s.file \in OldViews
    /\ s.pc = "unlink" /\ s.file \in on => s.file \in with

MigInv ==
    /\ record \in [Files -> FileState]
    /\ live \subseteq OldViews /\ marked \subseteq live
    /\ mig \in [Migrators -> MigType] /\ faults \in 0..MaxFaults
    /\ \A m \in Migrators : MigSound(mig[m], live, marked)
    /\ \A f \in Malformed : ~Pending(f)
    /\ ViewsStayViews

LEMMA MigFacts ==
  /\ NoMigration \in MigType /\ NoMigration.pc = "idle" /\ (\A on, with : MigSound(NoMigration, on, with))
  /\ OldRecords \subseteq Files /\ OldViews \subseteq Files
  /\ \A v \in OldViews : v \notin OldRecords /\ v \notin Malformed
<1>1. 0 \in 0..MaxWrites
  BY MigrationAssumption
<1>2. NoMigration \in MigType /\ NoMigration.pc = "idle"
  BY <1>1 DEF NoMigration, MigType
<1> QED  BY <1>2, MigrationAssumption DEF MigSound, Files

LEMMA InitMigInv == MigInit => MigInv
<1> SUFFICES ASSUME MigInit PROVE MigInv
  OBVIOUS
<1>1. 0 \in 0..MaxWrites /\ 0 \in 0..MaxFaults
  BY MigrationAssumption
<1>2. /\ record \in [Files -> FileState]
      /\ \A v \in OldViews : record[v].schema = "old"
      /\ \A f \in Malformed : record[f].schema = "bad"
  BY <1>1, MigFacts DEF MigInit, FileState, Files
<1>3. mig \in [Migrators -> MigType] /\ \A m \in Migrators : mig[m] = NoMigration
  BY MigFacts DEF MigInit
<1>4. live \subseteq OldViews /\ marked = {} /\ faults = 0
  BY DEF MigInit
<1>5. ViewsStayViews /\ \A f \in Malformed : ~Pending(f)
  BY <1>2, <1>4 DEF ViewsStayViews, Pending
<1>6. \A m \in Migrators : MigSound(mig[m], live, marked)
  BY <1>3, MigFacts DEF MigSound
<1> QED  BY <1>1, <1>2, <1>3, <1>4, <1>5, <1>6 DEF MigInv

\* Hooks, and views that come and go.
LEMMA AroundKeepsMigInv ==
  ASSUME MigInv,
         \/ \E f \in Files : HookWrites(f)
         \/ \E v \in OldViews : ViewCloses(v) \/ SpawnView(v)
  PROVE  MigInv'
<1>1. ASSUME NEW f \in Files, HookWrites(f) PROVE MigInv'
  <2>1. record[f] \in FileState /\ record[f].body + 1 \in 0..MaxWrites
    BY <1>1, MigrationAssumption DEF HookWrites, MigInv, FileState
  <2>2. /\ record' \in [Files -> FileState]
        /\ \A v \in Files : record'[v].schema = record[v].schema
    BY <1>1, <2>1 DEF HookWrites, MigInv, FileState
  <2>3. UNCHANGED <<live, marked, mig, faults>>
    BY <1>1 DEF HookWrites
  <2>4. ViewsStayViews' /\ \A g \in Malformed : ~Pending(g)'
    BY <2>2, <2>3, MigFacts DEF MigInv, ViewsStayViews, Pending, Files
  <2> QED  BY <2>2, <2>3, <2>4 DEF MigInv, MigSound
<1>2. ASSUME NEW v \in OldViews, ViewCloses(v) PROVE MigInv'
  <2>1. /\ live' = live \ {v} /\ marked' = marked \ {v} /\ UNCHANGED <<record, mig>>
        /\ faults' \in 0..MaxFaults
    BY <1>2, MigrationAssumption DEF ViewCloses, Fault, MigInv
  <2> QED  BY <2>1 DEF MigInv, MigSound, ViewsStayViews, Pending
<1>3. ASSUME NEW v \in OldViews, SpawnView(v) PROVE MigInv'
  BY <1>3 DEF SpawnView, MigInv, MigSound, ViewsStayViews, Pending
<1> QED  BY <1>1, <1>2, <1>3

\* A step of m, which leaves it with s, and marks or unlinks the view in hand.
LEMMA MigMoves ==
  ASSUME MigInv, NEW m \in Migrators, NEW s \in MigType, mig' = [mig EXCEPT ![m] = s],
         UNCHANGED live, faults' \in 0..MaxFaults, record' \in [Files -> FileState],
         marked \subseteq marked', marked' \subseteq live,
         \A f \in Malformed : ~Pending(f)',
         \A v \in OldViews : Pending(v) => Pending(v)' \/ (v \in live => v \in marked'),
         MigSound(s, live', marked')
  PROVE  MigInv'
<1>1. \A n \in Migrators : mig'[n] = IF n = m THEN s ELSE mig[n]
  BY DEF MigInv
<1>2. \A n \in Migrators : MigSound(mig'[n], live', marked')
  BY <1>1 DEF MigInv, MigSound
<1>3. ViewsStayViews'
  BY DEF MigInv, ViewsStayViews
<1> QED  BY <1>2, <1>3 DEF MigInv, MigSound

LEMMA MigratorKeepsMigInv ==
  ASSUME MigInv, NEW m \in Migrators, MigrationStep(m) \/ MigrationDies(m)
  PROVE  MigInv'
<1>a. /\ mig[m] \in MigType /\ MigSound(mig[m], live, marked) /\ marked \subseteq live /\ live \subseteq OldViews
      /\ record \in [Files -> FileState] /\ faults \in 0..MaxFaults
      /\ mig \in [Migrators -> MigType]
  BY DEF MigInv
<1>b. ASSUME UNCHANGED record
      PROVE  (\A v \in OldViews : Pending(v) => Pending(v)') /\ \A f \in Malformed : ~Pending(f)'
  BY <1>b DEF Pending, MigInv
<1>c. MigSound(NoMigration, live', marked')
  BY MigFacts DEF MigSound
<1>n. /\ NextFile(m) \in MigType /\ NextFile(m).pc = "next"
  <2>1. 0 \in 0..MaxWrites
    BY MigrationAssumption
  <2> QED  BY <1>a, <2>1 DEF NextFile, MigType
<1>1. CASE BeginMigration(m)
  <2> DEFINE s == [NoMigration EXCEPT !.pc = "next", !.todo = {f \in Files : record[f].schema # "gone"}]
  <2>1. s \in MigType /\ s.pc = "next"
    BY MigFacts DEF MigType
  <2>2. mig' = [mig EXCEPT ![m] = s] /\ UNCHANGED <<record, live, marked, faults>>
    BY <1>1 DEF BeginMigration
  <2> HIDE DEF s
  <2>3. MigSound(s, live', marked')
    BY <2>1 DEF MigSound
  <2> QED  BY <1>a, <1>b, <2>1, <2>2, <2>3, MigMoves
<1>2. ASSUME NEW f \in Files, Classify(m, f) PROVE MigInv'
  <2> DEFINE pc == IF ~Pending(f) THEN "next" ELSE IF f \in OldViews THEN "probe" ELSE "save"
             file == IF Pending(f) THEN f ELSE None
             raw == IF Pending(f) THEN record[f].body ELSE 0
             s == [mig[m] EXCEPT !.todo = @ \ {f}, !.pc = pc, !.file = file, !.raw = raw]
  <2>1. mig' = [mig EXCEPT ![m] = s] /\ UNCHANGED <<record, live, marked, faults>>
    BY <1>2, <1>a DEF Classify
  <2>2. raw \in 0..MaxWrites /\ file \in Files \cup {None} /\ pc \in {"next", "probe", "save"}
    BY <1>a, MigrationAssumption DEF FileState
  <2>3. pc = "probe" => file \in OldViews
    OBVIOUS
  <2>4. pc = "save" => file \in OldRecords
    <3>1. Pending(f) => f \notin Malformed
      BY DEF MigInv
    <3> QED  BY <3>1 DEF Files
  <2> HIDE DEF pc, file, raw
  <2>5. s \in MigType /\ s.pc = pc /\ s.file = file
    BY <1>a, <2>2 DEF MigType
  <2> HIDE DEF s
  <2>6. MigSound(s, live', marked')
    BY <2>2, <2>3, <2>4, <2>5 DEF MigSound
  <2> QED  BY <1>a, <1>b, <2>1, <2>5, <2>6, MigMoves
<1>3. CASE SaveUpgraded(m)
  <2> DEFINE r == [schema |-> "current", body |-> mig[m].raw]
  <2>1. /\ record' = [record EXCEPT ![mig[m].file] = r] /\ mig[m].file \in OldRecords
        /\ mig' = [mig EXCEPT ![m] = NextFile(m)] /\ UNCHANGED <<live, marked, faults>>
    BY <1>3, <1>a DEF SaveUpgraded, MigSound
  <2>2. r \in FileState
    BY <1>a DEF FileState, MigType
  <2> HIDE DEF r
  <2>3. /\ record' \in [Files -> FileState]
        /\ \A f \in OldViews \cup Malformed : record'[f] = record[f]
    BY <1>a, <2>1, <2>2, MigFacts, MigrationAssumption DEF Files
  <2>4. MigSound(NextFile(m), live', marked')
    BY <1>n DEF MigSound
  <2>5. (\A v \in OldViews : Pending(v) => Pending(v)') /\ \A f \in Malformed : ~Pending(f)'
    BY <2>3 DEF Pending, MigInv
  <2> QED  BY <1>a, <1>n, <2>1, <2>3, <2>4, <2>5, MigMoves
<1>4. CASE ProbeView(m)
  <2> DEFINE pc == IF mig[m].file \in live THEN "mark" ELSE "unlink"
             s == [mig[m] EXCEPT !.pc = pc]
  <2>1. mig' = [mig EXCEPT ![m] = s] /\ UNCHANGED <<record, live, marked, faults>>
    BY <1>4 DEF ProbeView
  <2>2. s \in MigType /\ s.pc = pc /\ s.file = mig[m].file
    BY <1>a DEF MigType
  <2>3. MigSound(s, live', marked')
    BY <1>4, <1>a, <2>1, <2>2 DEF MigSound, ProbeView
  <2> QED  BY <1>a, <1>b, <2>1, <2>2, <2>3, MigMoves
<1>5. CASE MarkView(m)
  <2>1. CASE mig[m].file \in live
    <3> DEFINE s == [mig[m] EXCEPT !.pc = "unlink"]
    <3>1. /\ mig' = [mig EXCEPT ![m] = s] /\ UNCHANGED <<record, live, faults>>
          /\ marked' = marked \cup {mig[m].file}
      BY <1>5, <2>1 DEF MarkView
    <3>2. s \in MigType /\ s.pc = "unlink" /\ s.file = mig[m].file
      BY <1>a DEF MigType
    <3> HIDE DEF s
    <3>3. MigSound(s, live', marked')
      BY <1>5, <1>a, <3>1, <3>2 DEF MigSound, MarkView
    <3> QED  BY <1>a, <1>b, <2>1, <3>1, <3>2, <3>3, MigMoves
  <2>2. CASE mig[m].file \notin live
    <3>1. mig' = [mig EXCEPT ![m] = NoMigration] /\ UNCHANGED <<record, live, marked, faults>>
      BY <1>5, <2>2 DEF MarkView
    <3> QED  BY <1>a, <1>b, <1>c, <3>1, MigFacts, MigMoves
  <2> QED  BY <2>1, <2>2
<1>6. CASE UnlinkView(m)
  <2> DEFINE v == mig[m].file
  <2>1. /\ v \in OldViews /\ (v \in live => v \in marked)
        /\ record' = [record EXCEPT ![v].schema = "gone"]
        /\ mig' = [mig EXCEPT ![m] = NextFile(m)] /\ UNCHANGED <<live, marked, faults>>
    BY <1>6, <1>a DEF UnlinkView, MigSound
  <2> HIDE DEF v
  <2>2. v \in Files
    BY <2>1, MigFacts
  <2>3. record' \in [Files -> FileState] /\ \A u \in Files : u # v => record'[u] = record[u]
    BY <1>a, <2>1, <2>2 DEF FileState
  <2>4. MigSound(NextFile(m), live', marked')
    BY <1>n DEF MigSound
  <2>5. /\ \A u \in OldViews : Pending(u) => Pending(u)' \/ (u \in live => u \in marked')
        /\ \A f \in Malformed : ~Pending(f)'
    BY <2>1, <2>3, MigFacts DEF Pending, MigInv, Files
  <2> QED  BY <1>a, <1>n, <2>1, <2>3, <2>4, <2>5, MigMoves
<1>7. CASE EndMigration(m) \/ MigrationDies(m)
  <2>1. /\ mig' = [mig EXCEPT ![m] = NoMigration] /\ UNCHANGED <<record, live, marked>>
        /\ faults' \in 0..MaxFaults
    BY <1>7, <1>a, MigrationAssumption DEF EndMigration, MigrationDies, Fault
  <2> QED  BY <1>a, <1>b, <1>c, <2>1, MigFacts, MigMoves
<1> QED  BY <1>1, <1>2, <1>3, <1>4, <1>5, <1>6, <1>7 DEF MigrationStep

LEMMA MigNextKeepsInv == ASSUME MigInv, [MigNext]_mVars PROVE MigInv'
<1>1. CASE UNCHANGED mVars
  BY <1>1 DEF mVars, MigInv, MigSound, ViewsStayViews, Pending
<1>2. CASE MigNext
  BY <1>2, AroundKeepsMigInv, MigratorKeepsMigInv DEF MigNext
<1> QED  BY <1>1, <1>2

\* A live view is known as one at every moment, by its record or by the mark of its
\* session, however many migrations run and wherever they die
\* (migrations/__init__.py:22-26, 71-76).
THEOREM ViewsAreAlwaysKnown == MigSpec => []ViewsStayViews
<1>1. MigInv => ViewsStayViews
  BY DEF MigInv
<1> QED  BY <1>1, InitMigInv, MigNextKeepsInv, PTL DEF MigSpec

----------------------------------------------------------------------------
(* What hooks write to a migrated record.                                   *)

OneMigration == \A m, n \in Migrators : m = n

\* The record a migration is about to save is still as it was read.
ReadIsFresh ==
    \A m \in Migrators : mig[m].pc = "save" =>
      Pending(mig[m].file) /\ record[mig[m].file].body = mig[m].raw

LEMMA ReadStaysFresh ==
  ASSUME OneMigration, MigInv, ReadIsFresh, [MigNext]_mVars PROVE ReadIsFresh'
<1> SUFFICES ASSUME NEW m \in Migrators, mig'[m].pc = "save"
             PROVE  Pending(mig[m].file)' /\ record'[mig'[m].file].body = mig'[m].raw
  BY DEF ReadIsFresh
<1>a. /\ mig[m] \in MigType /\ mig \in [Migrators -> MigType] /\ record \in [Files -> FileState]
      /\ mig[m].pc = "save" => mig[m].file \in OldRecords
      /\ mig[m].pc = "save" => Pending(mig[m].file) /\ record[mig[m].file].body = mig[m].raw
  BY DEF MigInv, MigSound, ReadIsFresh
<1>1. CASE mig'[m] = mig[m]
  <2>1. /\ mig[m].pc = "save" /\ mig[m].file \in Files /\ Pending(mig[m].file)
        /\ record[mig[m].file].body = mig[m].raw
    BY <1>1, <1>a, MigFacts
  <2>2. record'[mig[m].file] = record[mig[m].file]
    <3>1. CASE UNCHANGED record
      BY <3>1
    <3>2. ASSUME NEW f \in Files, HookWrites(f) PROVE record'[mig[m].file] = record[mig[m].file]
      BY <1>a, <2>1, <3>2 DEF HookWrites, Pending
    <3>3. ASSUME NEW n \in Migrators, SaveUpgraded(n) \/ UnlinkView(n) PROVE FALSE
      <4>1. n = m
        BY DEF OneMigration
      <4>2. mig'[m] = NextFile(m)
        BY <1>a, <3>3, <4>1 DEF SaveUpgraded, UnlinkView
      <4> QED  BY <1>1, <1>a, <2>1, <4>2 DEF NextFile, MigType
    <3>4. \/ UNCHANGED record \/ \E f \in Files : HookWrites(f)
          \/ \E n \in Migrators : SaveUpgraded(n) \/ UnlinkView(n)
      BY DEF MigNext, mVars, MigrationStep, BeginMigration, Classify, ProbeView, MarkView,
             EndMigration, MigrationDies, ViewCloses, SpawnView
    <3> QED  BY <3>1, <3>2, <3>3, <3>4
  <2> QED  BY <1>1, <2>1, <2>2 DEF Pending
<1>2. CASE mig'[m] # mig[m]
  <2>1. PICK n \in Migrators : MigrationStep(n) \/ MigrationDies(n)
    BY <1>2 DEF MigNext, mVars, HookWrites, ViewCloses, SpawnView
  <2>2. n = m
    BY DEF OneMigration
  <2>3. PICK f \in Files : Classify(m, f)
    <3>1. CASE \E f \in Files : Classify(m, f)
      BY <3>1
    <3>2. CASE BeginMigration(m)
      BY <1>a, <3>2, MigFacts DEF BeginMigration, MigType
    <3>3. CASE SaveUpgraded(m) \/ UnlinkView(m)
      <4>1. mig'[m] = NextFile(m) /\ NextFile(m).pc = "next"
        BY <1>a, <3>3 DEF SaveUpgraded, UnlinkView, NextFile, MigType
      <4> QED  BY <4>1
    <3>4. CASE ProbeView(m)
      BY <1>a, <3>4 DEF ProbeView, MigType
    <3>5. CASE MarkView(m) \/ EndMigration(m) \/ MigrationDies(m)
      BY <1>a, <3>5, MigFacts DEF MarkView, EndMigration, MigrationDies, MigType
    <3> QED  BY <2>1, <2>2, <3>1, <3>2, <3>3, <3>4, <3>5 DEF MigrationStep
  <2>4. mig'[m].pc = (IF ~Pending(f) THEN "next" ELSE IF f \in OldViews THEN "probe" ELSE "save")
        /\ mig'[m].file = (IF Pending(f) THEN f ELSE None)
        /\ mig'[m].raw = (IF Pending(f) THEN record[f].body ELSE 0)
        /\ UNCHANGED record
    BY <1>a, <2>3 DEF Classify, MigType
  <2> QED  BY <2>4 DEF Pending
<1> QED  BY <1>1, <1>2

\* What hooks write to a migrated record is never undone by the migration, which may
\* be run any number of times, as long as one runs at a time
\* (the "Idempotent" of migrations/__init__.py:55).
THEOREM MigrationsKeepWrites == ASSUME OneMigration PROVE MigSpec => MigrationKeepsWrites
<1> DEFINE Kept == \A f \in OldRecords :
                     record'[f].schema = "current" => record'[f].body >= record[f].body
<1>1. MigInv /\ ReadIsFresh /\ [MigNext]_mVars => [Kept]_mVars
  <2> SUFFICES ASSUME MigInv, ReadIsFresh, MigNext, NEW f \in OldRecords
               PROVE  record'[f].body >= record[f].body
    BY DEF Kept
  <2>1. record \in [Files -> FileState] /\ f \in Files /\ record[f] \in FileState
        /\ record[f].body \in Nat
    BY MigFacts, MigrationAssumption DEF MigInv, FileState
  <2>2. CASE UNCHANGED record
    BY <2>1, <2>2
  <2>3. ASSUME NEW g \in Files, HookWrites(g) PROVE record'[f].body >= record[f].body
    <3>1. record[g] \in FileState
      BY <2>1
    <3>2. record' = [record EXCEPT ![g].body = record[g].body + 1]
      BY <2>3 DEF HookWrites
    <3>3. f # g => record'[f] = record[f]
      BY <3>2, <2>1
    <3>4. f = g => record'[f].body = record[f].body + 1
      BY <3>2, <2>1, <3>1 DEF FileState
    <3> QED  BY <2>1, <3>3, <3>4
  <2>4. ASSUME NEW m \in Migrators, SaveUpgraded(m) PROVE record'[f].body >= record[f].body
    <3>1. /\ record' = [record EXCEPT ![mig[m].file] = [schema |-> "current", body |-> mig[m].raw]]
          /\ record[mig[m].file].body = mig[m].raw
      BY <2>4 DEF SaveUpgraded, ReadIsFresh
    <3>2. record'[f].body = record[f].body
      BY <2>1, <3>1
    <3> QED  BY <2>1, <3>2
  <2>5. ASSUME NEW m \in Migrators, UnlinkView(m) PROVE record'[f].body >= record[f].body
    <3>1. mig[m].file \in OldViews /\ record' = [record EXCEPT ![mig[m].file].schema = "gone"]
      BY <2>5 DEF UnlinkView, MigInv, MigSound
    <3>2. record'[f] = record[f]
      BY <2>1, <3>1, MigFacts
    <3> QED  BY <2>1, <3>2
  <2>6. \/ UNCHANGED record \/ \E g \in Files : HookWrites(g)
        \/ \E m \in Migrators : SaveUpgraded(m) \/ UnlinkView(m)
    BY DEF MigNext, MigrationStep, BeginMigration, Classify, ProbeView, MarkView,
           EndMigration, MigrationDies, ViewCloses, SpawnView
  <2> QED  BY <2>2, <2>3, <2>4, <2>5, <2>6
<1>2. MigInit => ReadIsFresh
  BY MigFacts DEF MigInit, ReadIsFresh
<1> QED  BY <1>1, <1>2, InitMigInv, MigNextKeepsInv, ReadStaysFresh, PTL
     DEF MigSpec, MigrationKeepsWrites

----------------------------------------------------------------------------
(***************************************************************************)
(* The effort groups: the walk up the parents and the resolving of          *)
(* artifacts are what their recursions say, and what a step leaves alone    *)
(* they leave alone.                                                        *)
(***************************************************************************)

RecordType == [name: DisplayNames, group: Marks, tag: Marks,
               parent: DisplayNames \cup Sessions \cup {None}, alive: BOOLEAN,
               renders: Documents \cup {None}]

\* A parent by id is of an earlier session, and so are the authors of artifacts.
ComeAfter ==
    /\ \A s \in Known : s <= born /\ (rec[s].parent \in Sessions => rec[s].parent <= born)
    /\ \A a \in Documents : ToSet(art[a].by) \subseteq 0..born

GrpInv ==
    /\ rec \in [Sessions -> RecordType \cup {None}]
    /\ art \in [Documents -> [group: Marks, by: Seq(0..MaxSession)]]
    /\ \A a \in Documents : Len(art[a].by) <= MaxTouch
    /\ labels \in 0..MaxLabels /\ born \in MaxLegacy..MaxSession
    /\ ComeAfter

LEMMA GrpNumbers ==
  /\ MaxSession \in Nat /\ MaxLegacy \in 0..MaxSession /\ MaxLabels \in Nat /\ MaxTouch \in Nat
  /\ 0 \in 0..MaxSession /\ IsFiniteSet(Documents)
BY GroupsAssumption

\* The walk is what its steps say.
LEMMA ClimbIs ==
  ASSUME NEW up, NEW s
  PROVE  /\ Climb(up, s) = [n \in 0..MaxSession |-> Climb(up, s)[n]]
         /\ Climb(up, s)[0] = s
         /\ \A n \in 1..MaxSession : Climb(up, s)[n] = up[Climb(up, s)[n - 1]]
<1> DEFINE N == MaxSession
           Good(g, k) == g = [n \in 0..k |-> IF n = 0 THEN s ELSE up[g[n - 1]]]
           S == {k \in Nat : \E g : Good(g, k)}
<1>1. 0 \in S
  <2>1. Good([n \in 0..0 |-> s], 0)
    OBVIOUS
  <2> QED  BY <2>1
<1>2. ASSUME NEW k \in Nat, k \in S PROVE k + 1 \in S
  <2>1. PICK f : Good(f, k)
    BY <1>2
  <2> DEFINE g == [n \in 0..(k + 1) |-> IF n = k + 1 THEN up[f[k]] ELSE f[n]]
  <2>2. \A n \in 0..k : f[n] = (IF n = 0 THEN s ELSE up[f[n - 1]]) /\ g[n] = f[n]
    BY <2>1
  <2>3. g[k + 1] = up[f[k]] /\ DOMAIN g = 0..(k + 1)
    OBVIOUS
  <2>h. g = [n \in 0..(k + 1) |-> g[n]]
    OBVIOUS
  <2> HIDE DEF g
  <2>4. ASSUME NEW n \in 0..(k + 1) PROVE g[n] = IF n = 0 THEN s ELSE up[g[n - 1]]
    <3>1. CASE n = 0
      BY <2>2, <3>1
    <3>2. CASE n = k + 1
      <4>1. n # 0 /\ n - 1 = k /\ k \in 0..k
        BY <3>2
      <4> QED  BY <2>2, <2>3, <3>2, <4>1
    <3>3. CASE n # 0 /\ n # k + 1
      <4>1. n \in 0..k /\ n - 1 \in 0..k
        BY <3>3
      <4> QED  BY <2>2, <3>3, <4>1
    <3> QED  BY <3>1, <3>2, <3>3
  <2>5. Good(g, k + 1)
    BY <2>4, <2>h
  <2> QED  BY <2>5
<1> HIDE DEF S
<1>3. N \in S
  BY <1>1, <1>2, GrpNumbers, SetInduction
<1>4. \E g : Good(g, N)
  BY <1>3 DEF S
<1> DEFINE walk == CHOOSE g : Good(g, N)
<1>5. Climb(up, s) = walk
  BY DEF Climb
<1>6. Good(walk, N)
  BY <1>4
<1> HIDE DEF walk
<1>7. /\ 0 \in 0..MaxSession
      /\ \A n \in 1..MaxSession : n \in 0..MaxSession /\ n # 0
  BY GrpNumbers
<1>8. walk = [n \in 0..MaxSession |-> walk[n]]
  BY <1>6
<1>9. walk[0] = s
  BY <1>6, <1>7
<1>10. \A n \in 1..MaxSession : walk[n] = up[walk[n - 1]]
  BY <1>6, <1>7
<1> QED  BY <1>5, <1>8, <1>9, <1>10

\* Two walks from s that see the same on the way.
LEMMA ClimbsAgree ==
  ASSUME NEW K, NEW up, NEW other, NEW s \in K,
         \A t \in K : up[t] \in K /\ other[t] = up[t]
  PROVE  /\ Climb(other, s) = Climb(up, s)
         /\ \A n \in 0..MaxSession : Climb(up, s)[n] \in K
<1> DEFINE a == Climb(up, s)
           b == Climb(other, s)
           S == {n \in Nat : n \in 0..MaxSession => a[n] \in K /\ b[n] = a[n]}
<1>0. /\ a = [n \in 0..MaxSession |-> a[n]] /\ b = [n \in 0..MaxSession |-> b[n]]
      /\ a[0] = s /\ (\A n \in 1..MaxSession : a[n] = up[a[n - 1]])
      /\ b[0] = s /\ (\A n \in 1..MaxSession : b[n] = other[b[n - 1]])
  BY ClimbIs
<1> HIDE DEF a, b
<1>1. 0 \in S
  BY <1>0
<1>2. ASSUME NEW n \in Nat, n \in S PROVE n + 1 \in S
  <2> SUFFICES ASSUME n + 1 \in 0..MaxSession PROVE a[n + 1] \in K /\ b[n + 1] = a[n + 1]
    OBVIOUS
  <2>1. n \in 0..MaxSession /\ n + 1 \in 1..MaxSession /\ (n + 1) - 1 = n
    BY GrpNumbers
  <2>2. a[n] \in K /\ b[n] = a[n]
    BY <1>2, <2>1
  <2>3. a[n + 1] = up[a[(n + 1) - 1]] /\ b[n + 1] = other[b[(n + 1) - 1]]
    BY <1>0, <2>1
  <2>4. a[n + 1] = up[a[n]] /\ b[n + 1] = other[a[n]]
    BY <2>1, <2>2, <2>3
  <2> QED  BY <2>2, <2>4
<1> HIDE DEF S
<1>3. \A n \in Nat : n \in S
  BY <1>1, <1>2, SetInduction
<1>4. \A n \in 0..MaxSession : a[n] \in K /\ b[n] = a[n]
  BY <1>3, GrpNumbers DEF S
<1>5. b = a
  BY <1>0, <1>4, Zenon
<1> QED  BY <1>4, <1>5 DEF a, b

----------------------------------------------------------------------------

\* Downward in the number of artifacts that are not being resolved yet.
LEMMA ResolvingInduction ==
  ASSUME NEW S,
         \A r \in SUBSET Documents : (\A a \in Documents \ r : r \cup {a} \in S) => r \in S
  PROVE  \A r \in SUBSET Documents : r \in S
<1> DEFINE Left(r) == Cardinality(Documents \ r)
           T == {n \in Nat : \A r \in SUBSET Documents : Left(r) <= n => r \in S}
<1>0. \A r \in SUBSET Documents : Left(r) \in Nat
  BY GrpNumbers, FS_Difference, FS_CardinalityType
<1>1. ASSUME NEW r \in SUBSET Documents, NEW a \in Documents \ r
      PROVE  r \cup {a} \in SUBSET Documents /\ Left(r \cup {a}) = Left(r) - 1
  <2>1. Documents \ (r \cup {a}) = (Documents \ r) \ {a}
    OBVIOUS
  <2>2. IsFiniteSet(Documents \ r)
    BY GrpNumbers, FS_Difference
  <2>3. Cardinality((Documents \ r) \ {a}) = Cardinality(Documents \ r) - 1
    BY <2>2, FS_RemoveElement
  <2> QED  BY <2>1, <2>3
<1>2. ASSUME NEW r \in SUBSET Documents, Left(r) <= 0 PROVE Documents \ r = {}
  <2>1. Left(r) = 0
    BY <1>0, <1>2
  <2>2. IsFiniteSet(Documents \ r)
    BY GrpNumbers, FS_Difference
  <2> QED  BY <2>1, <2>2, FS_EmptySet
<1> HIDE DEF Left
<1>3. 0 \in T
  BY <1>2
<1>4. ASSUME NEW n \in Nat, n \in T PROVE n + 1 \in T
  <2> SUFFICES ASSUME NEW r \in SUBSET Documents, Left(r) <= n + 1 PROVE r \in S
    OBVIOUS
  <2>1. ASSUME NEW a \in Documents \ r PROVE r \cup {a} \in S
    <3>1. r \cup {a} \in SUBSET Documents /\ Left(r \cup {a}) <= n
      BY <1>0, <1>1
    <3> QED  BY <1>4, <3>1
  <2> QED  BY <2>1
<1> HIDE DEF T
<1>5. \A n \in Nat : n \in T
  BY <1>3, <1>4, SetInduction
<1> SUFFICES ASSUME NEW r \in SUBSET Documents PROVE r \in S
  OBVIOUS
<1>6. Left(r) \in T /\ Left(r) <= Left(r)
  BY <1>0, <1>5
<1> QED  BY <1>6 DEF T

\* What the sessions resolve to, while some artifacts are being resolved.
Given == [r \in SUBSET Documents |-> OverrideWhile(r)]
Resolved(g, r) == [s \in Known |-> SessionOverride(s, r, g)]

\* It asks for no more than one artifact more.
LEMMA AsksOn ==
  ASSUME GrpInv, NEW r \in SUBSET Documents, NEW g, NEW h,
         \A a \in Documents \ r : g[r \cup {a}] = h[r \cup {a}]
  PROVE  Resolved(g, r) = Resolved(h, r)
<1>1. ASSUME NEW s \in Known PROVE SessionOverride(s, r, g) = SessionOverride(s, r, h)
  <2> DEFINE a == rec[s].renders
  <2>1. a \in Documents \cup {None}
    BY DEF GrpInv, RecordType, Known, Sessions
  <2>2. CASE a = None \/ a \in r
    BY <2>2 DEF SessionOverride
  <2>3. CASE ~(a = None \/ a \in r)
    <3>1. g[r \cup {a}] = h[r \cup {a}]
      BY <2>1, <2>3
    <3> QED  BY <3>1, Zenon DEF SessionOverride
  <2> QED  BY <2>2, <2>3
<1> QED  BY <1>1, Zenon DEF Resolved

\* The overrides are what the recursion says.
LEMMA GivenIs ==
  GrpInv => \A r \in SUBSET Documents : OverrideWhile(r) = Resolved(Given, r)
<1> SUFFICES ASSUME GrpInv PROVE \A r \in SUBSET Documents : OverrideWhile(r) = Resolved(Given, r)
  OBVIOUS
<1> DEFINE D == SUBSET Documents
           Good(g) == g = [r \in D |-> Resolved(g, r)]
           Left(r) == Cardinality(Documents \ r)
           Part(n) == {r \in D : Left(r) <= n}
           T == {n \in Nat : \E g : \A r \in Part(n) : g[r] = Resolved(g, r)}
<1>0. \A r \in D : Left(r) \in Nat
  BY GrpNumbers, FS_Difference, FS_CardinalityType
<1>1. ASSUME NEW r \in D, NEW a \in Documents \ r
      PROVE  r \cup {a} \in D /\ Left(r \cup {a}) = Left(r) - 1
  <2>1. Documents \ (r \cup {a}) = (Documents \ r) \ {a}
    OBVIOUS
  <2>2. IsFiniteSet(Documents \ r)
    BY GrpNumbers, FS_Difference
  <2>3. Cardinality((Documents \ r) \ {a}) = Cardinality(Documents \ r) - 1
    BY <2>2, FS_RemoveElement
  <2> QED  BY <2>1, <2>3
<1>2. ASSUME NEW r \in D, Left(r) <= 0 PROVE Documents \ r = {}
  <2>1. Left(r) = 0
    BY <1>0, <1>2
  <2>2. IsFiniteSet(Documents \ r)
    BY GrpNumbers, FS_Difference
  <2> QED  BY <2>1, <2>2, FS_EmptySet
<1>b. Left({}) \in Nat /\ \A r \in D : Left(r) <= Left({})
  <2>1. \A r \in D : Documents \ r \in SUBSET (Documents \ {}) /\ IsFiniteSet(Documents \ {})
    BY GrpNumbers
  <2>2. \A r \in D : Left(r) <= Left({})
    BY <2>1, FS_Subset
  <2> QED  BY <1>0, <2>2
<1> HIDE DEF Left
<1>3. ASSUME NEW g, NEW n \in Nat, \A r \in Part(n) : g[r] = Resolved(g, r)
      PROVE  \E h : \A r \in Part(n + 1) : h[r] = Resolved(h, r)
  <2> DEFINE h == [r \in D |-> IF r \in Part(n) THEN g[r] ELSE Resolved(g, r)]
  <2>1. \A r \in Part(n) : h[r] = g[r]
    OBVIOUS
  <2>2. ASSUME NEW r \in Part(n + 1) PROVE h[r] = Resolved(g, r)
    BY <1>3
  <2>3. ASSUME NEW r \in Part(n + 1) PROVE Resolved(g, r) = Resolved(h, r)
    <3>1. ASSUME NEW a \in Documents \ r PROVE r \cup {a} \in Part(n)
      BY <1>0, <1>1
    <3>2. \A a \in Documents \ r : g[r \cup {a}] = h[r \cup {a}]
      BY <2>1, <3>1
    <3>3. r \in SUBSET Documents
      OBVIOUS
    <3> HIDE DEF h
    <3> QED  BY <3>2, <3>3, AsksOn
  <2> HIDE DEF h
  <2>4. \A r \in Part(n + 1) : h[r] = Resolved(h, r)
    BY <2>2, <2>3
  <2> QED  BY <2>4
<1>4. 0 \in T
  <2> DEFINE z == [r \in D |-> Resolved(0, r)]
  <2>1. ASSUME NEW r \in Part(0) PROVE Resolved(0, r) = Resolved(z, r)
    <3>1. Documents \ r = {} /\ r \in SUBSET Documents
      BY <1>2
    <3> HIDE DEF z
    <3> QED  BY <3>1, AsksOn
  <2>2. \A r \in Part(0) : z[r] = Resolved(0, r)
    OBVIOUS
  <2> HIDE DEF z
  <2> QED  BY <2>1, <2>2
<1>5. \A n \in Nat : n \in T => n + 1 \in T
  BY <1>3
<1>6. \A n \in Nat : n \in T
  <2> HIDE DEF T
  <2> QED  BY <1>4, <1>5, SetInduction
<1>7. PICK f : \A r \in D : f[r] = Resolved(f, r)
  <2>1. PICK g : \A r \in Part(Left({})) : g[r] = Resolved(g, r)
    BY <1>b, <1>6
  <2>2. \A r \in D : r \in Part(Left({}))
    BY <1>b
  <2> QED  BY <2>1, <2>2
<1> DEFINE h == [r \in D |-> f[r]]
<1>8. Good(h)
  <2>1. ASSUME NEW r \in D PROVE Resolved(f, r) = Resolved(h, r)
    <3>1. \A a \in Documents \ r : f[r \cup {a}] = h[r \cup {a}]
      OBVIOUS
    <3> HIDE DEF h
    <3> QED  BY <3>1, AsksOn
  <2>2. \A r \in D : f[r] = Resolved(h, r)
    BY <1>7, <2>1
  <2> QED  BY <2>2, Zenon
<1> DEFINE given == CHOOSE g : Good(g)
<1>9. \A r : OverrideWhile(r) = given[r]
  BY DEF OverrideWhile, Resolved
<1>10. Good(given)
  <2> HIDE DEF h
  <2> QED  BY <1>8
<1> HIDE DEF given
<1>11. given = Given
  <2>1. given = [r \in D |-> given[r]]
    BY <1>10
  <2> QED  BY <1>9, <2>1 DEF Given
<1> QED  BY <1>9, <1>10, <1>11

----------------------------------------------------------------------------

LEMMA OneAuthorMore ==
  ASSUME NEW T, NEW by \in Seq(T), NEW x \in T
  PROVE  /\ Append(by, x) \in Seq(T) /\ Len(Append(by, x)) = Len(by) + 1
         /\ ToSet(Append(by, x)) \subseteq ToSet(by) \cup {x}
<1>1. /\ Append(by, x) \in Seq(T) /\ Len(Append(by, x)) = Len(by) + 1 /\ Len(by) \in Nat
      /\ DOMAIN Append(by, x) = 1..(Len(by) + 1) /\ DOMAIN by = 1..Len(by)
      /\ \A i \in 1..Len(by) : Append(by, x)[i] = by[i]
      /\ Append(by, x)[Len(by) + 1] = x
  OBVIOUS
<1>2. ASSUME NEW p \in ToSet(Append(by, x)) PROVE p \in ToSet(by) \cup {x}
  <2>1. PICK i \in 1..(Len(by) + 1) : Append(by, x)[i] = p
    BY <1>1 DEF ToSet
  <2>2. i \in 1..Len(by) \/ i = Len(by) + 1
    BY <1>1
  <2> QED  BY <1>1, <2>1, <2>2 DEF ToSet
<1> QED  BY <1>1, <1>2

LEMMA OneRecordKeeps ==
  ASSUME GrpInv, NEW s \in Known, NEW q \in RecordType \cup {None},
         q # None => q.parent = rec[s].parent,
         rec' = [rec EXCEPT ![s] = q], art' = art, born' = born, labels' \in 0..MaxLabels
  PROVE  GrpInv'
<1>0. s \in Sessions /\ \A t \in Sessions : rec'[t] = IF t = s THEN q ELSE rec[t]
  BY DEF GrpInv, Known
<1>1. rec' \in [Sessions -> RecordType \cup {None}]
  BY DEF GrpInv
<1>2. \A t \in Known' : t \in Known /\ rec'[t].parent = rec[t].parent
  BY <1>0 DEF Known
<1>3. ComeAfter'
  BY <1>2 DEF ComeAfter, GrpInv
<1> QED  BY <1>1, <1>3 DEF GrpInv

LEMMA NewRecordKeeps ==
  ASSUME GrpInv, NEW s, s = born + 1, s \in Sessions, NEW q \in RecordType,
         q.parent \in Known \cup {None},
         rec' = [rec EXCEPT ![s] = q], art' = art, born' = s, labels' = labels
  PROVE  GrpInv'
<1>0. \A t \in Sessions : rec'[t] = IF t = s THEN q ELSE rec[t]
  BY DEF GrpInv
<1>1. rec' \in [Sessions -> RecordType \cup {None}]
  BY DEF GrpInv
<1>n. born \in Nat /\ born \in MaxLegacy..MaxSession /\ born' \in MaxLegacy..MaxSession
  BY GrpNumbers DEF GrpInv, Sessions
<1>2. ASSUME NEW t \in Known' PROVE t <= born' /\ (rec'[t].parent \in Sessions => rec'[t].parent <= born')
  <2>1. CASE t = s
    <3>1. rec'[t].parent = q.parent
      BY <1>0, <2>1
    <3>2. q.parent \in Sessions => q.parent <= born
      BY GroupsAssumption DEF GrpInv, ComeAfter, Sessions
    <3> QED  BY <1>n, <2>1, <3>1, <3>2 DEF Sessions
  <2>2. CASE t # s
    <3>1. t \in Known /\ rec'[t] = rec[t]
      BY <1>0, <2>2 DEF Known
    <3>2. t <= born /\ (rec[t].parent \in Sessions => rec[t].parent <= born)
      BY <3>1 DEF GrpInv, ComeAfter
    <3> QED  BY <1>n, <3>1, <3>2 DEF Known, Sessions
  <2> QED  BY <2>1, <2>2
<1>3. \A a \in Documents : ToSet(art'[a].by) \subseteq 0..born'
  <2>1. 0..born \subseteq 0..born'
    BY <1>n
  <2> QED  BY <2>1 DEF GrpInv, ComeAfter
<1>4. ComeAfter'
  BY <1>2, <1>3 DEF ComeAfter
<1> QED  BY <1>1, <1>n, <1>4 DEF GrpInv

LEMMA NewRecordIs ==
  ASSUME NEW name \in DisplayNames, NEW parent \in DisplayNames \cup Sessions \cup {None}
  PROVE  /\ NewRecord(name, parent) \in RecordType
         /\ NewRecord(name, parent).parent = parent
         /\ \A alive \in BOOLEAN : [NewRecord(name, parent) EXCEPT !.alive = alive] \in RecordType
         /\ \A alive \in BOOLEAN : [NewRecord(name, parent) EXCEPT !.alive = alive].parent = parent
         /\ \A a \in Documents : /\ [NewRecord(name, parent) EXCEPT !.renders = a] \in RecordType
                                  /\ [NewRecord(name, parent) EXCEPT !.renders = a].parent = parent
BY DEF NewRecord, RecordType, Marks

LEMMA InitGrpInv == GroupInit => GrpInv
<1> SUFFICES ASSUME GroupInit PROVE GrpInv
  OBVIOUS
<1>1. PICK old \in [1..MaxLegacy -> [name: DisplayNames, parent: DisplayNames, alive: BOOLEAN]] :
        rec = [s \in Sessions |-> IF s \in 1..MaxLegacy
                 THEN [NewRecord(old[s].name, old[s].parent) EXCEPT !.alive = old[s].alive] ELSE None]
  BY DEF GroupInit
<1>2. \A s \in 1..MaxLegacy : /\ old[s].name \in DisplayNames /\ old[s].parent \in DisplayNames
                              /\ old[s].alive \in BOOLEAN
  BY <1>1
<1>3. \A s \in 1..MaxLegacy :
        /\ [NewRecord(old[s].name, old[s].parent) EXCEPT !.alive = old[s].alive] \in RecordType
        /\ [NewRecord(old[s].name, old[s].parent) EXCEPT !.alive = old[s].alive].parent \in DisplayNames
  BY <1>2, NewRecordIs
<1>4. rec \in [Sessions -> RecordType \cup {None}]
  BY <1>1, <1>3
<1>5. \A s \in Known : s \in 1..MaxLegacy /\ rec[s].parent \in DisplayNames
  BY <1>1, <1>3 DEF Known
<1>6. /\ art = [a \in Documents |-> [group |-> None, by |-> <<>>]]
      /\ labels = 0 /\ born = MaxLegacy
  BY DEF GroupInit
<1>7. \A a \in Documents : ToSet(art[a].by) \subseteq 0..born /\ art[a].by = <<>>
  BY <1>6 DEF ToSet
<1>8. ComeAfter
  BY <1>5, <1>6, <1>7, GroupsAssumption DEF ComeAfter, Sessions
<1>9. art \in [Documents -> [group: Marks, by: Seq(0..MaxSession)]]
  BY <1>6 DEF Marks
<1>10. \A a \in Documents : Len(art[a].by) <= MaxTouch
  BY <1>7, GrpNumbers
<1> QED  BY <1>4, <1>6, <1>8, <1>9, <1>10, GrpNumbers DEF GrpInv

\* What a command leaves of the records.
LEMMA Leaves ==
  ASSUME GrpInv, NEW s \in Known
  PROVE  /\ rec[s] \in RecordType /\ s \in Sessions
         /\ \A name \in DisplayNames : Rename(s, name) =>
              /\ rec' = [rec EXCEPT ![s] = [rec[s] EXCEPT !.name = name]]
              /\ [rec[s] EXCEPT !.name = name] \in RecordType
              /\ [rec[s] EXCEPT !.name = name].parent = rec[s].parent
         /\ SetTag(s) =>
              /\ rec' = [rec EXCEPT ![s] = [rec[s] EXCEPT !.tag = "own"]]
              /\ [rec[s] EXCEPT !.tag = "own"] \in RecordType
              /\ [rec[s] EXCEPT !.tag = "own"].parent = rec[s].parent
         /\ \A group \in Marks : SetGroup(s, group) =>
              /\ rec' = [rec EXCEPT ![s] = [rec[s] EXCEPT !.group = group]]
              /\ [rec[s] EXCEPT !.group = group] \in RecordType
              /\ [rec[s] EXCEPT !.group = group].parent = rec[s].parent
         /\ Kill(s) =>
              /\ rec' = [rec EXCEPT ![s] = [rec[s] EXCEPT !.alive = FALSE]]
              /\ [rec[s] EXCEPT !.alive = FALSE] \in RecordType
              /\ [rec[s] EXCEPT !.alive = FALSE].parent = rec[s].parent
<1>1. rec[s] \in RecordType /\ s \in Sessions
  BY DEF GrpInv, Known
<1>2. \A name \in DisplayNames : Rename(s, name) =>
              /\ rec' = [rec EXCEPT ![s] = [rec[s] EXCEPT !.name = name]]
              /\ [rec[s] EXCEPT !.name = name] \in RecordType
              /\ [rec[s] EXCEPT !.name = name].parent = rec[s].parent
  BY <1>1 DEF Rename, RecordType
<1>3. SetTag(s) =>
              /\ rec' = [rec EXCEPT ![s] = [rec[s] EXCEPT !.tag = "own"]]
              /\ [rec[s] EXCEPT !.tag = "own"] \in RecordType
              /\ [rec[s] EXCEPT !.tag = "own"].parent = rec[s].parent
  BY <1>1 DEF SetTag, RecordType, Marks
<1>4. \A group \in Marks : SetGroup(s, group) =>
              /\ rec' = [rec EXCEPT ![s] = [rec[s] EXCEPT !.group = group]]
              /\ [rec[s] EXCEPT !.group = group] \in RecordType
              /\ [rec[s] EXCEPT !.group = group].parent = rec[s].parent
  BY <1>1 DEF SetGroup, RecordType
<1>5. Kill(s) =>
              /\ rec' = [rec EXCEPT ![s] = [rec[s] EXCEPT !.alive = FALSE]]
              /\ [rec[s] EXCEPT !.alive = FALSE] \in RecordType
              /\ [rec[s] EXCEPT !.alive = FALSE].parent = rec[s].parent
  BY <1>1 DEF Kill, RecordType
<1> QED  BY <1>1, <1>2, <1>3, <1>4, <1>5

LEMMA StepGrpInv == GrpInv /\ [GroupNext]_grpVars => GrpInv'
<1> SUFFICES ASSUME GrpInv, [GroupNext]_grpVars PROVE GrpInv'
  OBVIOUS
<1>0. labels \in 0..MaxLabels /\ (Labels => labels' \in 0..MaxLabels /\ born' = born)
  BY GrpNumbers DEF GrpInv, Labels
<1>1. ASSUME NEW s \in Sessions, NEW name \in DisplayNames, NEW parent \in Known \cup {None},
             Spawn(s, name, parent)
      PROVE  GrpInv'
  <2>1. parent \in DisplayNames \cup Sessions \cup {None}
    BY DEF Known
  <2> DEFINE q == NewRecord(name, parent)
  <2>2. q \in RecordType /\ q.parent = parent
    BY <2>1, NewRecordIs
  <2>3. rec' = [rec EXCEPT ![s] = q]
    BY <1>1 DEF Spawn
  <2> HIDE DEF q
  <2> QED  BY <1>1, <2>2, <2>3, NewRecordKeeps DEF Spawn
<1>2. ASSUME NEW s \in Sessions, NEW name \in DisplayNames, NEW parent \in Known \cup {None},
             NEW a \in Documents, OpenView(s, name, parent, a)
      PROVE  GrpInv'
  <2>1. parent \in DisplayNames \cup Sessions \cup {None}
    BY DEF Known
  <2> DEFINE q == [NewRecord(name, parent) EXCEPT !.renders = a]
  <2>2. q \in RecordType /\ q.parent = parent
    BY <2>1, NewRecordIs
  <2>3. rec' = [rec EXCEPT ![s] = q]
    BY <1>2 DEF OpenView
  <2> HIDE DEF q
  <2> QED  BY <1>2, <2>2, <2>3, NewRecordKeeps DEF OpenView
<1>3. ASSUME NEW s \in Known, NEW name \in DisplayNames, Rename(s, name) PROVE GrpInv'
  <2> DEFINE q == [rec[s] EXCEPT !.name = name]
  <2>1. rec' = [rec EXCEPT ![s] = q] /\ q \in RecordType /\ q.parent = rec[s].parent
    BY <1>3, Leaves
  <2> HIDE DEF q
  <2> QED  BY <1>0, <1>3, <2>1, OneRecordKeeps DEF Rename
<1>4. ASSUME NEW s \in Known, NEW group \in Marks, SetGroup(s, group) PROVE GrpInv'
  <2> DEFINE q == [rec[s] EXCEPT !.group = group]
  <2>1. rec' = [rec EXCEPT ![s] = q] /\ q \in RecordType /\ q.parent = rec[s].parent
    BY <1>4, Leaves
  <2> HIDE DEF q
  <2> QED  BY <1>0, <1>4, <2>1, OneRecordKeeps DEF SetGroup
<1>5. ASSUME NEW s \in Known, SetTag(s) PROVE GrpInv'
  <2> DEFINE q == [rec[s] EXCEPT !.tag = "own"]
  <2>1. rec' = [rec EXCEPT ![s] = q] /\ q \in RecordType /\ q.parent = rec[s].parent
    BY <1>5, Leaves
  <2> HIDE DEF q
  <2> QED  BY <1>0, <1>5, <2>1, OneRecordKeeps DEF SetTag
<1>6. ASSUME NEW s \in Known, Kill(s) PROVE GrpInv'
  <2> DEFINE q == [rec[s] EXCEPT !.alive = FALSE]
  <2>1. rec' = [rec EXCEPT ![s] = q] /\ q \in RecordType /\ q.parent = rec[s].parent
    BY <1>6, Leaves
  <2> HIDE DEF q
  <2> QED  BY <1>0, <1>6, <2>1, OneRecordKeeps DEF Kill
<1>7. ASSUME NEW s \in Known, RemoveRecord(s) PROVE GrpInv'
  BY <1>0, <1>7, OneRecordKeeps DEF RemoveRecord
<1>8. ASSUME NEW a \in Documents, GroupArtifact(a) PROVE GrpInv'
  <2>1. art' = [art EXCEPT ![a].group = "own"] /\ rec' = rec /\ born' = born
    BY <1>0, <1>8 DEF GroupArtifact
  <2>2. /\ art' \in [Documents -> [group: Marks, by: Seq(0..MaxSession)]]
        /\ \A b \in Documents : art'[b].by = art[b].by
    BY <2>1 DEF GrpInv, Marks
  <2>3. ComeAfter' /\ \A b \in Documents : Len(art'[b].by) <= MaxTouch
    BY <2>1, <2>2 DEF GrpInv, ComeAfter, Known
  <2> QED  BY <1>0, <1>8, <2>1, <2>2, <2>3 DEF GrpInv, GroupArtifact
<1>9. ASSUME NEW a \in Documents, NEW by \in Known \cup {User}, Touch(a, by) PROVE GrpInv'
  <2>1. UNCHANGED <<rec, born, labels>> /\ art' = [art EXCEPT ![a].by = Append(@, by)]
        /\ Len(art[a].by) < MaxTouch
    BY <1>9 DEF Touch
  <2>2. by \in 0..born /\ by \in 0..MaxSession
    BY GrpNumbers DEF GrpInv, ComeAfter, Known, Sessions, User
  <2>3. /\ art[a].by \in Seq(0..MaxSession) /\ ToSet(art[a].by) \subseteq 0..born
        /\ Len(art[a].by) \in Nat
    BY DEF GrpInv, ComeAfter
  <2> DEFINE authors == art[a].by
             T == 0..MaxSession
  <2>a. authors \in Seq(T) /\ by \in T
    BY <2>2, <2>3
  <2>4. /\ Append(art[a].by, by) \in Seq(0..MaxSession)
        /\ Len(Append(art[a].by, by)) = Len(art[a].by) + 1
        /\ ToSet(Append(art[a].by, by)) \subseteq ToSet(art[a].by) \cup {by}
    <3> HIDE DEF authors, T
    <3>1. /\ Append(authors, by) \in Seq(T) /\ Len(Append(authors, by)) = Len(authors) + 1
          /\ ToSet(Append(authors, by)) \subseteq ToSet(authors) \cup {by}
      BY <2>a, OneAuthorMore
    <3> QED  BY <3>1 DEF authors, T
  <2>5. ToSet(Append(art[a].by, by)) \subseteq 0..born /\ Len(Append(art[a].by, by)) <= MaxTouch
    BY <2>1, <2>2, <2>3, <2>4, GrpNumbers
  <2>6. \A b \in Documents : art'[b].by = IF b = a THEN Append(art[a].by, by) ELSE art[b].by
    BY <2>1 DEF GrpInv
  <2>7. art' \in [Documents -> [group: Marks, by: Seq(0..MaxSession)]]
    BY <2>1, <2>4 DEF GrpInv
  <2>8. ComeAfter'
    BY <2>1, <2>5, <2>6 DEF GrpInv, ComeAfter, Known
  <2>9. \A b \in Documents : Len(art'[b].by) <= MaxTouch
    BY <2>5, <2>6 DEF GrpInv
  <2> QED  BY <2>1, <2>7, <2>8, <2>9 DEF GrpInv
<1>10. ASSUME UNCHANGED grpVars PROVE GrpInv'
  BY <1>10 DEF grpVars, GrpInv, ComeAfter, Known
<1> QED  BY <1>1, <1>2, <1>3, <1>4, <1>5, <1>6, <1>7, <1>8, <1>9, <1>10 DEF GroupNext

LEMMA GrpInvHolds == GroupSpec => []GrpInv
BY InitGrpInv, StepGrpInv, PTL DEF GroupSpec

----------------------------------------------------------------------------

\* The recursion, one artifact at a time.
Own(s) == FirstIn(Lineage(s), Overriding)
Author(a) == FirstIn(CreatorFirst(a), Known)

OverridesResolve ==
  \A r \in SUBSET Documents : \A s \in Known :
    /\ Own(s) # None => OverrideWhile(r)[s] = Named("group", Own(s))
    /\ Own(s) = None /\ (rec[s].renders = None \/ rec[s].renders \in r) => OverrideWhile(r)[s] = None
    /\ Own(s) = None /\ rec[s].renders \in Documents \ r =>
         OverrideWhile(r)[s] = ArtifactOverride(rec[s].renders, OverrideWhile(r \cup {rec[s].renders}))

LEMMA Resolve == GrpInv => OverridesResolve
<1> SUFFICES ASSUME GrpInv, NEW r \in SUBSET Documents, NEW s \in Known
             PROVE /\ Own(s) # None => OverrideWhile(r)[s] = Named("group", Own(s))
                   /\ Own(s) = None /\ (rec[s].renders = None \/ rec[s].renders \in r) => OverrideWhile(r)[s] = None
                   /\ Own(s) = None /\ rec[s].renders \in Documents \ r =>
                        OverrideWhile(r)[s] = ArtifactOverride(rec[s].renders, OverrideWhile(r \cup {rec[s].renders}))
  BY Zenon DEF OverridesResolve
<1>1. OverrideWhile(r)[s] = SessionOverride(s, r, Given)
  <2>1. OverrideWhile(r) = Resolved(Given, r)
    BY GivenIs
  <2> QED  BY <2>1 DEF Resolved
<1>2. rec[s].renders \in Documents =>
        /\ Given[r \cup {rec[s].renders}] = OverrideWhile(r \cup {rec[s].renders}) /\ rec[s].renders # None
  BY GroupsAssumption DEF Given
<1> QED  BY <1>1, <1>2 DEF SessionOverride, Own

LEMMA ResolveLater == GrpInv' => OverridesResolve'
BY Resolve, PTL

\* The first of seq that is in S is in S.
LEMMA FirstIs ==
  ASSUME NEW seq, NEW n \in Nat, DOMAIN seq = 1..n, NEW S
  PROVE  /\ FirstIn(seq, S) \in S \cup {None}
         /\ n > 0 /\ seq[1] \in S => FirstIn(seq, S) = seq[1]
<1> DEFINE found == {i \in DOMAIN seq : seq[i] \in S}
<1>1. found \in SUBSET (1..n)
  OBVIOUS
<1>2. found # {} => Min(found) \in found /\ \A j \in found : Min(found) <= j
  <2> SUFFICES ASSUME found # {} PROVE Min(found) \in found /\ \A j \in found : Min(found) <= j
    OBVIOUS
  <2>1. \E i \in found : \A j \in found : i <= j
    <3> HIDE DEF found
    <3> QED  BY <1>1, LeastExists
  <2> HIDE DEF found
  <2> QED  BY <2>1 DEF Min
<1>3. FirstIn(seq, S) = IF found = {} THEN None ELSE seq[Min(found)]
  BY DEF FirstIn
<1>4. FirstIn(seq, S) \in S \cup {None}
  BY <1>2, <1>3
<1>5. ASSUME n > 0, seq[1] \in S PROVE FirstIn(seq, S) = seq[1]
  <2>1. 1 \in found
    BY <1>5
  <2>2. Min(found) \in 1..n /\ Min(found) <= 1
    BY <1>1, <1>2, <2>1
  <2>3. Min(found) = 1
    BY <2>2
  <2> QED  BY <1>3, <2>1, <2>3
<1> QED  BY <1>4, <1>5

\* The same are found first where the same are in the sets.
LEMMA FirstAgrees ==
  ASSUME NEW seq, NEW S, NEW T, \A i \in DOMAIN seq : seq[i] \in S <=> seq[i] \in T
  PROVE  FirstIn(seq, S) = FirstIn(seq, T)
<1>1. {i \in DOMAIN seq : seq[i] \in S} = {i \in DOMAIN seq : seq[i] \in T}
  OBVIOUS
<1> QED  BY <1>1, Zenon DEF FirstIn

LEMMA JoinIs ==
  ASSUME NEW T, NEW s \in Seq(T), NEW q \in Seq(T), Len(s) = 1
  PROVE  s \o q \in Seq(T) /\ Len(s \o q) = 1 + Len(q) /\ (s \o q)[1] = s[1]
<1>1. s \o q \in Seq(T)
  OBVIOUS
<1>2. /\ Len(s \o q) = Len(s) + Len(q)
      /\ \A i \in 1..(Len(s) + Len(q)) : (s \o q)[i] = IF i <= Len(s) THEN s[i] ELSE q[i - Len(s)]
  BY ConcatProperties, Zenon
<1>3. Len(q) \in Nat
  OBVIOUS
<1>4. 1 \in 1..(Len(s) + Len(q)) /\ 1 <= Len(s)
  BY <1>3
<1> QED  BY <1>1, <1>2, <1>4

LEMMA CreatorFirstIs ==
  ASSUME GrpInv, NEW a \in Documents, art[a].by # <<>>
  PROVE  \E n \in Nat : /\ DOMAIN CreatorFirst(a) = 1..n /\ n > 0 /\ CreatorFirst(a)[1] = art[a].by[1]
                        /\ \A i \in 1..n : CreatorFirst(a)[i] \in ToSet(art[a].by)
<1> DEFINE by == art[a].by
           T == ToSet(by)
<1>1. by \in Seq(0..MaxSession) /\ by # <<>>
  BY DEF GrpInv
<1>2. CreatorFirst(a) = <<Head(by)>> \o Reverse(Tail(by))
  BY DEF CreatorFirst
<1> HIDE DEF by
<1>3. Len(by) \in Nat /\ Len(by) > 0 /\ DOMAIN by = 1..Len(by) /\ Head(by) = by[1]
  BY <1>1
<1>4. \A i \in 1..Len(by) : by[i] \in T
  BY <1>3 DEF ToSet
<1> HIDE DEF T
<1>5. /\ Len(Tail(by)) = Len(by) - 1 /\ DOMAIN Tail(by) = 1..(Len(by) - 1)
      /\ \A i \in 1..(Len(by) - 1) : Tail(by)[i] = by[i + 1]
  BY <1>1, <1>3
<1>6. Reverse(Tail(by)) = [i \in 1..(Len(by) - 1) |-> by[Len(by) - i + 1]]
  <2>1. Reverse(Tail(by)) = [i \in 1..Len(Tail(by)) |-> Tail(by)[(Len(Tail(by)) - i) + 1]]
    BY DEF Reverse
  <2>2. \A i \in 1..(Len(by) - 1) : Tail(by)[(Len(Tail(by)) - i) + 1] = by[Len(by) - i + 1]
    <3> TAKE i \in 1..(Len(by) - 1)
    <3>1. (Len(Tail(by)) - i) + 1 \in 1..(Len(by) - 1) /\ ((Len(Tail(by)) - i) + 1) + 1 = Len(by) - i + 1
      BY <1>3, <1>5
    <3> QED  BY <1>5, <3>1
  <2> QED  BY <1>5, <2>1, <2>2
<1>7. Reverse(Tail(by)) \in Seq(T) /\ Len(Reverse(Tail(by))) = Len(by) - 1
  <2>1. \A i \in 1..(Len(by) - 1) : Len(by) - i + 1 \in 1..Len(by)
    BY <1>3
  <2>2. Reverse(Tail(by)) \in [1..(Len(by) - 1) -> T]
    BY <1>4, <1>6, <2>1
  <2>3. Len(by) - 1 \in Nat
    BY <1>3
  <2> QED  BY <2>2, <2>3
<1>8. <<Head(by)>> \in Seq(T) /\ Len(<<Head(by)>>) = 1 /\ <<Head(by)>>[1] = by[1] /\ by[1] \in T
  <2>1. 1 \in 1..Len(by)
    BY <1>3
  <2> QED  BY <1>3, <1>4, <2>1
<1> DEFINE rest == Reverse(Tail(by))
           first == <<Head(by)>>
<1>9. /\ first \o rest \in Seq(T) /\ Len(first \o rest) = 1 + Len(rest) /\ (first \o rest)[1] = by[1]
  <2> HIDE DEF first, rest
  <2>1. first \in Seq(T) /\ rest \in Seq(T) /\ Len(first) = 1 /\ first[1] = by[1]
    BY <1>7, <1>8 DEF first, rest
  <2>2. first \o rest \in Seq(T) /\ Len(first \o rest) = 1 + Len(rest) /\ (first \o rest)[1] = first[1]
    BY <2>1, JoinIs
  <2> QED  BY <2>1, <2>2
<1>10. CreatorFirst(a) \in Seq(T) /\ Len(CreatorFirst(a)) = Len(by) /\ CreatorFirst(a)[1] = by[1]
  <2>1. CreatorFirst(a) = first \o rest /\ Len(rest) = Len(by) - 1
    BY <1>2, <1>7
  <2>2. 1 + (Len(by) - 1) = Len(by)
    BY <1>3
  <2> HIDE DEF first, rest
  <2> QED  BY <1>9, <2>1, <2>2
<1>11. DOMAIN CreatorFirst(a) = 1..Len(by) /\ \A i \in 1..Len(by) : CreatorFirst(a)[i] \in T
  BY <1>10
<1> QED  BY <1>3, <1>10, <1>11 DEF by, T

----------------------------------------------------------------------------

\* What names and parents are, who lives and who is there: the walks depend on no more.
SameForest ==
  /\ Known' = Known
  /\ \A t \in Known : /\ rec'[t].name = rec[t].name /\ rec'[t].parent = rec[t].parent
                       /\ rec'[t].alive = rec[t].alive

LEMMA SameWalks ==
  ASSUME SameForest
  PROVE  /\ Above' = Above /\ UpToHub' = UpToHub
         /\ \A s : Lineage(s)' = Lineage(s) /\ Ancestors(s)' = Ancestors(s)
<1>1. ASSUME NEW s \in Known PROVE Candidates(s)' = Candidates(s)
  BY DEF SameForest, Candidates
<1>2. ASSUME NEW s \in Known
      PROVE  {c \in Candidates(s) : rec[c].alive}' = {c \in Candidates(s) : rec[c].alive}
  <2>1. Candidates(s) \subseteq Known
    BY DEF Candidates
  <2> HIDE DEF Candidates
  <2> QED  BY <1>1, <2>1 DEF SameForest
<1>3. ASSUME NEW s \in Known PROVE Parent(s)' = Parent(s)
  BY <1>1, <1>2, Zenon DEF Parent, SameForest
<1>4. ASSUME NEW s \in Known PROVE StopsAt(s)' = StopsAt(s)
  BY DEF StopsAt, SameForest
<1>5. Above' = Above
  BY <1>3, Zenon DEF Above, SameForest
<1>6. UpToHub' = UpToHub
  BY <1>3, <1>4, Zenon DEF UpToHub, SameForest
<1>7. ASSUME NEW s PROVE Lineage(s)' = Lineage(s) /\ Ancestors(s)' = Ancestors(s)
  BY <1>5, <1>6, Zenon DEF Lineage, Ancestors
<1> QED  BY <1>5, <1>6, <1>7

\* A session that renders nothing is in the group its own walk finds.
LEMMA PlainGroup ==
  ASSUME GrpInv, GrpInv', NEW s \in Known, s \in Known', rec[s].renders = None, rec'[s].renders = None,
         Own(s)' = Own(s), rec'[s].tag = rec[s].tag, rec'[s].name = rec[s].name
  PROVE  SessionGroup(s)' = SessionGroup(s)
<1>1. OverrideWhile({})[s] = IF Own(s) # None THEN Named("group", Own(s)) ELSE None
  <2>1. {} \in SUBSET Documents /\ OverridesResolve
    BY Resolve
  <2> QED  BY <2>1 DEF OverridesResolve
<1>2. OverrideWhile({})'[s] = IF Own(s)' # None THEN Named("group", Own(s)') ELSE None
  <2>1. {} \in SUBSET Documents /\ OverridesResolve'
    BY ResolveLater
  <2> QED  BY <2>1 DEF OverridesResolve
<1>3. OverrideWhile({})'[s] = OverrideWhile({})[s]
  BY <1>1, <1>2
<1> QED  BY <1>3, Zenon DEF SessionGroup, Floor

\* Who sets a tag or a group.
LEMMA WhoChanges ==
  ASSUME GrpInv, [GroupNext]_grpVars, NEW x \in Known, rec'[x] # None
  PROVE  /\ rec'[x].tag # rec[x].tag => SetTag(x)
         /\ rec'[x].group # rec[x].group => \E group \in Marks : SetGroup(x, group)
<1> USE DEF GrpInv, Known
<1>1. ASSUME NEW s \in Sessions, NEW name \in DisplayNames, NEW parent \in Known \cup {None},
             Spawn(s, name, parent) \/ \E a \in Documents : OpenView(s, name, parent, a)
      PROVE  rec'[x] = rec[x]
  <2>1. s = born + 1 /\ \E q : rec' = [rec EXCEPT ![s] = q]
    BY <1>1 DEF Spawn, OpenView
  <2>2. x # s
    BY <2>1, GrpNumbers DEF ComeAfter, Sessions
  <2> QED  BY <2>1, <2>2
<1>2. ASSUME NEW s \in Known, NEW q, rec' = [rec EXCEPT ![s] = q] PROVE rec'[x] = IF x = s THEN q ELSE rec[x]
  BY <1>2
<1>3. ASSUME NEW s \in Known, NEW name \in DisplayNames, Rename(s, name)
      PROVE  rec'[x].tag = rec[x].tag /\ rec'[x].group = rec[x].group
  BY <1>3 DEF Rename
<1>4. ASSUME NEW s \in Known, NEW group \in Marks, SetGroup(s, group)
      PROVE  rec'[x].tag = rec[x].tag /\ (rec'[x].group # rec[x].group => x = s)
  BY <1>4 DEF SetGroup
<1>5. ASSUME NEW s \in Known, SetTag(s)
      PROVE  rec'[x].group = rec[x].group /\ (rec'[x].tag # rec[x].tag => x = s)
  BY <1>5 DEF SetTag
<1>6. ASSUME NEW s \in Known, Kill(s)
      PROVE  rec'[x].tag = rec[x].tag /\ rec'[x].group = rec[x].group
  BY <1>6 DEF Kill
<1>7. ASSUME NEW s \in Known, RemoveRecord(s) PROVE rec'[x] = rec[x]
  BY <1>7 DEF RemoveRecord
<1>8. ASSUME NEW a \in Documents, GroupArtifact(a) \/ \E by \in Known \cup {User} : Touch(a, by)
      PROVE  rec'[x] = rec[x]
  BY <1>8 DEF GroupArtifact, Touch
<1>9. ASSUME UNCHANGED grpVars PROVE rec'[x] = rec[x]
  BY <1>9 DEF grpVars
<1> QED  BY <1>1, <1>3, <1>4, <1>5, <1>6, <1>7, <1>8, <1>9 DEF GroupNext

LEMMA StepTagsStayOwn ==
  ASSUME GrpInv, GrpInv', [GroupNext]_grpVars, NEW x \in Known, rec'[x] # None, rec'[x].tag # rec[x].tag,
         NEW s \in Known \ {x}, rec[s].renders = None
  PROVE  SessionGroup(s)' = SessionGroup(s)
<1>1. SetTag(x)
  BY WhoChanges
<1>2. rec' = [rec EXCEPT ![x] = [rec[x] EXCEPT !.tag = "own"]] /\ rec[x] \in RecordType
  BY <1>1, Leaves
<1>3. \A t \in Known : /\ rec'[t].name = rec[t].name /\ rec'[t].parent = rec[t].parent
                        /\ rec'[t].alive = rec[t].alive /\ rec'[t].group = rec[t].group
                        /\ (t # x => rec'[t] = rec[t])
  BY <1>1 DEF SetTag, GrpInv, Known
<1>4. Known' = Known
  BY <1>2, <1>3 DEF GrpInv, Known
<1>5. SameForest
  BY <1>3, <1>4 DEF SameForest
<1>6. Overriding' = Overriding
  BY <1>3, <1>4 DEF Overriding
<1>7. Own(s)' = Own(s)
  BY <1>5, <1>6, SameWalks, Zenon DEF Own
<1> QED  BY <1>3, <1>4, <1>7, PlainGroup

LEMMA ForemostIs ==
  ASSUME NEW C \in SUBSET Known, C # {}, NEW L \in SUBSET C
  PROVE  Foremost(C, L) \in C
<1> DEFINE B == IF L # {} THEN L ELSE C
           ranks == {BornOrZero(c) + 1 : c \in B}
<1>1. \A c \in C : BornOrZero(c) \in 0..MaxSession /\ c \in 1..MaxSession
  BY GroupsAssumption DEF BornOrZero, Born, Known, Sessions
<1>2. B \subseteq C /\ B # {}
  OBVIOUS
<1>3. ranks \in SUBSET (1..(MaxSession + 1)) /\ ranks # {} /\ MaxSession + 1 \in Nat
  BY <1>1, <1>2, GrpNumbers
<1>4. PICK top \in ranks : \A k \in ranks : k <= top
  <2> HIDE DEF ranks
  <2> QED  BY <1>3, GreatestExists
<1> DEFINE tops == {c \in B : BornOrZero(c) + 1 = top}
<1>5. tops \in SUBSET (1..MaxSession) /\ tops # {} /\ MaxSession \in Nat
  BY <1>1, <1>2, <1>4, GrpNumbers
<1>6. PICK c \in tops : \A d \in tops : c <= d
  <2> HIDE DEF tops
  <2> QED  BY <1>5, LeastExists
<1>7. ASSUME NEW d \in C
      PROVE  \/ c \in L /\ d \notin L
             \/ (c \in L <=> d \in L) /\ BornOrZero(c) > BornOrZero(d)
             \/ (c \in L <=> d \in L) /\ BornOrZero(c) = BornOrZero(d) /\ c <= d
  <2>1. CASE d \notin B
    BY <1>6, <2>1
  <2>2. CASE d \in B
    <3>1. BornOrZero(d) + 1 <= top /\ BornOrZero(c) + 1 = top /\ c \in C
      BY <1>2, <1>4, <1>6, <2>2
    <3>2. BornOrZero(d) \in Nat /\ BornOrZero(c) \in Nat
      BY <1>1, <3>1
    <3>3. c \in L <=> d \in L
      BY <1>6, <2>2
    <3>4. CASE BornOrZero(d) = BornOrZero(c)
      <4>1. c <= d
        BY <1>6, <2>2, <3>1, <3>4
      <4> QED  BY <3>3, <3>4, <4>1
    <3>5. CASE BornOrZero(d) # BornOrZero(c)
      <4>1. BornOrZero(c) > BornOrZero(d)
        BY <3>1, <3>2, <3>5
      <4> QED  BY <3>3, <4>1
    <3> QED  BY <3>4, <3>5
  <2> QED  BY <2>1, <2>2
<1>8. c \in C
  BY <1>2, <1>6
<1> QED  BY <1>7, <1>8, Zenon DEF Foremost

LEMMA ParentIs == ASSUME NEW s \in Known PROVE Parent(s) \in Known \cup {None}
<1>1. Candidates(s) \in SUBSET Known
  BY DEF Candidates
<1>2. {c \in Candidates(s) : rec[c].alive} \in SUBSET Candidates(s)
  OBVIOUS
<1>3. Candidates(s) # {} => Foremost(Candidates(s), {c \in Candidates(s) : rec[c].alive}) \in Known
  BY <1>1, <1>2, ForemostIs
<1> QED  BY <1>3, Zenon DEF Parent

LEMMA NoneIsNoSession == None \notin Known
BY GroupsAssumption DEF Known, Sessions

\* The walk that stops at a hub is the walk past it, up to the first hub.
StopsSo(s, n) ==
  \/ Lineage(s)[n] = None
  \/ /\ Lineage(s)[n] = Ancestors(s)[n] /\ Lineage(s)[n] \in Known
     /\ \A i \in 0..(n - 1) : Ancestors(s)[i] \in Known => ~StopsAt(Ancestors(s)[i])

LEMMA StopsBelow ==
  ASSUME NEW s \in Known
  PROVE  \A n \in 0..MaxSession : StopsSo(s, n)
<1> DEFINE S == {n \in Nat : n \in 0..MaxSession => StopsSo(s, n)}
<1>1. /\ Lineage(s)[0] = s /\ \A n \in 1..MaxSession : Lineage(s)[n] = UpToHub[Lineage(s)[n - 1]]
      /\ Ancestors(s)[0] = s /\ \A n \in 1..MaxSession : Ancestors(s)[n] = Above[Ancestors(s)[n - 1]]
  BY ClimbIs DEF Lineage, Ancestors
<1>2. 0 \in S
  <2>1. 0..(0 - 1) = {}
    OBVIOUS
  <2> QED  BY <1>1, <2>1 DEF StopsSo
<1>3. ASSUME NEW n \in Nat, n \in S PROVE n + 1 \in S
  <2> SUFFICES ASSUME n + 1 \in 0..MaxSession PROVE StopsSo(s, n + 1)
    OBVIOUS
  <2>1. n \in 0..MaxSession /\ n + 1 \in 1..MaxSession /\ (n + 1) - 1 = n
    BY GrpNumbers
  <2>2. StopsSo(s, n)
    BY <1>3, <2>1
  <2>3. Lineage(s)[n + 1] = UpToHub[Lineage(s)[n]] /\ Ancestors(s)[n + 1] = Above[Ancestors(s)[n]]
    <3>1. /\ Lineage(s)[n + 1] = UpToHub[Lineage(s)[(n + 1) - 1]]
          /\ Ancestors(s)[n + 1] = Above[Ancestors(s)[(n + 1) - 1]]
      BY <1>1, <2>1
    <3> QED  BY <2>1, <3>1
  <2>4. CASE Lineage(s)[n] = None
    <3>1. UpToHub[None] = None
      BY DEF UpToHub
    <3> QED  BY <2>3, <2>4, <3>1 DEF StopsSo
  <2>5. CASE Lineage(s)[n] # None
    <3> DEFINE v == Lineage(s)[n]
    <3>1. /\ v = Ancestors(s)[n] /\ v \in Known
          /\ \A i \in 0..(n - 1) : Ancestors(s)[i] \in Known => ~StopsAt(Ancestors(s)[i])
      BY <2>2, <2>5 DEF StopsSo
    <3>2. Above[v] = Parent(v) /\ UpToHub[v] = IF StopsAt(v) THEN None ELSE Parent(v)
      BY <2>5, <3>1 DEF Above, UpToHub
    <3>3. Parent(v) \in Known \cup {None}
      BY <3>1, ParentIs
    <3>4. CASE StopsAt(v)
      BY <2>3, <3>2, <3>4 DEF StopsSo
    <3>5. CASE ~StopsAt(v)
      <4>1. \A i \in 0..((n + 1) - 1) : i \in 0..(n - 1) \/ i = n
        OBVIOUS
      <4>2. \A i \in 0..((n + 1) - 1) : Ancestors(s)[i] \in Known => ~StopsAt(Ancestors(s)[i])
        BY <3>1, <3>5, <4>1
      <4>3. Lineage(s)[n + 1] = Parent(v) /\ Ancestors(s)[n + 1] = Parent(v)
        BY <2>3, <3>1, <3>2, <3>5
      <4> HIDE DEF v
      <4> QED  BY <3>3, <4>2, <4>3 DEF StopsSo
    <3> QED  BY <3>4, <3>5
  <2> QED  BY <2>4, <2>5
<1> HIDE DEF S
<1>4. \A n \in Nat : n \in S
  BY <1>2, <1>3, SetInduction
<1> QED  BY <1>4, GrpNumbers DEF S

LEMMA StepNoLeak ==
  ASSUME GrpInv, GrpInv', [GroupNext]_grpVars, NEW x \in Known, rec'[x] # None, rec'[x].group # rec[x].group,
         NEW s \in Known, BelowAHub(s, x), rec[s].renders = None
  PROVE  SessionGroup(s)' = SessionGroup(s)
<1>1. PICK group \in Marks : SetGroup(x, group)
  BY WhoChanges
<1>2. rec' = [rec EXCEPT ![x] = [rec[x] EXCEPT !.group = group]] /\ rec[x] \in RecordType
  BY <1>1, Leaves
<1>3. \A t \in Known : /\ rec'[t].name = rec[t].name /\ rec'[t].parent = rec[t].parent
                        /\ rec'[t].alive = rec[t].alive /\ rec'[t].tag = rec[t].tag
                        /\ rec'[t].renders = rec[t].renders /\ (t # x => rec'[t] = rec[t])
  BY <1>1 DEF SetGroup, GrpInv, Known
<1>4. Known' = Known
  BY <1>2, <1>3 DEF GrpInv, Known
<1>5. SameForest
  BY <1>3, <1>4 DEF SameForest
<1>6. \A t : t # x => (t \in Overriding' <=> t \in Overriding)
  BY <1>3, <1>4 DEF Overriding
<1>7. ASSUME NEW n \in 0..MaxSession PROVE Lineage(s)[n] # x
  <2>1. PICK h \in 0..MaxSession : /\ Ancestors(s)[h] \in Known /\ StopsAt(Ancestors(s)[h])
                                   /\ \A j \in 0..h : Ancestors(s)[j] # x
    <3>1. DOMAIN Ancestors(s) = 0..MaxSession
      BY ClimbIs DEF Ancestors
    <3> QED  BY <3>1, Zenon DEF BelowAHub
  <2> SUFFICES ASSUME Lineage(s)[n] = x PROVE FALSE
    OBVIOUS
  <2>2. /\ Ancestors(s)[n] = x
        /\ \A i \in 0..(n - 1) : Ancestors(s)[i] \in Known => ~StopsAt(Ancestors(s)[i])
    BY StopsBelow, NoneIsNoSession DEF StopsSo
  <2>3. ~(n \in 0..h)
    BY <2>1, <2>2
  <2>4. h \in 0..(n - 1)
    BY <2>3, GrpNumbers
  <2> QED  BY <2>1, <2>2, <2>4
<1>8. Own(s)' = Own(s)
  <2>1. Lineage(s)' = Lineage(s)
    BY <1>5, SameWalks
  <2>2. DOMAIN Lineage(s) = 0..MaxSession
    BY ClimbIs DEF Lineage
  <2>3. \A i \in DOMAIN Lineage(s) : Lineage(s)[i] \in Overriding' <=> Lineage(s)[i] \in Overriding
    BY <1>6, <1>7, <2>2
  <2>4. FirstIn(Lineage(s), Overriding') = FirstIn(Lineage(s), Overriding)
    BY <2>3, FirstAgrees
  <2> QED  BY <2>1, <2>4 DEF Own
<1> QED  BY <1>3, <1>4, <1>8, PlainGroup

----------------------------------------------------------------------------

\* An artifact is filed where it was if its author is who it was, and resolves so.
LEMMA SameFiling ==
  ASSUME NEW a, NEW r, art'[a].group = art[a].group, art'[a].by = <<>> <=> art[a].by = <<>>,
         art[a].by # <<>> => Author(a)' = Author(a) /\ Author(a) \in Known \cup {None},
         \A s \in Known : /\ rec'[s].tag = rec[s].tag /\ rec'[s].name = rec[s].name
                          /\ OverrideWhile(r)'[s] = OverrideWhile(r)[s]
  PROVE  ArtifactOverride(a, OverrideWhile(r))' = ArtifactOverride(a, OverrideWhile(r))
<1> DEFINE o == OverrideWhile(r)
<1>1. ArtifactOverride(a, o) =
        IF art[a].group # None THEN Named("artifact", a)
        ELSE IF art[a].by = <<>> THEN None
        ELSE IF Author(a) = None THEN None
        ELSE IF o[Author(a)] # None THEN o[Author(a)]
        ELSE IF rec[Author(a)].tag # None THEN Named("tag", Author(a)) ELSE Named("name", rec[Author(a)].name)
  BY DEF ArtifactOverride, Author, Floor
<1>2. ArtifactOverride(a, o)' =
        IF art'[a].group # None THEN Named("artifact", a)
        ELSE IF art'[a].by = <<>> THEN None
        ELSE IF Author(a)' = None THEN None
        ELSE IF o'[Author(a)'] # None THEN o'[Author(a)']
        ELSE IF rec'[Author(a)'].tag # None THEN Named("tag", Author(a)') ELSE Named("name", rec'[Author(a)'].name)
  BY DEF ArtifactOverride, Author, Floor
<1> HIDE DEF o
<1>3. CASE art[a].by # <<>> /\ Author(a) \in Known
  <2>1. PICK c \in Known : c = Author(a)
    BY <1>3
  <2>2. o'[c] = o[c] /\ rec'[c].tag = rec[c].tag /\ rec'[c].name = rec[c].name /\ Author(a)' = c
    BY <1>3, <2>1 DEF o
  <2>3. ArtifactOverride(a, o) =
          IF art[a].group # None THEN Named("artifact", a)
          ELSE IF c = None THEN None
          ELSE IF o[c] # None THEN o[c]
          ELSE IF rec[c].tag # None THEN Named("tag", c) ELSE Named("name", rec[c].name)
    BY <1>1, <1>3, <2>1
  <2>4. ArtifactOverride(a, o)' =
          IF art[a].group # None THEN Named("artifact", a)
          ELSE IF c = None THEN None
          ELSE IF o[c] # None THEN o[c]
          ELSE IF rec[c].tag # None THEN Named("tag", c) ELSE Named("name", rec[c].name)
    BY <1>2, <1>3, <2>2
  <2>5. ArtifactOverride(a, o)' = ArtifactOverride(a, o)
    BY <2>3, <2>4
  <2> QED  BY <2>5 DEF o
<1>4. CASE art[a].by = <<>> \/ Author(a) = None
  <2>1. ArtifactOverride(a, o)' = ArtifactOverride(a, o)
    BY <1>1, <1>2, <1>4
  <2> QED  BY <2>1 DEF o
<1> QED  BY <1>3, <1>4

\* So are the sessions, while r is being resolved, when the artifacts they render are.
LEMMA SameOverride ==
  ASSUME GrpInv, GrpInv', NEW r \in SUBSET Documents, NEW s \in Known, s \in Known',
         Own(s)' = Own(s), NEW a, a = rec[s].renders, a = rec'[s].renders, NEW q, q = r \cup {a},
         a \in Documents \ r =>
           ArtifactOverride(a, OverrideWhile(q))' = ArtifactOverride(a, OverrideWhile(q))
  PROVE  OverrideWhile(r)'[s] = OverrideWhile(r)[s]
<1>1. a \in Documents \cup {None}
  BY DEF GrpInv, RecordType, Known
<1>2. OverridesResolve /\ OverridesResolve'
  BY Resolve, ResolveLater
<1>3. CASE Own(s) # None
  <2>1. OverrideWhile(r)[s] = Named("group", Own(s))
    BY <1>2, <1>3 DEF OverridesResolve
  <2>2. OverrideWhile(r)'[s] = Named("group", Own(s)')
    BY <1>2, <1>3 DEF OverridesResolve
  <2> QED  BY <2>1, <2>2
<1>4. CASE Own(s) = None /\ (a = None \/ a \in r)
  <2>1. OverrideWhile(r)[s] = None
    BY <1>2, <1>4 DEF OverridesResolve
  <2>2. OverrideWhile(r)'[s] = None
    BY <1>2, <1>4 DEF OverridesResolve
  <2> QED  BY <2>1, <2>2
<1>5. CASE Own(s) = None /\ a \in Documents \ r
  <2>1. OverrideWhile(r)[s] = ArtifactOverride(a, OverrideWhile(q))
    BY <1>2, <1>5 DEF OverridesResolve
  <2>2. OverrideWhile(r)'[s] = ArtifactOverride(a, OverrideWhile(q))'
    BY <1>2, <1>5 DEF OverridesResolve
  <2> QED  BY <1>5, <2>1, <2>2
<1> QED  BY <1>1, <1>3, <1>4, <1>5

LEMMA AuthorIs ==
  ASSUME GrpInv, NEW a \in Documents, art[a].by # <<>>
  PROVE  /\ Author(a) \in Known \cup {None}
         /\ art[a].by[1] \in Known => Author(a) = art[a].by[1]
<1>1. PICK n \in Nat : DOMAIN CreatorFirst(a) = 1..n /\ n > 0 /\ CreatorFirst(a)[1] = art[a].by[1]
  BY CreatorFirstIs
<1> QED  BY <1>1, FirstIs DEF Author

LEMMA AuthorLater ==
  ASSUME NEW a \in Documents
  PROVE  (GrpInv /\ art[a].by # <<>> /\ art[a].by[1] \in Known => Author(a) = art[a].by[1])'
<1>1. GrpInv /\ art[a].by # <<>> /\ art[a].by[1] \in Known => Author(a) = art[a].by[1]
  BY AuthorIs
<1> QED  BY <1>1, PTL

\* Who touches it.
LEMMA WhoTouches ==
  ASSUME GrpInv, [GroupNext]_grpVars, NEW a \in Documents, art'[a].by # art[a].by
  PROVE  \E by \in Known \cup {User} : Touch(a, by)
<1>1. \/ UNCHANGED art
      \/ \E b \in Documents : GroupArtifact(b) \/ \E by \in Known \cup {User} : Touch(b, by)
  BY DEF GroupNext, grpVars, Spawn, OpenView, Rename, SetTag, SetGroup, Kill, RemoveRecord
<1>2. PICK b \in Documents : GroupArtifact(b) \/ \E by \in Known \cup {User} : Touch(b, by)
  BY <1>1
<1>3. ASSUME GroupArtifact(b) PROVE FALSE
  <2>1. art' = [art EXCEPT ![b].group = "own"]
    BY <1>3 DEF GroupArtifact
  <2>2. \A c \in Documents : art'[c].by = art[c].by
    BY <2>1 DEF GrpInv, Marks
  <2> QED  BY <2>2
<1>4. PICK by \in Known \cup {User} : Touch(b, by)
  BY <1>2, <1>3
<1>5. b = a
  BY <1>4 DEF Touch, GrpInv
<1> QED  BY <1>4, <1>5

LEMMA StepNeverRefiled ==
  ASSUME GrpInv, GrpInv', [GroupNext]_grpVars, NEW a \in Documents,
         art[a].by # <<>>, art'[a].by # art[a].by, art[a].by[1] \in Known
  PROVE  ArtifactGroup(a)' = ArtifactGroup(a)
<1>1. PICK by \in Known \cup {User} : Touch(a, by)
  BY WhoTouches
<1>2. rec' = rec /\ Known' = Known
  BY <1>1 DEF Touch, Known
<1>3. /\ art'[a].group = art[a].group /\ art'[a].by = Append(art[a].by, by)
      /\ \A b \in Documents \ {a} : art'[b] = art[b]
  BY <1>1 DEF Touch, GrpInv
<1>4. art'[a].by # <<>> /\ art'[a].by[1] = art[a].by[1]
  <2> DEFINE s == art[a].by
             T == 0..MaxSession
  <2>1. s \in Seq(T) /\ by \in T /\ s # <<>>
    BY GrpNumbers DEF GrpInv, Known, Sessions, User
  <2> HIDE DEF s, T
  <2>2. Append(s, by) \in Seq(T) /\ Len(Append(s, by)) = Len(s) + 1 /\ Len(s) \in Nat /\ Len(s) > 0
    BY <2>1
  <2>3. Append(s, by)[1] = s[1]
    BY <2>1, <2>2
  <2>4. Append(s, by) # <<>>
    BY <2>2
  <2> QED  BY <1>3, <2>3, <2>4 DEF s
<1>5. Author(a) = art[a].by[1] /\ Author(a)' = art[a].by[1]
  <2>1. Author(a) = art[a].by[1]
    BY AuthorIs
  <2>2. Author(a)' = art'[a].by[1]
    BY <1>2, <1>4, AuthorLater
  <2> QED  BY <1>4, <2>1, <2>2
<1>6. SameForest
  BY <1>2 DEF SameForest
<1>7. \A s : Own(s)' = Own(s)
  <2>1. Overriding' = Overriding
    BY <1>2 DEF Overriding
  <2> QED  BY <1>6, <2>1, SameWalks, Zenon DEF Own
<1>8. \A b \in Documents \ {a} : art[b].by # <<>> => Author(b)' = Author(b) /\ Author(b) \in Known \cup {None}
  <2> SUFFICES ASSUME NEW b \in Documents \ {a}, art[b].by # <<>>
               PROVE  Author(b)' = Author(b) /\ Author(b) \in Known \cup {None}
    OBVIOUS
  <2>1. CreatorFirst(b)' = CreatorFirst(b)
    BY <1>3, Zenon DEF CreatorFirst
  <2>2. Author(b)' = Author(b)
    BY <1>2, <2>1, Zenon DEF Author
  <2> QED  BY <2>2, AuthorIs
<1> DEFINE S == {r \in SUBSET Documents : a \in r => \A s \in Known : OverrideWhile(r)'[s] = OverrideWhile(r)[s]}
<1>9. ASSUME NEW r \in SUBSET Documents, \A b \in Documents \ r : r \cup {b} \in S PROVE r \in S
  <2> SUFFICES ASSUME a \in r, NEW s \in Known PROVE OverrideWhile(r)'[s] = OverrideWhile(r)[s]
    OBVIOUS
  <2>1. PICK b, q : b = rec[s].renders /\ q = r \cup {b}
    OBVIOUS
  <2>2. ASSUME b \in Documents \ r
        PROVE  ArtifactOverride(b, OverrideWhile(q))' = ArtifactOverride(b, OverrideWhile(q))
    <3>1. b \in Documents \ {a} /\ \A t \in Known : OverrideWhile(q)'[t] = OverrideWhile(q)[t]
      BY <1>9, <2>1, <2>2
    <3>2. art'[b] = art[b] /\ (art[b].by # <<>> => Author(b)' = Author(b) /\ Author(b) \in Known \cup {None})
      BY <1>3, <1>8, <3>1
    <3> QED  BY <1>2, <3>1, <3>2, SameFiling
  <2> QED  BY <1>2, <1>7, <2>1, <2>2, SameOverride
<1>10. \A s \in Known : OverrideWhile({a})'[s] = OverrideWhile({a})[s]
  <2>1. \A r \in SUBSET Documents : r \in S
    <3> HIDE DEF S
    <3> QED  BY <1>9, ResolvingInduction
  <2>2. {a} \in SUBSET Documents
    OBVIOUS
  <2> QED  BY <2>1, <2>2
<1>11. ArtifactOverride(a, OverrideWhile({a}))' = ArtifactOverride(a, OverrideWhile({a}))
  <2>1. PICK r : r = {a}
    OBVIOUS
  <2>2. \A s \in Known : OverrideWhile(r)'[s] = OverrideWhile(r)[s]
    BY <1>10, <2>1
  <2>3. Author(a)' = Author(a) /\ Author(a) \in Known \cup {None}
    BY <1>5
  <2>4. ArtifactOverride(a, OverrideWhile(r))' = ArtifactOverride(a, OverrideWhile(r))
    BY <1>2, <1>3, <1>4, <2>2, <2>3, SameFiling
  <2> QED  BY <2>1, <2>4
<1> QED  BY <1>11, Zenon DEF ArtifactGroup

----------------------------------------------------------------------------

\* What a spawn leaves, and what it adds.
LEMMA WhatSpawns ==
  ASSUME GrpInv, [GroupNext]_grpVars, NEW new \in Sessions, rec[new] = None, rec'[new] # None
  PROVE  /\ new = born + 1 /\ new \notin Known /\ new \notin Overriding'
         /\ art' = art /\ \A t \in Sessions \ {new} : rec'[t] = rec[t]
<1>0. rec \in [Sessions -> RecordType \cup {None}] /\ new \notin Known
  BY DEF GrpInv, Known
<1>1. ASSUME NEW s \in Sessions, NEW q, rec' = [rec EXCEPT ![s] = q] PROVE s = new
  BY <1>0, <1>1
<1>2. ASSUME NEW s \in Known, NEW q, rec' = [rec EXCEPT ![s] = q] PROVE FALSE
  BY <1>0, <1>2, <1>1 DEF Known
<1>3. ASSUME NEW s \in Known
      PROVE  /\ ~SetTag(s) /\ ~Kill(s) /\ ~RemoveRecord(s)
             /\ \A name : ~Rename(s, name)
             /\ \A group : ~SetGroup(s, group)
  <2>1. \A q : rec' # [rec EXCEPT ![s] = q]
    BY <1>2
  <2>2. ~SetTag(s)
    BY <2>1 DEF SetTag
  <2>3. ~Kill(s)
    BY <2>1 DEF Kill
  <2>4. ~RemoveRecord(s)
    BY <2>1 DEF RemoveRecord
  <2>5. \A name : ~Rename(s, name)
    BY <2>1 DEF Rename
  <2>6. \A group : ~SetGroup(s, group)
    BY <2>1 DEF SetGroup
  <2> QED  BY <2>2, <2>3, <2>4, <2>5, <2>6
<1>4. rec' # rec
  OBVIOUS
<1>5. PICK s \in Sessions, name \in DisplayNames, parent \in Known \cup {None} :
        Spawn(s, name, parent) \/ \E a \in Documents : OpenView(s, name, parent, a)
  BY <1>3, <1>4 DEF GroupNext, grpVars, GroupArtifact, Touch
<1>6. PICK q : /\ rec' = [rec EXCEPT ![s] = q] /\ s = born + 1 /\ art' = art /\ q.group = None
  <2>1. CASE Spawn(s, name, parent)
    <3>1. NewRecord(name, parent).group = None
      BY DEF NewRecord
    <3> QED  BY <2>1, <3>1 DEF Spawn
  <2>2. CASE \E a \in Documents : OpenView(s, name, parent, a)
    <3>1. PICK a \in Documents : OpenView(s, name, parent, a)
      BY <2>2
    <3>2. [NewRecord(name, parent) EXCEPT !.renders = a].group = None
      BY DEF NewRecord
    <3> QED  BY <3>1, <3>2 DEF OpenView
  <2> QED  BY <1>5, <2>1, <2>2
<1>7. s = new
  BY <1>1, <1>6
<1>8. rec'[new] = q /\ \A t \in Sessions \ {new} : rec'[t] = rec[t]
  BY <1>0, <1>6, <1>7
<1>9. new \notin Overriding'
  BY <1>6, <1>8 DEF Overriding
<1> QED  BY <1>0, <1>6, <1>7, <1>8, <1>9

LEMMA StepSpawn ==
  ASSUME ~Undated, GrpInv, GrpInv', [GroupNext]_grpVars,
         NEW new \in Sessions, rec[new] = None, rec'[new] # None
  PROVE  /\ \A s \in Known : SessionGroup(s)' = SessionGroup(s)
         /\ \A a \in Documents : ArtifactGroup(a)' = ArtifactGroup(a)
<1>1. /\ new = born + 1 /\ new \notin Known /\ new \notin Overriding'
      /\ art' = art /\ \A t \in Sessions \ {new} : rec'[t] = rec[t]
  BY WhatSpawns
<1>2. /\ \A t \in Known : t \in Sessions /\ t # new /\ rec'[t] = rec[t]
      /\ Known' = Known \cup {new}
  BY <1>1 DEF Known
<1>3. born \in Nat /\ new \in Nat /\ Sessions \subseteq Nat /\ \A t \in Known : t <= born
  BY GrpNumbers DEF GrpInv, ComeAfter, Sessions
<1>4. ASSUME NEW s \in Known PROVE Candidates(s)' = Candidates(s)
  <2>1. /\ Born(s) = s /\ Born(new) = new /\ s # None /\ new # None
        /\ s \in Nat /\ s <= born
    BY <1>2, <1>3, GroupsAssumption DEF Born
  <2>2. ~(Born(s) = None \/ BornOrZero(new) <= Born(s))
    BY <1>1, <1>3, <2>1 DEF BornOrZero
  <2> QED  BY <1>2, <2>2 DEF Candidates
<1>5. ASSUME NEW s \in Known PROVE Parent(s)' = Parent(s)
  <2>1. {c \in Candidates(s) : rec[c].alive}' = {c \in Candidates(s) : rec[c].alive}
    <3>1. Candidates(s) \subseteq Known
      BY DEF Candidates
    <3> HIDE DEF Candidates
    <3> QED  BY <1>2, <1>4, <3>1
  <2>2. rec'[s].parent = rec[s].parent
    BY <1>2
  <2>3. rec[s].parent \in Known' <=> rec[s].parent \in Known
    <3>1. rec[s].parent # new
      BY <1>1, <1>3 DEF GrpInv, ComeAfter
    <3> QED  BY <1>2, <3>1
  <2> QED  BY <1>4, <2>1, <2>2, <2>3, Zenon DEF Parent
<1> DEFINE K == Known \cup {None}
<1>6. \A t \in K : UpToHub[t] \in K /\ UpToHub'[t] = UpToHub[t]
  <2>1. UpToHub[None] = None /\ UpToHub'[None] = None
    BY DEF UpToHub
  <2>2. ASSUME NEW t \in Known PROVE UpToHub[t] \in K /\ UpToHub'[t] = UpToHub[t]
    <3>1. StopsAt(t)' = StopsAt(t) /\ t # None /\ t \in Known'
      BY <1>2, NoneIsNoSession DEF StopsAt
    <3>2. UpToHub[t] = IF StopsAt(t) THEN None ELSE Parent(t)
      BY <3>1 DEF UpToHub
    <3>3. UpToHub'[t] = IF StopsAt(t)' THEN None ELSE Parent(t)'
      BY <3>1 DEF UpToHub
    <3>4. Parent(t) \in K
      BY ParentIs
    <3> QED  BY <1>5, <3>1, <3>2, <3>3, <3>4, Zenon
  <2> QED  BY <2>1, <2>2
<1>7. ASSUME NEW s \in Known PROVE Own(s)' = Own(s)
  <2>1. s \in K
    OBVIOUS
  <2> HIDE DEF K
  <2>2. Climb(UpToHub', s) = Climb(UpToHub, s) /\ \A n \in 0..MaxSession : Climb(UpToHub, s)[n] \in K
    BY <1>6, <2>1, ClimbsAgree
  <2>3. DOMAIN Lineage(s) = 0..MaxSession
    BY ClimbIs DEF Lineage
  <2>4. ASSUME NEW t \in K PROVE t \in Overriding' <=> t \in Overriding
    <3>1. t # new
      BY <1>1, <1>3, GroupsAssumption DEF K
    <3> QED  BY <1>2, <3>1 DEF Overriding
  <2>5. FirstIn(Lineage(s), Overriding') = FirstIn(Lineage(s), Overriding)
    BY <2>2, <2>3, <2>4, FirstAgrees DEF Lineage
  <2>6. Lineage(s)' = Lineage(s)
    BY <2>2, Zenon DEF Lineage
  <2> QED  BY <2>5, <2>6, Zenon DEF Own
<1>8. ASSUME NEW a \in Documents, art[a].by # <<>>
      PROVE  Author(a)' = Author(a) /\ Author(a) \in Known \cup {None}
  <2>1. PICK n \in Nat : /\ DOMAIN CreatorFirst(a) = 1..n
                         /\ \A i \in 1..n : CreatorFirst(a)[i] \in ToSet(art[a].by)
    BY <1>8, CreatorFirstIs
  <2>2. \A i \in DOMAIN CreatorFirst(a) : CreatorFirst(a)[i] \in Known' <=> CreatorFirst(a)[i] \in Known
    <3>1. new \notin ToSet(art[a].by)
      <4>1. ToSet(art[a].by) \subseteq 0..born
        BY Zenon DEF GrpInv, ComeAfter
      <4>2. new \notin 0..born
        BY <1>1, <1>3
      <4> QED  BY <4>1, <4>2
    <3> QED  BY <1>2, <2>1, <3>1
  <2>3. FirstIn(CreatorFirst(a), Known') = FirstIn(CreatorFirst(a), Known)
    BY <2>2, FirstAgrees
  <2>4. CreatorFirst(a)' = CreatorFirst(a)
    BY <1>1, Zenon DEF CreatorFirst
  <2>5. Author(a)' = Author(a)
    BY <2>3, <2>4, Zenon DEF Author
  <2> QED  BY <1>8, <2>5, AuthorIs
<1> DEFINE S == {r \in SUBSET Documents : \A s \in Known : OverrideWhile(r)'[s] = OverrideWhile(r)[s]}
<1>9. ASSUME NEW a \in Documents, NEW q \in S
      PROVE  ArtifactOverride(a, OverrideWhile(q))' = ArtifactOverride(a, OverrideWhile(q))
  <2>1. \A s \in Known : OverrideWhile(q)'[s] = OverrideWhile(q)[s]
    OBVIOUS
  <2> QED  BY <1>1, <1>2, <1>8, <2>1, SameFiling
<1>10. ASSUME NEW r \in SUBSET Documents, \A b \in Documents \ r : r \cup {b} \in S PROVE r \in S
  <2> SUFFICES ASSUME NEW s \in Known PROVE OverrideWhile(r)'[s] = OverrideWhile(r)[s]
    OBVIOUS
  <2>1. PICK b, q : b = rec[s].renders /\ q = r \cup {b}
    OBVIOUS
  <2>2. ASSUME b \in Documents \ r
        PROVE  ArtifactOverride(b, OverrideWhile(q))' = ArtifactOverride(b, OverrideWhile(q))
    <3>1. b \in Documents /\ q \in S
      BY <1>10, <2>1, <2>2
    <3> HIDE DEF S
    <3> QED  BY <1>9, <3>1
  <2>3. b = rec'[s].renders /\ s \in Known'
    BY <1>2, <2>1
  <2> QED  BY <1>7, <2>1, <2>2, <2>3, SameOverride
<1>11. \A r \in SUBSET Documents : r \in S
  <2> HIDE DEF S
  <2> QED  BY <1>10, ResolvingInduction
<1>12. ASSUME NEW s \in Known PROVE SessionGroup(s)' = SessionGroup(s)
  <2>1. {} \in SUBSET Documents
    OBVIOUS
  <2>2. OverrideWhile({})'[s] = OverrideWhile({})[s]
    BY <1>11, <2>1
  <2>3. rec'[s] = rec[s]
    BY <1>2
  <2> QED  BY <2>2, <2>3, Zenon DEF SessionGroup, Floor
<1>13. ASSUME NEW a \in Documents PROVE ArtifactGroup(a)' = ArtifactGroup(a)
  <2>1. PICK q : q = {a}
    OBVIOUS
  <2>2. q \in S
    BY <1>11, <2>1
  <2>3. ArtifactOverride(a, OverrideWhile(q))' = ArtifactOverride(a, OverrideWhile(q))
    <3> HIDE DEF S
    <3> QED  BY <1>9, <2>2
  <2>4. ArtifactOverride(a, OverrideWhile({a}))' = ArtifactOverride(a, OverrideWhile({a}))
    BY <2>1, <2>3
  <2> QED  BY <2>4, Zenon DEF ArtifactGroup
<1> QED  BY <1>12, <1>13

----------------------------------------------------------------------------

LEMMA GroupsKeepTypes == GrpInv => GroupTypeOK
<1> SUFFICES ASSUME GrpInv PROVE GroupTypeOK
  OBVIOUS
<1>1. ASSUME NEW s \in Known
      PROVE  /\ rec[s].name \in DisplayNames /\ rec[s].alive \in BOOLEAN
             /\ {rec[s].group, rec[s].tag} \subseteq Marks
             /\ rec[s].parent \in DisplayNames \cup Sessions \cup {None}
             /\ rec[s].renders \in Documents \cup {None}
  <2>1. rec[s] \in RecordType
    BY DEF GrpInv, Known
  <2> QED  BY <2>1 DEF RecordType
<1>2. ASSUME NEW a \in Documents
      PROVE  /\ art[a].group \in Marks /\ Len(art[a].by) <= MaxTouch
             /\ ToSet(art[a].by) \subseteq Sessions \cup {User}
  <2>1. art[a] \in [group: Marks, by: Seq(0..MaxSession)] /\ ToSet(art[a].by) \subseteq 0..born
        /\ Len(art[a].by) <= MaxTouch
    BY DEF GrpInv, ComeAfter
  <2>2. 0..born \subseteq Sessions \cup {User}
    BY GrpNumbers DEF GrpInv, Sessions, User
  <2> QED  BY <2>1, <2>2
<1> QED  BY <1>1, <1>2, Zenon DEF GrpInv, GroupTypeOK

\* Touching an artifact after its creator, setting the group of a session beyond a hub
\* and tagging a session files nothing elsewhere, whatever the records say of their age.
THEOREM EditsKeepOthers == GroupSpec => NeverRefiled /\ NoLeakThroughHub /\ TagsStayOwn
<1>1. ASSUME GrpInv, GrpInv', [GroupNext]_grpVars
      PROVE  [\A a \in Documents :
                art[a].by # <<>> /\ art'[a].by # art[a].by /\ art[a].by[1] \in Known
                  => ArtifactGroup(a)' = ArtifactGroup(a)]_grpVars
  BY <1>1, StepNeverRefiled
<1>2. ASSUME GrpInv, GrpInv', [GroupNext]_grpVars
      PROVE  [\A x \in Known : rec'[x] # None /\ rec'[x].group # rec[x].group =>
                \A s \in Known : BelowAHub(s, x) /\ rec[s].renders = None =>
                  SessionGroup(s)' = SessionGroup(s)]_grpVars
  BY <1>2, StepNoLeak
<1>3. ASSUME GrpInv, GrpInv', [GroupNext]_grpVars
      PROVE  [\A x \in Known : rec'[x] # None /\ rec'[x].tag # rec[x].tag =>
                \A s \in Known \ {x} : rec[s].renders = None => SessionGroup(s)' = SessionGroup(s)]_grpVars
  BY <1>3, StepTagsStayOwn
<1>4. GroupSpec => NeverRefiled
  BY <1>1, GrpInvHolds, PTL DEF GroupSpec, NeverRefiled
<1>5. GroupSpec => NoLeakThroughHub
  BY <1>2, GrpInvHolds, PTL DEF GroupSpec, NoLeakThroughHub
<1>6. GroupSpec => TagsStayOwn
  BY <1>3, GrpInvHolds, PTL DEF GroupSpec, TagsStayOwn
<1> QED  BY <1>4, <1>5, <1>6

\* Nor does a spawn, be it of a session with an old name, once every record has a date
\* of birth.
THEOREM EditsAlwaysStayLocal == ASSUME ~Undated PROVE GroupSpec => EditsStayLocal
<1>1. ASSUME GrpInv, GrpInv', [GroupNext]_grpVars
      PROVE  [\A new \in Sessions : rec[new] = None /\ rec'[new] # None =>
                /\ \A s \in Known : SessionGroup(s)' = SessionGroup(s)
                /\ \A a \in Documents : ArtifactGroup(a)' = ArtifactGroup(a)]_grpVars
  BY <1>1, StepSpawn
<1>2. GroupSpec => SpawnRewritesNothing
  BY <1>1, GrpInvHolds, PTL DEF GroupSpec, SpawnRewritesNothing
<1> QED  BY <1>2, EditsKeepOthers DEF EditsStayLocal

----------------------------------------------------------------------------
(***************************************************************************)
(* UsageFeed.                                                               *)
(***************************************************************************)

Newest == {f \in Written : AmongNewest(f, MaxWalk)}

\* Whether the last signature is of the present.
SignedNow == usage.last = UsageSignature

\* The lines of a file have been written one after the other, the last one by mtime.
Ordered(lines, mtime) ==
    /\ lines \in Seq(Line)
    /\ \A i \in 1..Len(lines) : lines[i].at <= mtime
    /\ \A i, j \in 1..Len(lines) : i < j => lines[i].at < lines[j].at

RolloutsInv(all, now) ==
    /\ all \in [Rollouts -> [lines : Seq(Line), mtime : Nat]]
    /\ \A f \in Rollouts : Ordered(all[f].lines, all[f].mtime) /\ all[f].mtime <= now
    /\ \A f, g \in Rollouts : f # g /\ all[f].mtime > 0 => all[f].mtime # all[g].mtime

\* A signature tells of nothing that is still to come.
SignedBy(last, now) ==
    \/ last = None
    \/ \E p \in Nat, S \in SUBSET (Rollouts \X Nat) :
         last = <<p, S>> /\ p <= now /\ \A e \in S : e[2] <= now

\* What is left to be read, newest first; the rest tells nothing.
WalkFits(walk) ==
    /\ \A k \in 1..Len(walk) : walk[k] \in Newest
    /\ \A k, l \in 1..Len(walk) : k < l => rollouts[walk[k]].mtime > rollouts[walk[l]].mtime
    /\ \A f \in Newest : Told(f) = {} \/ \E k \in 1..Len(walk) : walk[k] = f

UsageType ==
    [pc : {"idle", "build", "walk"}, last : {usage.last}, statusline : Nat, walk : Seq(Rollouts),
     sent : [anthropic : Nat, codex : Nat]]

UsageInv ==
    /\ RolloutsInv(rollouts, writes)
    /\ writes \in Nat /\ posted \in Nat /\ posted <= writes
    /\ usage \in UsageType
    /\ SignedBy(usage.last, writes)
    /\ usage.pc = "walk" /\ SignedNow => usage.statusline = posted /\ WalkFits(usage.walk)
    /\ UsageIsCurrent

----------------------------------------------------------------------------
(* The list of the newest, by ranks.                                        *)
LEMMA NewestFacts ==
  /\ IsFiniteSet(Written) /\ IsFiniteSet(Newest) /\ Newest \subseteq Rollouts
  /\ \A S \in SUBSET Newest : IsFiniteSet(S) /\ Cardinality(S) \in Nat
<1>1. Written \subseteq Rollouts /\ Newest \subseteq Written
  BY DEF Written, Newest
<1>2. IsFiniteSet(Written)
  BY <1>1, FS_Subset, UsageAssumption
<1>3. IsFiniteSet(Newest)
  BY <1>1, <1>2, FS_Subset
<1>4. \A S \in SUBSET Newest : IsFiniteSet(S) /\ Cardinality(S) \in Nat
  BY <1>3, FS_Subset, FS_CardinalityType
<1> QED  BY <1>1, <1>2, <1>3, <1>4

LEMMA NewestFirstFits ==
  ASSUME RolloutsInv(rollouts, writes), writes \in Nat
  PROVE  NewestFirst \in Seq(Rollouts) /\ WalkFits(NewestFirst)
<1> DEFINE Later(f) == {g \in Newest : rollouts[g].mtime >= rollouts[f].mtime}
           N == Cardinality(Newest)
           Rank(f) == Cardinality(Later(f))
           W == [i \in 1..N |-> CHOOSE f \in Newest : Rank(f) = i]
<1>1. NewestFirst = W
  BY DEF NewestFirst, Newest
<1>2. N \in Nat /\ \A f \in Newest : IsFiniteSet(Later(f)) /\ Rank(f) \in 1..N /\ Rank(f) \in Nat
  <2>1. N \in Nat
    BY NewestFacts
  <2>2. ASSUME NEW f \in Newest PROVE IsFiniteSet(Later(f)) /\ Rank(f) \in 1..N /\ Rank(f) \in Nat
    <3>1. Later(f) \in SUBSET Newest /\ f \in Later(f)
      BY <2>2, NewestFacts DEF RolloutsInv
    <3>2. IsFiniteSet(Later(f)) /\ Rank(f) \in Nat /\ Rank(f) <= N
      BY <3>1, NewestFacts, FS_Subset
    <3>3. Rank(f) # 0
      BY <3>1, <3>2, FS_EmptySet
    <3> QED  BY <2>1, <3>2, <3>3
  <2> QED  BY <2>1, <2>2
<1>3. ASSUME NEW f \in Newest, NEW g \in Newest, rollouts[f].mtime > rollouts[g].mtime PROVE Rank(f) < Rank(g)
  <2>1. rollouts[f].mtime \in Nat /\ rollouts[g].mtime \in Nat
    BY NewestFacts DEF RolloutsInv
  <2>2. Later(f) \in SUBSET Later(g) /\ g \in Later(g) /\ g \notin Later(f)
    <3>1. \A h \in Newest : rollouts[h].mtime \in Nat
      BY NewestFacts DEF RolloutsInv
    <3> QED  BY <1>3, <2>1, <3>1
  <2>3. Rank(f) <= Rank(g) /\ Rank(f) # Rank(g)
    BY <1>2, <2>2, FS_Subset
  <2>4. Rank(f) \in Nat /\ Rank(g) \in Nat
    BY <1>2
  <2> QED  BY <2>3, <2>4
<1>4. \A f, g \in Newest : f # g => rollouts[f].mtime > rollouts[g].mtime \/ rollouts[g].mtime > rollouts[f].mtime
  <2> SUFFICES ASSUME NEW f \in Newest, NEW g \in Newest, f # g
               PROVE  rollouts[f].mtime > rollouts[g].mtime \/ rollouts[g].mtime > rollouts[f].mtime
    OBVIOUS
  <2>1. /\ rollouts[f].mtime \in Nat /\ rollouts[g].mtime \in Nat /\ rollouts[f].mtime > 0
        /\ f \in Rollouts /\ g \in Rollouts
    BY NewestFacts DEF RolloutsInv, Newest, Written
  <2>2. rollouts[f].mtime # rollouts[g].mtime
    BY <2>1 DEF RolloutsInv
  <2> QED  BY <2>1, <2>2
<1>5. \A i \in 1..N : \E f \in Newest : Rank(f) = i
  <2> DEFINE R == [f \in Newest |-> Rank(f)]
  <2>1. R \in [Newest -> 1..N]
    BY <1>2
  <2>2. \A f, g \in Newest : f # g => R[f] # R[g]
    <3> SUFFICES ASSUME NEW f \in Newest, NEW g \in Newest, f # g PROVE Rank(f) # Rank(g)
      OBVIOUS
    <3>1. Rank(f) \in Nat /\ Rank(g) \in Nat
      BY <1>2
    <3> HIDE DEF Rank
    <3>2. Rank(f) < Rank(g) \/ Rank(g) < Rank(f)
      <4>1. CASE rollouts[f].mtime > rollouts[g].mtime
        BY <1>3, <4>1
      <4>2. CASE rollouts[g].mtime > rollouts[f].mtime
        BY <1>3, <4>2
      <4> QED  BY <1>4, <4>1, <4>2
    <3> QED  BY <3>1, <3>2
  <2>3. R \in Injection(Newest, 1..N)
    BY <2>1, <2>2 DEF Injection, IsInjective
  <2>4. IsFiniteSet(1..N) /\ Cardinality(1..N) = N
    BY <1>2, FS_Interval
  <2>5. R \in Surjection(Newest, 1..N)
    BY <2>3, <2>4, FS_Injection
  <2> QED  BY <2>5 DEF Surjection
<1> HIDE DEF N, Rank, Later
<1>6. \A i \in 1..N : W[i] \in Newest /\ Rank(W[i]) = i
  BY <1>5
<1>7. W \in Seq(Rollouts) /\ Len(W) = N
  <2>1. W \in [1..N -> Rollouts]
    BY <1>6, NewestFacts
  <2> QED  BY <1>2, <2>1
<1>8. ASSUME NEW k \in 1..N, NEW l \in 1..N, k < l PROVE rollouts[W[k]].mtime > rollouts[W[l]].mtime
  <2>1. W[k] # W[l]
    BY <1>6, <1>8
  <2>2. ~(rollouts[W[l]].mtime > rollouts[W[k]].mtime)
    <3>1. SUFFICES ASSUME rollouts[W[l]].mtime > rollouts[W[k]].mtime PROVE FALSE
      OBVIOUS
    <3>2. Rank(W[l]) < Rank(W[k])
      BY <1>3, <1>6, <3>1
    <3> QED  BY <1>6, <1>8, <3>2, <1>2
  <2> QED  BY <1>4, <1>6, <2>1, <2>2
<1>9. ASSUME NEW f \in Newest PROVE \E k \in 1..N : W[k] = f
  <2>1. Rank(f) \in 1..N /\ W[Rank(f)] \in Newest /\ Rank(W[Rank(f)]) = Rank(f)
    BY <1>2, <1>6
  <2>2. CASE W[Rank(f)] = f
    BY <2>1, <2>2
  <2>3. CASE W[Rank(f)] # f
    <3>1. Rank(W[Rank(f)]) < Rank(f) \/ Rank(f) < Rank(W[Rank(f)])
      BY <1>3, <1>4, <2>1, <2>3
    <3> QED  BY <1>2, <2>1, <3>1
  <2> QED  BY <2>2, <2>3
<1> HIDE DEF W
<1> QED  BY <1>1, <1>6, <1>7, <1>8, <1>9 DEF WalkFits

----------------------------------------------------------------------------
(* What the lines of a rollout tell.                                        *)
LEMMA LimitsAreTold ==
  ASSUME NEW f \in Rollouts, RolloutsInv(rollouts, writes)
  PROVE  /\ LatestLimits(rollouts[f].lines) \in Nat
         /\ Told(f) = {} => LatestLimits(rollouts[f].lines) = 0
         /\ Told(f) # {} => /\ LatestLimits(rollouts[f].lines) # 0
                            /\ \E l \in Told(f) : /\ LatestLimits(rollouts[f].lines) = l.at
                                                  /\ \A k \in Told(f) : k.at <= l.at
<1> DEFINE lines == rollouts[f].lines
           limits == {i \in 1..Len(lines) : lines[i].carries /\ lines[i].whole}
<1>1. /\ lines \in Seq(Line) /\ Len(lines) \in Nat
      /\ \A i \in 1..Len(lines) : lines[i] \in Line
      /\ \A i, j \in 1..Len(lines) : i < j => lines[i].at < lines[j].at
  BY DEF RolloutsInv, Ordered
<1>2. \A i \in 1..Len(lines) : lines[i].at \in Nat /\ lines[i].at # 0
  BY <1>1, UsageAssumption DEF Line
<1>3. \A l : l \in Told(f) <=> \E i \in limits : l = lines[i]
  BY DEF Told
<1>4. LatestLimits(lines) = IF limits = {} THEN 0 ELSE lines[CHOOSE i \in limits : \A j \in limits : j <= i].at
  BY DEF LatestLimits
<1>5. CASE limits = {}
  <2> HIDE DEF limits
  <2>1. Told(f) = {} /\ LatestLimits(lines) = 0
    BY <1>3, <1>4, <1>5
  <2> QED  BY <2>1
<1>6. CASE limits # {}
  <2>1. \E i \in limits : \A j \in limits : j <= i
    <3>1. limits \in SUBSET (1..Len(lines))
      OBVIOUS
    <3> HIDE DEF limits
    <3> QED  BY <1>1, <1>6, <3>1, GreatestExists
  <2>2. PICK i \in limits : (\A j \in limits : j <= i) /\ LatestLimits(lines) = lines[i].at
    BY <1>4, <1>6, <2>1
  <2>3. i \in 1..Len(lines) /\ lines[i] \in Told(f)
    BY <1>3
  <2>4. ASSUME NEW k \in Told(f) PROVE k.at <= lines[i].at
    <3>1. PICK j \in limits : k = lines[j]
      BY <1>3, <2>4
    <3>2. j \in 1..Len(lines) /\ j <= i
      BY <2>2, <3>1
    <3>3. CASE j = i
      BY <1>2, <2>3, <3>1, <3>3
    <3>4. CASE j < i
      BY <1>1, <1>2, <2>3, <3>1, <3>2, <3>4
    <3> QED  BY <2>3, <3>2, <3>3, <3>4
  <2> HIDE DEF limits, lines
  <2>5. Told(f) # {} /\ LatestLimits(lines) \in Nat /\ LatestLimits(lines) # 0
    BY <1>2, <2>2, <2>3
  <2> QED  BY <2>2, <2>3, <2>4, <2>5 DEF lines
<1> QED  BY <1>5, <1>6

----------------------------------------------------------------------------
(* A post or a write makes the last signature one of the past.              *)
LEMMA PastIsUnsigned ==
  ASSUME NEW last, NEW now \in Nat, SignedBy(last, now),
         NEW p \in Nat, NEW S \in SUBSET (Rollouts \X Nat), p = now + 1 \/ \E e \in S : e[2] = now + 1
  PROVE  last # <<p, S>>
<1>1. CASE last = None
  BY <1>1, UsageAssumption
<1>2. CASE last # None
  <2>1. PICK q \in Nat, T \in SUBSET (Rollouts \X Nat) : last = <<q, T>> /\ q <= now /\ \A e \in T : e[2] <= now
    BY <1>2 DEF SignedBy
  <2>2. CASE p = now + 1
    BY <2>1, <2>2
  <2>3. CASE \E e \in S : e[2] = now + 1
    <3>1. PICK e \in S : e[2] = now + 1
      BY <2>3
    <3>2. SUFFICES ASSUME S = T PROVE FALSE
      BY <2>1
    <3>3. e[2] <= now
      BY <2>1, <3>1, <3>2
    <3> QED  BY <3>1, <3>3
  <2> QED  BY <2>2, <2>3
<1> QED  BY <1>1, <1>2

\* The signature tells of nothing to come, and of the file that is written now.
SignatureIsOf(now) ==
    \E S \in SUBSET (Rollouts \X Nat) :
      /\ UsageSignature = <<posted, S>> /\ \A e \in S : e[2] <= now
      /\ \A f \in Rollouts : rollouts[f].mtime = now /\ now > 0 => <<f, now>> \in S

LEMMA SignatureParts ==
  RolloutsInv(rollouts, writes) /\ writes \in Nat => SignatureIsOf(writes)
<1> SUFFICES ASSUME RolloutsInv(rollouts, writes), writes \in Nat PROVE SignatureIsOf(writes)
  OBVIOUS
<1> DEFINE Top == {g \in Written : AmongNewest(g, 1)}
           S == {<<f, rollouts[f].mtime>> : f \in Top}
<1>1. UsageSignature = <<posted, S>>
  BY DEF UsageSignature
<1>2. \A f \in Rollouts : rollouts[f].mtime \in Nat /\ rollouts[f].mtime <= writes
  BY DEF RolloutsInv
<1>3. Top \subseteq Rollouts
  BY DEF Written
<1>4. S \in SUBSET (Rollouts \X Nat) /\ \A e \in S : e[2] <= writes
  BY <1>2, <1>3
<1>5. ASSUME NEW f \in Rollouts, rollouts[f].mtime = writes, writes > 0 PROVE <<f, writes>> \in S
  <2>1. {g \in Written : rollouts[g].mtime > rollouts[f].mtime} = {}
    BY <1>2, <1>5 DEF Written
  <2>2. f \in Top
    BY <1>5, <2>1, FS_EmptySet DEF AmongNewest, Written
  <2> QED  BY <1>5, <2>2
<1> HIDE DEF S
<1> QED  BY <1>1, <1>4, <1>5 DEF SignatureIsOf

----------------------------------------------------------------------------
(* The steps.  A change of a provider is not signed yet.                    *)
LEMMA ChangeKeepsUsage ==
  ASSUME UsageInv, writes' = writes + 1, UNCHANGED usage,
         RolloutsInv(rollouts, writes)', posted' \in Nat, posted' <= writes',
         posted' = writes' \/ \E f \in Rollouts : rollouts'[f].mtime = writes'
  PROVE  UsageInv'
<1>1. writes \in Nat /\ writes' \in Nat /\ writes' > 0 /\ SignedBy(usage.last, writes)
  BY DEF UsageInv
<1>2. PICK S \in SUBSET (Rollouts \X Nat) :
        /\ UsageSignature' = <<posted', S>>
        /\ \A f \in Rollouts : rollouts'[f].mtime = writes' /\ writes' > 0 => <<f, writes'>> \in S
  <2>1. (RolloutsInv(rollouts, writes) /\ writes \in Nat => SignatureIsOf(writes))'
    BY SignatureParts, PTL
  <2> QED  BY <1>1, <2>1 DEF SignatureIsOf
<1>3. posted' = writes + 1 \/ \E e \in S : e[2] = writes + 1
  BY <1>1, <1>2
<1>4. ~SignedNow'
  BY <1>1, <1>2, <1>3, PastIsUnsigned DEF SignedNow
<1>5. SignedBy(usage.last, writes)'
  BY <1>1 DEF SignedBy
<1> QED  BY <1>1, <1>4, <1>5 DEF UsageInv, UsageType, UsageIsCurrent, SignedNow

(* A file f that is written now, to have the lines new.                     *)
LEMMA WrittenNow ==
  ASSUME NEW all, NEW now \in Nat, RolloutsInv(all, now), NEW f \in Rollouts, NEW new, NEW later,
         Ordered(new, now + 1), later = [all EXCEPT ![f] = [lines |-> new, mtime |-> now + 1]]
  PROVE  RolloutsInv(later, now + 1)
<1>1. /\ all \in [Rollouts -> [lines : Seq(Line), mtime : Nat]] /\ new \in Seq(Line)
      /\ \A g \in Rollouts : all[g].mtime \in Nat /\ all[g].mtime <= now
  BY DEF RolloutsInv, Ordered
<1>2. later \in [Rollouts -> [lines : Seq(Line), mtime : Nat]]
  BY <1>1
<1>3. /\ later[f].lines = new /\ later[f].mtime = now + 1
      /\ \A g \in Rollouts \ {f} : later[g] = all[g]
  BY <1>1
<1>4. \A g \in Rollouts : Ordered(later[g].lines, later[g].mtime) /\ later[g].mtime <= now + 1
  <2>1. ASSUME NEW g \in Rollouts, g # f PROVE Ordered(later[g].lines, later[g].mtime) /\ later[g].mtime <= now + 1
    BY <1>1, <1>3, <2>1 DEF RolloutsInv
  <2>2. Ordered(later[f].lines, later[f].mtime) /\ later[f].mtime <= now + 1
    BY <1>3
  <2> QED  BY <2>1, <2>2
<1>5. ASSUME NEW g \in Rollouts, NEW h \in Rollouts, g # h, later[g].mtime > 0 PROVE later[g].mtime # later[h].mtime
  <2>1. CASE g = f \/ h = f
    BY <1>1, <1>3, <1>5, <2>1
  <2>2. CASE g # f /\ h # f
    BY <1>3, <1>5, <2>2 DEF RolloutsInv
  <2> QED  BY <2>1, <2>2
<1> QED  BY <1>2, <1>4, <1>5 DEF RolloutsInv

LEMMA CodexKeepsUsage ==
  ASSUME UsageInv, NEW f \in Rollouts, CodexWrites(f) \/ CodexFlushes(f)
  PROVE  UsageInv'
<1> DEFINE lines == rollouts[f].lines
           n == Len(lines)
<1>1. /\ RolloutsInv(rollouts, writes) /\ writes \in Nat /\ posted \in Nat /\ posted <= writes
      /\ writes' = writes + 1 /\ writes' \in 1..MaxTicks /\ UNCHANGED <<posted, usage>>
  BY UsageAssumption DEF UsageInv, CodexWrites, CodexFlushes, Clocked
<1>2. /\ lines \in Seq(Line) /\ n \in Nat /\ rollouts[f].mtime \in Nat /\ rollouts[f].mtime <= writes
      /\ rollouts[f] = [lines |-> lines, mtime |-> rollouts[f].mtime]
      /\ rollouts \in [Rollouts -> [lines : Seq(Line), mtime : Nat]]
      /\ \A i \in 1..n : lines[i] \in Line /\ lines[i].at \in Nat /\ lines[i].at <= writes
      /\ \A i, j \in 1..n : i < j => lines[i].at < lines[j].at
  <2>1. rollouts \in [Rollouts -> [lines : Seq(Line), mtime : Nat]] /\ Ordered(lines, rollouts[f].mtime)
        /\ rollouts[f].mtime <= writes
    BY <1>1 DEF RolloutsInv
  <2>2. lines \in Seq(Line) /\ n \in Nat /\ rollouts[f].mtime \in Nat
        /\ rollouts[f] = [lines |-> lines, mtime |-> rollouts[f].mtime]
    BY <2>1
  <2>3. \A i \in 1..n : lines[i] \in Line /\ lines[i].at <= rollouts[f].mtime
    BY <2>1, <2>2 DEF Ordered
  <2>4. \A i \in 1..n : lines[i].at \in Nat
    BY <2>3, UsageAssumption DEF Line
  <2>5. \A i \in 1..n : lines[i].at <= writes
    <3> HIDE DEF lines, n
    <3> QED  BY <1>1, <2>1, <2>2, <2>3, <2>4
  <2> QED  BY <2>1, <2>2, <2>3, <2>4, <2>5 DEF Ordered
<1> HIDE DEF lines, n
<1>3. \E new : Ordered(new, writes + 1) /\ rollouts' = [rollouts EXCEPT ![f] = [lines |-> new, mtime |-> writes + 1]]
  <2>1. CASE CodexWrites(f)
    <3>1. PICK carries \in BOOLEAN, whole \in BOOLEAN :
            rollouts' = [rollouts EXCEPT ![f] =
              [lines |-> Append(@.lines, [carries |-> carries, whole |-> whole, at |-> writes']), mtime |-> writes']]
      BY <2>1 DEF CodexWrites
    <3> DEFINE l == [carries |-> carries, whole |-> whole, at |-> writes']
               new == Append(lines, l)
    <3>2. l \in Line /\ l.at = writes + 1
      BY <1>1 DEF Line
    <3> HIDE DEF l
    <3>3. /\ new \in Seq(Line) /\ Len(new) = n + 1 /\ new[n + 1] = l
          /\ \A i \in 1..n : new[i] = lines[i]
      BY <1>2, <3>2 DEF n
    <3> HIDE DEF new
    <3>4. Ordered(new, writes + 1)
      <4>1. \A i \in 1..n + 1 : i \in 1..n \/ i = n + 1
        BY <1>2
      <4>2. ASSUME NEW i \in 1..n + 1 PROVE new[i].at <= writes + 1
        <5>1. CASE i \in 1..n
          <6>1. lines[i].at \in Nat /\ lines[i].at <= writes /\ new[i] = lines[i]
            BY <1>2, <3>3, <5>1
          <6> QED  BY <1>1, <6>1
        <5>2. CASE i = n + 1
          <6>1. new[i].at = writes + 1
            BY <3>2, <3>3, <5>2
          <6> QED  BY <1>1, <6>1
        <5> QED  BY <4>1, <5>1, <5>2
      <4>3. ASSUME NEW i \in 1..n + 1, NEW j \in 1..n + 1, i < j PROVE new[i].at < new[j].at
        <5>1. i \in 1..n
          BY <1>2, <4>3
        <5>2. CASE j \in 1..n
          <6>1. lines[i].at < lines[j].at
            BY <1>2, <4>3, <5>1, <5>2
          <6> QED  BY <3>3, <5>1, <5>2, <6>1
        <5>3. CASE j = n + 1
          <6>1. lines[i].at \in Nat /\ lines[i].at <= writes /\ new[i] = lines[i]
            BY <1>2, <3>3, <5>1
          <6>2. new[j].at = writes + 1
            BY <3>2, <3>3, <5>3
          <6> QED  BY <1>1, <6>1, <6>2
        <5> QED  BY <4>1, <5>2, <5>3
      <4> QED  BY <3>3, <4>2, <4>3 DEF Ordered
    <3>5. rollouts' = [rollouts EXCEPT ![f] = [lines |-> new, mtime |-> writes + 1]]
      BY <1>1, <3>1 DEF new, l, lines
    <3> QED  BY <3>4, <3>5
  <2>2. CASE CodexFlushes(f)
    <3> DEFINE new == [lines EXCEPT ![n].whole = TRUE]
    <3>1. /\ n \in 1..n
          /\ rollouts' = [rollouts EXCEPT
               ![f] = [lines |-> [@.lines EXCEPT ![Len(rollouts[f].lines)].whole = TRUE], mtime |-> writes']]
      BY <1>2, <2>2 DEF CodexFlushes, Torn, n, lines
    <3>2. /\ new \in Seq(Line) /\ Len(new) = n
          /\ \A i \in 1..n : new[i].at = lines[i].at
      <4>1. lines \in [1..n -> Line]
        BY <1>2 DEF n
      <4>2. [lines[n] EXCEPT !.whole = TRUE] \in Line /\ [lines[n] EXCEPT !.whole = TRUE].at = lines[n].at
        BY <3>1, <4>1 DEF Line
      <4>3. \A i \in 1..n : new[i] = IF i = n THEN [lines[n] EXCEPT !.whole = TRUE] ELSE lines[i]
        BY <4>1
      <4>4. DOMAIN new = 1..n /\ new = [i \in 1..n |-> new[i]]
        BY <4>1
      <4> HIDE DEF new
      <4>5. new \in [1..n -> Line]
        <5>1. \A i \in 1..n : new[i] \in Line
          BY <4>1, <4>2, <4>3
        <5> QED  BY <4>4, <5>1
      <4>6. \A i \in 1..n : new[i].at = lines[i].at
        BY <4>2, <4>3
      <4> QED  BY <1>2, <4>5, <4>6
    <3>3. rollouts' = [rollouts EXCEPT ![f] = [lines |-> new, mtime |-> writes + 1]]
      BY <1>1, <1>2, <3>1 DEF n, lines
    <3> HIDE DEF new
    <3>4. Ordered(new, writes + 1)
      <4>1. ASSUME NEW i \in 1..n PROVE new[i].at <= writes + 1
        <5>1. lines[i].at \in Nat /\ lines[i].at <= writes /\ new[i].at = lines[i].at
          BY <1>2, <3>2
        <5> QED  BY <1>1, <5>1
      <4>2. ASSUME NEW i \in 1..n, NEW j \in 1..n, i < j PROVE new[i].at < new[j].at
        <5>1. lines[i].at < lines[j].at
          BY <1>2, <4>2
        <5> QED  BY <3>2, <5>1
      <4> QED  BY <3>2, <4>1, <4>2 DEF Ordered
    <3> QED  BY <3>3, <3>4
  <2> QED  BY <2>1, <2>2
<1>4. PICK new : Ordered(new, writes + 1) /\ rollouts' = [rollouts EXCEPT ![f] = [lines |-> new, mtime |-> writes + 1]]
  BY <1>3
<1>5. RolloutsInv(rollouts', writes + 1)
  BY <1>1, <1>4, WrittenNow
<1>6. rollouts'[f].mtime = writes'
  BY <1>1, <1>2, <1>4
<1> QED  BY <1>1, <1>5, <1>6, ChangeKeepsUsage

LEMMA PostKeepsUsage == UsageInv /\ SetAnthropicUsage => UsageInv'
<1> SUFFICES ASSUME UsageInv, SetAnthropicUsage PROVE UsageInv'
  OBVIOUS
<1>1. /\ RolloutsInv(rollouts, writes) /\ writes \in Nat /\ writes' = writes + 1 /\ posted' = writes'
      /\ UNCHANGED <<rollouts, usage>>
  BY DEF UsageInv, SetAnthropicUsage, Clocked
<1>2. \A g \in Rollouts : rollouts[g].mtime \in Nat /\ rollouts[g].mtime <= writes + 1
  BY <1>1 DEF RolloutsInv
<1>3. RolloutsInv(rollouts, writes)'
  BY <1>1, <1>2 DEF RolloutsInv
<1> QED  BY <1>1, <1>3, ChangeKeepsUsage

----------------------------------------------------------------------------
(* The poll thread.                                                         *)
LEMMA PollKeepsUsage ==
  ASSUME UsageInv, UNCHANGED <<rollouts, writes, posted>>, usage' \in UsageType',
         SignedBy(usage'.last, writes),
         usage'.pc = "walk" /\ SignedNow' => usage'.statusline = posted /\ WalkFits(usage'.walk),
         UsageIsCurrent'
  PROVE  UsageInv'
<1>1. /\ Newest' = Newest /\ \A f : Told(f)' = Told(f)
  BY DEF Newest, Written, AmongNewest, Told
<1>2. WalkFits(usage.walk)' = WalkFits(usage'.walk)
  BY <1>1 DEF WalkFits
<1> QED  BY <1>2 DEF UsageInv

LEMMA PushKeepsUsage == UsageInv /\ PushUsageIfChanged => UsageInv'
<1> SUFFICES ASSUME UsageInv, PushUsageIfChanged PROVE UsageInv'
  OBVIOUS
<1> DEFINE x == [usage EXCEPT !.pc = "build", !.last = UsageSignature]
<1>1. /\ usage' = x /\ usage \in UsageType /\ UNCHANGED <<rollouts, writes, posted>>
      /\ RolloutsInv(rollouts, writes) /\ writes \in Nat /\ posted \in Nat /\ posted <= writes
  BY DEF PushUsageIfChanged, UsageInv
<1>2. SignedBy(UsageSignature, writes)
  BY <1>1, SignatureParts DEF SignatureIsOf, SignedBy
<1>3. x.pc = "build" /\ x.last = UsageSignature /\ usage' \in UsageType'
  BY <1>1 DEF UsageType
<1> HIDE DEF x
<1> QED  BY <1>1, <1>2, <1>3, PollKeepsUsage DEF UsageIsCurrent

LEMMA ListKeepsUsage == UsageInv /\ ListRollouts => UsageInv'
<1> SUFFICES ASSUME UsageInv, ListRollouts PROVE UsageInv'
  OBVIOUS
<1> DEFINE x == [usage EXCEPT !.pc = "walk", !.statusline = posted, !.walk = NewestFirst]
<1>1. /\ usage' = x /\ usage \in UsageType /\ UNCHANGED <<rollouts, writes, posted>>
      /\ RolloutsInv(rollouts, writes) /\ writes \in Nat /\ posted \in Nat /\ SignedBy(usage.last, writes)
  BY DEF ListRollouts, UsageInv
<1>2. NewestFirst \in Seq(Rollouts) /\ WalkFits(NewestFirst)
  BY <1>1, NewestFirstFits
<1>3. /\ x.pc = "walk" /\ x.last = usage.last /\ x.statusline = posted /\ x.walk = NewestFirst
      /\ usage' \in UsageType'
  BY <1>1, <1>2 DEF UsageType
<1> HIDE DEF x
<1> QED  BY <1>1, <1>2, <1>3, PollKeepsUsage DEF UsageIsCurrent

\* What a walk that fits finds first is what the tabs should be told.
LEMMA WalkFinds ==
  ASSUME RolloutsInv(rollouts, writes), NEW walk \in Seq(Rollouts), WalkFits(walk)
  PROVE  /\ walk = <<>> => Telling = {}
         /\ walk # <<>> /\ LatestLimits(rollouts[Head(walk)].lines) = 0 => WalkFits(Tail(walk))
         /\ walk # <<>> /\ LatestLimits(rollouts[Head(walk)].lines) # 0 =>
              \E f \in Telling : \E l \in Told(f) :
                /\ LatestLimits(rollouts[Head(walk)].lines) = l.at
                /\ \A k \in Told(f) : k.at <= l.at
                /\ \A g \in Telling : rollouts[g].mtime <= rollouts[f].mtime
<1>1. \A f : f \in Telling <=> f \in Newest /\ Told(f) # {}
  BY DEF Telling, Newest
<1>2. /\ \A k \in 1..Len(walk) : walk[k] \in Newest
      /\ \A k, l \in 1..Len(walk) : k < l => rollouts[walk[k]].mtime > rollouts[walk[l]].mtime
      /\ \A f \in Newest : Told(f) = {} \/ \E k \in 1..Len(walk) : walk[k] = f
  BY DEF WalkFits
<1>3. ASSUME walk = <<>> PROVE Telling = {}
  BY <1>1, <1>2, <1>3
<1>4. ASSUME walk # <<>>
      PROVE  /\ Head(walk) = walk[1] /\ 1 \in 1..Len(walk) /\ walk[1] \in Rollouts
             /\ Len(Tail(walk)) = Len(walk) - 1 /\ Len(walk) \in Nat
             /\ \A k \in 1..Len(Tail(walk)) : Tail(walk)[k] = walk[k + 1]
  BY <1>4
<1>5. ASSUME walk # <<>>, LatestLimits(rollouts[Head(walk)].lines) = 0 PROVE WalkFits(Tail(walk))
  <2>1. Told(walk[1]) = {}
    BY <1>4, <1>5, LimitsAreTold
  <2> DEFINE rest == Tail(walk)
  <2>2. /\ \A k \in 1..Len(rest) : k + 1 \in 1..Len(walk) /\ rest[k] = walk[k + 1]
        /\ \A k \in 1..Len(walk) : k = 1 \/ (k - 1 \in 1..Len(rest) /\ rest[k - 1] = walk[k])
    <3>1. /\ Len(walk) \in Nat /\ Len(rest) = Len(walk) - 1
          /\ \A k \in 1..Len(rest) : rest[k] = walk[k + 1]
      BY <1>4, <1>5
    <3> HIDE DEF rest
    <3>2. \A k \in 1..Len(rest) : k + 1 \in 1..Len(walk)
      BY <3>1
    <3>3. \A k \in 1..Len(walk) : k = 1 \/ (k - 1 \in 1..Len(rest) /\ k = k - 1 + 1)
      BY <3>1
    <3> QED  BY <3>1, <3>2, <3>3
  <2> HIDE DEF rest
  <2>3. \A k \in 1..Len(rest) : rest[k] \in Newest
    BY <1>2, <2>2
  <2>4. ASSUME NEW k \in 1..Len(rest), NEW l \in 1..Len(rest), k < l
        PROVE  rollouts[rest[k]].mtime > rollouts[rest[l]].mtime
    <3>1. k + 1 \in 1..Len(walk) /\ l + 1 \in 1..Len(walk) /\ k + 1 < l + 1
      BY <2>2, <2>4
    <3>2. rest[k] = walk[k + 1] /\ rest[l] = walk[l + 1]
      BY <2>2
    <3> QED  BY <1>2, <3>1, <3>2
  <2>5. ASSUME NEW f \in Newest, Told(f) # {} PROVE \E k \in 1..Len(rest) : rest[k] = f
    <3>1. PICK k \in 1..Len(walk) : walk[k] = f
      BY <1>2, <2>5
    <3>2. k # 1
      BY <2>1, <2>5, <3>1
    <3> QED  BY <2>2, <3>1, <3>2
  <2> QED  BY <2>3, <2>4, <2>5 DEF WalkFits, rest
<1>6. ASSUME walk # <<>>, LatestLimits(rollouts[Head(walk)].lines) # 0
      PROVE  \E f \in Telling : \E l \in Told(f) :
               /\ LatestLimits(rollouts[Head(walk)].lines) = l.at
               /\ \A k \in Told(f) : k.at <= l.at
               /\ \A g \in Telling : rollouts[g].mtime <= rollouts[f].mtime
  <2>1. Told(walk[1]) # {}
    BY <1>4, <1>6, LimitsAreTold
  <2>2. PICK l \in Told(walk[1]) : LatestLimits(rollouts[walk[1]].lines) = l.at /\ \A k \in Told(walk[1]) : k.at <= l.at
    BY <1>4, <1>6, <2>1, LimitsAreTold
  <2>3. walk[1] \in Telling
    BY <1>1, <1>2, <1>4, <1>6, <2>1
  <2>4. ASSUME NEW g \in Telling PROVE rollouts[g].mtime <= rollouts[walk[1]].mtime
    <3>1. PICK k \in 1..Len(walk) : walk[k] = g
      BY <1>1, <1>2
    <3>2. g \in Rollouts /\ rollouts[g].mtime \in Nat /\ rollouts[walk[1]].mtime \in Nat
      BY <1>1, <1>4, <1>6, NewestFacts DEF RolloutsInv
    <3>3. CASE k = 1
      BY <3>1, <3>2, <3>3
    <3>4. CASE k # 1
      <4>1. 1 < k
        BY <3>4
      <4>2. rollouts[walk[1]].mtime > rollouts[walk[k]].mtime
        BY <1>2, <1>4, <1>6, <4>1
      <4> QED  BY <3>1, <3>2, <4>2
    <3> QED  BY <3>3, <3>4
  <2> QED  BY <1>4, <1>6, <2>2, <2>3, <2>4
<1> QED  BY <1>3, <1>5, <1>6

LEMMA ReadKeepsUsage == UsageInv /\ ReadRollout => UsageInv'
<1> SUFFICES ASSUME UsageInv, ReadRollout PROVE UsageInv'
  OBVIOUS
<1> DEFINE limits == IF usage.walk = <<>> THEN 0 ELSE LatestLimits(rollouts[Head(usage.walk)].lines)
           x == [usage EXCEPT !.walk = Tail(@)]
           y == [usage EXCEPT !.pc = "idle", !.statusline = 0, !.walk = <<>>,
                              !.sent = [anthropic |-> usage.statusline, codex |-> limits]]
<1>1. /\ usage.pc = "walk" /\ usage \in UsageType /\ UNCHANGED <<rollouts, writes, posted>>
      /\ RolloutsInv(rollouts, writes) /\ writes \in Nat /\ posted \in Nat /\ SignedBy(usage.last, writes)
      /\ (SignedNow => usage.statusline = posted /\ WalkFits(usage.walk))
      /\ usage.walk \in Seq(Rollouts)
  BY DEF ReadRollout, UsageInv, UsageType
<1>2. UsageSignature' = UsageSignature
  BY <1>1 DEF UsageSignature, Written, AmongNewest
<1>3. CASE limits = 0 /\ usage.walk # <<>>
  <2>1. usage' = x
    BY <1>3 DEF ReadRollout
  <2>2. Tail(usage.walk) \in Seq(Rollouts)
    BY <1>1, <1>3
  <2>3. x.pc = "walk" /\ x.last = usage.last /\ x.statusline = usage.statusline /\ x.walk = Tail(usage.walk)
        /\ usage' \in UsageType'
    BY <1>1, <2>1, <2>2 DEF UsageType
  <2> HIDE DEF x
  <2>4. SignedNow' = SignedNow
    BY <1>2, <2>1, <2>3 DEF SignedNow
  <2>5. SignedNow => WalkFits(Tail(usage.walk))
    BY <1>1, <1>3, WalkFinds
  <2> QED  BY <1>1, <2>1, <2>3, <2>4, <2>5, PollKeepsUsage DEF UsageIsCurrent
<1>4. CASE ~(limits = 0 /\ usage.walk # <<>>)
  <2>1. usage' = y
    BY <1>4 DEF ReadRollout, SendUsage
  <2>2. limits \in Nat
    <3>1. CASE usage.walk = <<>>
      BY <3>1
    <3>2. CASE usage.walk # <<>>
      <4>1. Head(usage.walk) \in Rollouts
        BY <1>1, <3>2
      <4> QED  BY <1>1, <3>2, <4>1, LimitsAreTold
    <3> QED  BY <3>1, <3>2
  <2> HIDE DEF limits
  <2>3. y.pc = "idle" /\ y.last = usage.last /\ y.sent = [anthropic |-> usage.statusline, codex |-> limits]
        /\ usage' \in UsageType'
    <3>1. usage.statusline \in Nat /\ DOMAIN usage = {"pc", "last", "statusline", "walk", "sent"}
      BY <1>1 DEF UsageType
    <3>2. [anthropic |-> usage.statusline, codex |-> limits] \in [anthropic : Nat, codex : Nat]
      BY <2>2, <3>1
    <3>3. y.pc = "idle" /\ y.last = usage.last /\ y.sent = [anthropic |-> usage.statusline, codex |-> limits]
      BY <3>1
    <3>4. y \in UsageType
      <4>1. <<>> \in Seq(Rollouts) /\ 0 \in Nat
        OBVIOUS
      <4> DEFINE z == [usage EXCEPT !.sent = [anthropic |-> usage.statusline, codex |-> limits]]
      <4>2. z \in UsageType
        BY <1>1, <3>2 DEF UsageType
      <4>3. y = [z EXCEPT !.pc = "idle", !.statusline = 0, !.walk = <<>>]
        OBVIOUS
      <4> HIDE DEF z, y
      <4> QED  BY <4>1, <4>2, <4>3 DEF UsageType
    <3> HIDE DEF y
    <3>5. usage'.last = usage.last
      BY <2>1, <3>3
    <3>6. UsageType' = UsageType
      BY <3>5 DEF UsageType
    <3>7. usage' \in UsageType'
      BY <2>1, <3>4, <3>6
    <3> QED  BY <3>3, <3>7
  <2> HIDE DEF y
  <2>4. SignedNow' = SignedNow
    BY <1>2, <2>1, <2>3 DEF SignedNow
  <2>5. /\ Telling' = Telling /\ \A f : Told(f)' = Told(f)
    BY <1>1 DEF Telling, Written, AmongNewest, Told
  <2>6. UsageIsCurrent'
    <3> SUFFICES ASSUME SignedNow
                 PROVE  /\ usage'.sent.anthropic = posted
                        /\ Telling = {} => usage'.sent.codex = 0
                        /\ Telling # {} => \E f \in Telling : \E l \in Told(f) :
                             /\ usage'.sent.codex = l.at
                             /\ \A k \in Told(f) : k.at <= l.at
                             /\ \A g \in Telling : rollouts[g].mtime <= rollouts[f].mtime
      <4>1. ASSUME SignedNow' PROVE SignedNow
        BY <2>4, <4>1
      <4>2. (usage'.last = UsageSignature') => SignedNow
        BY <4>1 DEF SignedNow
      <4> QED  BY <1>1, <2>5, <4>2 DEF UsageIsCurrent
    <3>1. usage'.sent.anthropic = posted /\ usage'.sent.codex = limits /\ WalkFits(usage.walk)
      BY <1>1, <2>1, <2>3
    <3>2. CASE usage.walk = <<>>
      BY <1>1, <3>1, <3>2, WalkFinds DEF limits
    <3>3. CASE usage.walk # <<>>
      <4>1. LatestLimits(rollouts[Head(usage.walk)].lines) # 0 /\ limits = LatestLimits(rollouts[Head(usage.walk)].lines)
        BY <1>4, <3>3 DEF limits
      <4>2. \E f \in Telling : \E l \in Told(f) :
                /\ LatestLimits(rollouts[Head(usage.walk)].lines) = l.at
                /\ \A k \in Told(f) : k.at <= l.at
                /\ \A g \in Telling : rollouts[g].mtime <= rollouts[f].mtime
        BY <1>1, <3>1, <3>3, <4>1, WalkFinds
      <4> QED  BY <3>1, <4>1, <4>2
    <3> QED  BY <3>2, <3>3
  <2> QED  BY <1>1, <2>1, <2>3, <2>6, PollKeepsUsage
<1> QED  BY <1>3, <1>4

----------------------------------------------------------------------------
LEMMA InitUsageInv == UsageInit => UsageInv
<1> SUFFICES ASSUME UsageInit PROVE UsageInv
  OBVIOUS
<1>1. /\ rollouts = [f \in Rollouts |-> [lines |-> <<>>, mtime |-> 0]] /\ writes = 0 /\ posted = 0
      /\ usage = [pc |-> "idle", last |-> None, statusline |-> 0, walk |-> <<>>, sent |-> NothingSent]
  BY DEF UsageInit
<1>2. RolloutsInv(rollouts, writes)
  <2>1. Ordered(<<>>, 0)
    BY DEF Ordered
  <2>2. \A f \in Rollouts : rollouts[f].lines = <<>> /\ rollouts[f].mtime = 0
    BY <1>1
  <2>3. <<>> \in Seq(Line)
    OBVIOUS
  <2>4. rollouts \in [Rollouts -> [lines : Seq(Line), mtime : Nat]]
    BY <1>1, <2>3
  <2> QED  BY <1>1, <2>1, <2>2, <2>4 DEF RolloutsInv
<1>3. usage \in UsageType
  BY <1>1 DEF UsageType, NothingSent
<1>4. UsageIsCurrent
  <2>1. Telling = {}
    BY <1>1 DEF Telling, Written
  <2> QED  BY <1>1, <2>1 DEF UsageIsCurrent, NothingSent
<1> QED  BY <1>1, <1>2, <1>3, <1>4 DEF UsageInv, SignedBy

LEMMA StepUsageInv == UsageInv /\ [UsageNext]_usgVars => UsageInv'
<1> SUFFICES ASSUME UsageInv, [UsageNext]_usgVars PROVE UsageInv'
  OBVIOUS
<1>1. CASE UNCHANGED usgVars
  <2>1. UNCHANGED <<rollouts, writes, posted, usage>>
    BY <1>1 DEF usgVars
  <2>2. UsageSignature' = UsageSignature /\ UsageIsCurrent' = UsageIsCurrent
    BY <2>1 DEF UsageIsCurrent, UsageSignature, Written, AmongNewest, Telling, Told
  <2>3. usage' \in UsageType' /\ SignedBy(usage'.last, writes) /\ (SignedNow' => SignedNow)
    BY <2>1, <2>2 DEF UsageInv, UsageType, SignedNow
  <2> QED  BY <2>1, <2>2, <2>3, PollKeepsUsage DEF UsageInv
<1>2. CASE UsageNext
  BY <1>2, CodexKeepsUsage, PostKeepsUsage, PushKeepsUsage, ListKeepsUsage, ReadKeepsUsage DEF UsageNext
<1> QED  BY <1>1, <1>2

\* For any number of rollouts, writes and posts: whenever no build is under way and the
\* signature is the one of the last build, the tabs have been sent what both providers
\* say now, although both may change between the steps of a build (server.py:557-566).
THEOREM UsageStaysCurrent == UsageSpec => []UsageIsCurrent
<1>1. UsageInv => UsageIsCurrent
  BY DEF UsageInv
<1> QED  BY <1>1, InitUsageInv, StepUsageInv, PTL DEF UsageSpec

----------------------------------------------------------------------------
(***************************************************************************)
(* FeedHub.  While no poke is under way the hub remembers no other focus    *)
(* than the one there is, and the last word about it that a tab was given,  *)
(* or is queued for it, is that focus; a poke that is under way is about    *)
(* the focus as it is, which the hub does not know yet, and reaches every   *)
(* open tab.                                                                *)
(***************************************************************************)

\* What feeds show, what the hub remembers of them, and what it keeps of its threads.
Feeds == Places \cup {None} \cup UNION {[things -> Nat] : things \in SUBSET Things}
Digests == Feeds \cup [seen : UNION {[things -> Nat] : things \in SUBSET Things}, at : BOOLEAN \cup {None}]
Item == [channel : Channels, what : Feeds]
LoopType == [pc : {"wait", "sign", "build", "put", "sleep"}, at : 1..4, built : Feeds]
PokeType == [pc : {"compute", "compare", "put"}, focus : Places \cup {None}, to : SUBSET Tabs]
TabType == [pc : {"closed", "snapshot", "stream"}, at : 0..5, queue : Seq(Item), shown : [Channels -> Feeds]]

HubTypes ==
    /\ world \in [Things -> 0..MaxWorld] /\ focus \in Places /\ moves \in 0..MaxFocus /\ clock \in BOOLEAN
    /\ loop \in LoopType /\ hub \in [Channels -> Digests]
    /\ pokes \in Seq(PokeType) /\ tab \in [Tabs -> TabType]
    /\ \A k \in Tabs : tab[k].pc = "snapshot" => tab[k].at # 0

\* The entries of a queue about the focus, and the last of them.
FocusItems(queue) == {i \in 1..Len(queue) : queue[i].channel = "focus"}
LastTells(queue) ==
    \A i \in FocusItems(queue) : (\A j \in FocusItems(queue) : j <= i) => queue[i].what = focus

ToldFocus(x) ==
    /\ LastTells(x.queue)
    /\ x.pc = "stream" \/ (x.pc = "snapshot" /\ x.at > 2) =>
         FocusItems(x.queue) # {} \/ x.shown["focus"] = focus

PokeFits(poke) ==
    /\ poke.pc \in {"compute", "compare"} => hub["focus"] # focus
    /\ poke.pc \in {"compare", "put"} => poke.focus = focus
    /\ poke.pc = "put" => hub["focus"] = focus /\ Open \subseteq poke.to

FocusInv ==
    /\ Len(pokes) <= 1
    /\ pokes = <<>> => hub["focus"] \in {None, focus} /\ \A k \in Open : ToldFocus(tab[k])
    /\ pokes # <<>> => PokeFits(pokes[1])

----------------------------------------------------------------------------
(* Channels, feeds and queues.                                              *)

LEMMA HubFacts ==
  /\ Len(Polled) = 4 /\ \A n \in 1..4 : Polled[n] \in Channels \ {"focus"}
  /\ Len(Snapshots) = 5 /\ \A n \in 1..5 : Snapshots[n] \in Channels /\ (Snapshots[n] = "focus" <=> n = 2)
  /\ "focus" \in Channels /\ None \in Feeds /\ Places \subseteq Feeds /\ Feeds \subseteq Digests
  /\ Unseen \in [Channels -> Feeds] /\ Unseen["focus"] = None /\ NoTab \in TabType
<1>1. Len(Polled) = 4 /\ \A n \in 1..4 : Polled[n] \in Channels \ {"focus"}
  <2>1. \A n \in 1..4 : n = 1 \/ n = 2 \/ n = 3 \/ n = 4
    OBVIOUS
  <2> QED  BY <2>1 DEF Polled, Channels
<1>2. Len(Snapshots) = 5 /\ \A n \in 1..5 : Snapshots[n] \in Channels /\ (Snapshots[n] = "focus" <=> n = 2)
  <2>1. \A n \in 1..5 : n = 1 \/ n = 2 \/ n = 3 \/ n = 4 \/ n = 5
    OBVIOUS
  <2> QED  BY <2>1 DEF Snapshots, Channels
<1>3. "focus" \in Channels
  BY DEF Channels
<1>4. None \in Feeds /\ Places \subseteq Feeds /\ Feeds \subseteq Digests
  BY DEF Feeds, Digests
<1>5. Unseen \in [Channels -> Feeds] /\ Unseen["focus"] = None
  BY <1>3, <1>4 DEF Unseen
<1>6. NoTab \in TabType
  <2>1. <<>> \in Seq(Item)
    BY EmptySeq
  <2> QED  BY <1>5, <2>1 DEF NoTab, TabType
<1> QED  BY <1>1, <1>2, <1>3, <1>4, <1>5, <1>6

LEMMA FeedsAreTyped ==
  ASSUME HubTypes, NEW c \in Channels
  PROVE  /\ Build(c) \in Feeds /\ (c = "focus" => Build(c) = focus)
         /\ c # "focus" => Digest(c) \in Digests
<1>1. ASSUME NEW things \in SUBSET Things
      PROVE  Seen(things) \in UNION {[t -> Nat] : t \in SUBSET Things}
  <2>1. Seen(things) \in [things -> Nat]
    BY DEF HubTypes, Seen
  <2> QED  BY <2>1
<1>2. ASSUME c # "focus" PROVE Shows(c) \in SUBSET Things /\ Watches(c) \in SUBSET Things
  BY <1>2 DEF Channels, Shows, Watches, Things
<1>3. ASSUME c # "focus" PROVE Build(c) \in Feeds /\ Digest(c) \in Digests
  <2>1. Build(c) = Seen(Shows(c))
    BY <1>3 DEF Build
  <2>2. Seen(Shows(c)) \in UNION {[t -> Nat] : t \in SUBSET Things}
    BY <1>1, <1>2, <1>3
  <2>3. Seen(Watches(c)) \in UNION {[t -> Nat] : t \in SUBSET Things}
    BY <1>1, <1>2, <1>3
  <2>4. (IF c = "feed" THEN clock ELSE None) \in BOOLEAN \cup {None}
    BY DEF HubTypes
  <2> QED  BY <2>1, <2>2, <2>3, <2>4 DEF Feeds, Digests, Digest
<1>4. ASSUME c = "focus" PROVE Build(c) = focus /\ focus \in Feeds
  BY <1>4, HubFacts DEF Build, HubTypes
<1> QED  BY <1>3, <1>4

LEMMA QueuesGrow ==
  ASSUME NEW queue \in Seq(Item), NEW item \in Item
  PROVE  /\ Append(queue, item) \in Seq(Item) /\ Append(queue, item) # <<>>
         /\ FocusItems(Append(queue, item)) =
              FocusItems(queue) \cup (IF item.channel = "focus" THEN {Len(queue) + 1} ELSE {})
         /\ item.channel = "focus" /\ item.what = focus => LastTells(Append(queue, item))
         /\ item.channel # "focus" /\ LastTells(queue) => LastTells(Append(queue, item))
<1> DEFINE q == Append(queue, item)
           n == Len(queue)
<1>1. /\ q \in Seq(Item) /\ n \in Nat /\ Len(q) = n + 1 /\ q # <<>>
      /\ \A i \in 1..n : q[i] = queue[i] /\ q[n + 1] = item
  BY AppendProperties, LenProperties
<1>2. FocusItems(q) = FocusItems(queue) \cup (IF item.channel = "focus" THEN {n + 1} ELSE {})
  BY <1>1, AppendProperties DEF FocusItems
<1>3. q[n + 1] = item
  BY AppendProperties
<1>4. FocusItems(queue) \subseteq 1..n
  BY DEF FocusItems
<1> HIDE DEF q, n
<1>5. ASSUME item.channel = "focus", item.what = focus PROVE LastTells(q)
  <2> SUFFICES ASSUME NEW i \in FocusItems(q), \A j \in FocusItems(q) : j <= i
               PROVE  q[i].what = focus
    BY DEF LastTells
  <2>1. n + 1 \in FocusItems(q) /\ i \in 1..(n + 1) /\ n \in Nat
    BY <1>1, <1>2, <1>4, <1>5
  <2>2. i = n + 1
    BY <2>1
  <2> QED  BY <1>3, <1>5, <2>2
<1>6. ASSUME item.channel # "focus", LastTells(queue) PROVE LastTells(q)
  <2>1. FocusItems(q) = FocusItems(queue) /\ \A i \in FocusItems(q) : q[i] = queue[i]
    BY <1>1, <1>2, <1>4, <1>6
  <2> QED  BY <1>6, <2>1 DEF LastTells
<1> QED  BY <1>1, <1>2, <1>5, <1>6 DEF q, n

LEMMA QueuesShrink ==
  ASSUME NEW queue \in Seq(Item), queue # <<>>, LastTells(queue)
  PROVE  /\ LastTells(Tail(queue))
         /\ FocusItems(queue) # {} /\ FocusItems(Tail(queue)) = {} =>
              Head(queue).channel = "focus" /\ Head(queue).what = focus
<1> DEFINE q == Tail(queue)
           n == Len(queue)
<1>1. /\ n \in Nat /\ n >= 1 /\ q \in Seq(Item) /\ Len(q) = n - 1 /\ Head(queue) = queue[1]
      /\ \A i \in 1..(n - 1) : q[i] = queue[i + 1]
  BY HeadTailProperties, LenProperties
<1> HIDE DEF q
<1>2. \A i \in FocusItems(q) : i \in 1..(n - 1) /\ i + 1 \in FocusItems(queue) /\ q[i] = queue[i + 1]
  BY <1>1 DEF FocusItems
<1>3. \A j \in FocusItems(queue) : j \in 1..n /\ (j = 1 \/ j - 1 \in FocusItems(q))
  <2> SUFFICES ASSUME NEW j \in FocusItems(queue), j # 1 PROVE j - 1 \in FocusItems(q)
    BY DEF FocusItems
  <2>1. j \in 2..n /\ queue[j].channel = "focus"
    BY DEF FocusItems
  <2>2. j - 1 \in 1..(n - 1) /\ (j - 1) + 1 = j
    BY <1>1, <2>1
  <2> QED  BY <1>1, <2>1, <2>2 DEF FocusItems
<1>4. LastTells(q)
  <2> SUFFICES ASSUME NEW i \in FocusItems(q), \A j \in FocusItems(q) : j <= i
               PROVE  q[i].what = focus
    BY DEF LastTells
  <2>1. i \in 1..(n - 1) /\ i + 1 \in FocusItems(queue) /\ q[i] = queue[i + 1]
    BY <1>2
  <2>2. ASSUME NEW j \in FocusItems(queue) PROVE j <= i + 1
    BY <1>1, <1>3, <2>1
  <2> QED  BY <2>1, <2>2 DEF LastTells
<1>5. ASSUME FocusItems(queue) # {}, FocusItems(q) = {}
      PROVE  queue[1].channel = "focus" /\ queue[1].what = focus
  <2>1. FocusItems(queue) = {1}
    BY <1>3, <1>5
  <2>2. \A j \in FocusItems(queue) : j <= 1
    BY <2>1
  <2>3. queue[1].what = focus
    BY <2>1, <2>2 DEF LastTells
  <2> QED  BY <2>1, <2>3 DEF FocusItems
<1> QED  BY <1>1, <1>4, <1>5 DEF q

LEMMA PokesShrink ==
  ASSUME NEW s \in Seq(PokeType), NEW i \in DOMAIN s
  PROVE  /\ RemoveAt(s, i) \in Seq(PokeType) /\ Len(RemoveAt(s, i)) = Len(s) - 1
         /\ Len(s) <= 1 => i = 1 /\ RemoveAt(s, i) = <<>>
<1> DEFINE x == SubSeq(s, 1, i - 1)
           y == SubSeq(s, i + 1, Len(s))
<1>1. Len(s) \in Nat /\ i \in 1..Len(s)
  BY LenProperties
<1>2. x \in Seq(PokeType) /\ Len(x) = i - 1
  BY <1>1, SubSeqProperties
<1>3. y \in Seq(PokeType) /\ Len(y) = Len(s) - i
  BY <1>1, SubSeqProperties
<1> HIDE DEF x, y
<1>4. x \o y \in Seq(PokeType) /\ Len(x \o y) = Len(s) - 1
  BY <1>1, <1>2, <1>3, ConcatProperties
<1>5. RemoveAt(s, i) = x \o y
  BY DEF RemoveAt, x, y
<1>6. Len(s) <= 1 => i = 1 /\ Len(x \o y) = 0
  BY <1>1, <1>4
<1> QED  BY <1>4, <1>5, <1>6, EmptySeq

----------------------------------------------------------------------------
(* Every variable keeps its type.                                           *)

LEMMA InitHubInv == HubInit => HubTypes /\ FocusInv
<1> SUFFICES ASSUME HubInit PROVE HubTypes /\ FocusInv
  OBVIOUS
<1>1. HubTypes
  <2>0. 0 \in 0..MaxWorld /\ 0 \in 0..MaxFocus
    BY HubAssumption
  <2>1. world \in [Things -> 0..MaxWorld] /\ focus \in Places /\ moves \in 0..MaxFocus /\ clock \in BOOLEAN
    BY <2>0, Zenon DEF HubInit
  <2>2. loop \in LoopType /\ pokes \in Seq(PokeType)
    BY HubFacts, EmptySeq DEF HubInit, LoopType
  <2>3. hub \in [Channels -> Digests]
    BY HubFacts DEF HubInit
  <2>4. tab \in [Tabs -> TabType] /\ \A k \in Tabs : tab[k].pc = "closed"
    BY HubFacts DEF HubInit, NoTab
  <2> QED  BY <2>1, <2>2, <2>3, <2>4 DEF HubTypes
<1>2. FocusInv
  <2>1. Len(pokes) = 0 /\ pokes = <<>> /\ hub["focus"] = None
    BY HubFacts DEF HubInit
  <2>2. Open = {}
    BY DEF HubInit, NoTab, Open
  <2> QED  BY <2>1, <2>2 DEF FocusInv
<1> QED  BY <1>1, <1>2

\* The steps that leave the pokes and the focus alone.
LEMMA NextChannelTyped ==
  ASSUME HubTypes, NextChannel PROVE loop' \in LoopType
<1>1. loop \in LoopType /\ Len(Polled) = 4 /\ None \in Feeds
  BY HubFacts DEF HubTypes
<1>2. CASE loop.at = 4
  BY <1>1, <1>2 DEF NextChannel, LoopType
<1>3. CASE loop.at # 4
  <2>1. loop.at + 1 \in 1..4
    BY <1>1, <1>3 DEF LoopType
  <2> QED  BY <1>1, <1>3, <2>1 DEF NextChannel, LoopType
<1> QED  BY <1>2, <1>3

\* A tab whose queue takes one more entry.
Queueing(x, item) == [x EXCEPT !.queue = Append(@, item)]

LEMMA QueuedIs ==
  ASSUME HubTypes, NEW tabs, NEW c \in Channels, NEW what \in Feeds, tab' = Queued(tabs, c, what)
  PROVE  /\ tab' \in [Tabs -> TabType]
         /\ \A k \in Tabs : /\ tab'[k].pc = tab[k].pc /\ tab'[k].at = tab[k].at /\ tab'[k].shown = tab[k].shown
                            /\ tab'[k].queue = IF k \in tabs /\ tab[k].pc # "closed"
                                               THEN Append(tab[k].queue, [channel |-> c, what |-> what])
                                               ELSE tab[k].queue
<1> DEFINE item == [channel |-> c, what |-> what]
<1>1. item \in Item
  BY DEF Item
<1>2. \A k \in Tabs : tab[k] \in TabType
  BY DEF HubTypes
<1>3. \A k \in Tabs : tab[k].queue \in Seq(Item) /\ Append(tab[k].queue, item) \in Seq(Item)
  BY <1>1, <1>2, AppendProperties DEF TabType
<1>4. tab' = [k \in Tabs |-> IF k \in tabs /\ tab[k].pc # "closed" THEN [tab[k] EXCEPT !.queue = Append(@, item)]
                             ELSE tab[k]]
  BY DEF Queued
<1> HIDE DEF item
<1>5. \A k \in Tabs : [tab[k] EXCEPT !.queue = Append(@, item)] \in TabType
  BY <1>2, <1>3 DEF TabType
<1>6. tab' \in [Tabs -> TabType]
  BY <1>2, <1>4, <1>5
<1>7. ASSUME NEW k \in Tabs
      PROVE  /\ tab'[k].pc = tab[k].pc /\ tab'[k].at = tab[k].at /\ tab'[k].shown = tab[k].shown
             /\ tab'[k].queue = IF k \in tabs /\ tab[k].pc # "closed" THEN Append(tab[k].queue, item)
                                ELSE tab[k].queue
  BY <1>2, <1>4 DEF TabType
<1> QED  BY <1>6, <1>7 DEF item

LEMMA LoopTyped ==
  ASSUME HubTypes, LoopStep
  PROVE  /\ HubTypes' /\ UNCHANGED <<focus, pokes>> /\ hub'["focus"] = hub["focus"]
         /\ \A k \in Tabs : /\ tab'[k].pc = tab[k].pc /\ tab'[k].at = tab[k].at /\ tab'[k].shown = tab[k].shown
                            /\ \/ tab'[k].queue = tab[k].queue
                               \/ \E item \in Item : /\ item.channel # "focus"
                                                     /\ tab'[k].queue = Append(tab[k].queue, item)
<1>0. /\ loop \in LoopType /\ loop.at \in 1..4 /\ loop.built \in Feeds /\ tab \in [Tabs -> TabType]
      /\ hub \in [Channels -> Digests] /\ Polled[loop.at] \in Channels \ {"focus"} /\ None \in Feeds
  BY HubFacts DEF HubTypes, LoopType
<1>1. CASE WakeUp
  <2>1. loop' = [loop EXCEPT !.pc = "sign", !.at = 1] /\ 1 \in 1..4
    BY <1>1 DEF WakeUp
  <2>2. loop' \in LoopType
    BY <1>0, <2>1 DEF LoopType
  <2> QED  BY <1>1, <2>2 DEF HubTypes, WakeUp
<1>2. CASE Sign
  <2> DEFINE c == Polled[loop.at]
  <2>1. Build(c) \in Feeds /\ Digest(c) \in Digests /\ c \in Channels /\ c # "focus"
    BY <1>0, FeedsAreTyped
  <2>2. UNCHANGED <<world, clock, focus, moves, pokes, tab>>
    BY <1>2 DEF Sign
  <2>3. CASE hub[c] = Digest(c)
    <3>1. NextChannel /\ hub' = hub
      BY <1>2, <2>3 DEF Sign
    <3>2. loop' \in LoopType
      BY <3>1, NextChannelTyped
    <3> QED  BY <2>2, <3>1, <3>2 DEF HubTypes
  <2>4. CASE hub[c] # Digest(c)
    <3>1. /\ hub' = [hub EXCEPT ![c] = Digest(c)]
          /\ loop' = IF c = "feed" THEN [loop EXCEPT !.pc = "put", !.built = Build(c)] ELSE [loop EXCEPT !.pc = "build"]
      BY <1>2, <2>4 DEF Sign
    <3> HIDE DEF c
    <3>2. hub' \in [Channels -> Digests] /\ hub'["focus"] = hub["focus"]
      BY <1>0, <2>1, <3>1
    <3>3. loop' \in LoopType
      BY <1>0, <2>1, <3>1 DEF LoopType
    <3> QED  BY <2>2, <3>2, <3>3 DEF HubTypes
  <2> QED  BY <2>3, <2>4
<1>3. CASE BuildFeed
  <2>1. Build(Polled[loop.at]) \in Feeds
    BY <1>0, FeedsAreTyped
  <2>2. loop' \in LoopType
    BY <1>0, <1>3, <2>1 DEF BuildFeed, LoopType
  <2> QED  BY <1>3, <2>2 DEF HubTypes, BuildFeed
<1>4. CASE Put
  <2> DEFINE item == [channel |-> Polled[loop.at], what |-> loop.built]
  <2>1. NextChannel /\ tab' = Queued(Open, Polled[loop.at], loop.built) /\ UNCHANGED <<world, clock, focus, moves, hub, pokes>>
    BY <1>4 DEF Put
  <2>2. loop' \in LoopType
    BY <2>1, NextChannelTyped
  <2>3. item \in Item /\ item.channel # "focus"
    BY <1>0 DEF Item
  <2>5. /\ tab' \in [Tabs -> TabType]
        /\ \A k \in Tabs : /\ tab'[k].pc = tab[k].pc /\ tab'[k].at = tab[k].at /\ tab'[k].shown = tab[k].shown
                           /\ tab'[k].queue = IF k \in Open /\ tab[k].pc # "closed" THEN Append(tab[k].queue, item)
                                              ELSE tab[k].queue
    BY <1>0, <2>1, QueuedIs, Zenon
  <2> HIDE DEF item
  <2>4. /\ tab' \in [Tabs -> TabType]
        /\ \A k \in Tabs : /\ tab'[k].pc = tab[k].pc /\ tab'[k].at = tab[k].at /\ tab'[k].shown = tab[k].shown
                           /\ \/ tab'[k].queue = tab[k].queue
                              \/ tab'[k].queue = Append(tab[k].queue, item)
    BY <2>5
  <2> QED  BY <2>1, <2>2, <2>3, <2>4 DEF HubTypes
<1>5. CASE Sleep
  <2>1. loop' = [loop EXCEPT !.pc = "wait", !.at = 1] /\ 1 \in 1..4
    BY <1>5 DEF Sleep
  <2>2. loop' \in LoopType
    BY <1>0, <2>1 DEF LoopType
  <2>3. clock' \in BOOLEAN
    BY <1>5, Zenon DEF Sleep
  <2> QED  BY <1>5, <2>2, <2>3 DEF HubTypes, Sleep
<1> QED  BY <1>1, <1>2, <1>3, <1>4, <1>5 DEF LoopStep

LEMMA PokeTyped ==
  ASSUME HubTypes, NEW i \in DOMAIN pokes, PokeStep(i)
  PROVE  HubTypes'
<1>0. /\ pokes \in Seq(PokeType) /\ pokes[i] \in PokeType /\ focus \in Places /\ hub \in [Channels -> Digests]
      /\ Places \cup {None} \subseteq Feeds /\ Feeds \subseteq Digests /\ "focus" \in Channels
  BY HubFacts DEF HubTypes
<1>1. RemoveAt(pokes, i) \in Seq(PokeType)
  BY <1>0, PokesShrink
<1>2. Open \subseteq Tabs
  BY DEF Open
<1>3. CASE ComputeFocus(i)
  <2>1. pokes' = [pokes EXCEPT ![i] = [pokes[i] EXCEPT !.pc = "compare", !.focus = focus]]
    BY <1>3 DEF ComputeFocus
  <2>2. [pokes[i] EXCEPT !.pc = "compare", !.focus = focus] \in PokeType
    BY <1>0 DEF PokeType
  <2>3. pokes' \in Seq(PokeType)
    BY <1>0, <2>1, <2>2
  <2> QED  BY <1>3, <2>3 DEF ComputeFocus, HubTypes
<1>4. CASE CompareFocus(i)
  <2>1. CASE RemembersFocus(i)
    BY <1>1, <1>4, <2>1 DEF CompareFocus, HubTypes
  <2>2. CASE ~RemembersFocus(i)
    <3>1. /\ hub' = [hub EXCEPT !["focus"] = pokes[i].focus]
          /\ pokes' = [pokes EXCEPT ![i] = [pokes[i] EXCEPT !.pc = "put", !.to = Open]]
      BY <1>4, <2>2 DEF CompareFocus
    <3>2. [pokes[i] EXCEPT !.pc = "put", !.to = Open] \in PokeType /\ pokes[i].focus \in Digests
      BY <1>0, <1>2 DEF PokeType
    <3>3. pokes' \in Seq(PokeType)
      BY <1>0, <3>1, <3>2
    <3>4. hub' \in [Channels -> Digests]
      BY <1>0, <3>1, <3>2
    <3> QED  BY <1>4, <3>3, <3>4 DEF CompareFocus, HubTypes
  <2> QED  BY <2>1, <2>2
<1>5. CASE PutFocus(i)
  <2>1. /\ tab' = Queued(pokes[i].to, "focus", pokes[i].focus) /\ pokes' = RemoveAt(pokes, i)
        /\ UNCHANGED <<world, clock, focus, moves, loop, hub>>
    BY <1>5 DEF PutFocus
  <2>2. pokes[i].focus \in Feeds
    BY <1>0 DEF PokeType
  <2>3. tab' \in [Tabs -> TabType] /\ \A k \in Tabs : tab'[k].pc = tab[k].pc /\ tab'[k].at = tab[k].at
    BY <1>0, <2>1, <2>2, QueuedIs
  <2> QED  BY <1>1, <2>1, <2>3 DEF HubTypes
<1> QED  BY <1>3, <1>4, <1>5 DEF PokeStep

LEMMA TabTyped ==
  ASSUME HubTypes, NEW k \in Tabs, TabStep(k) \/ Connect(k) \/ Disconnect(k)
  PROVE  HubTypes'
<1>0. /\ tab \in [Tabs -> TabType] /\ tab[k] \in TabType /\ NoTab \in TabType
      /\ tab[k].pc = "snapshot" => tab[k].at \in 1..5
  BY HubFacts DEF HubTypes, TabType
<1>1. ASSUME NEW x \in TabType, x.pc = "snapshot" => x.at # 0, tab' = [tab EXCEPT ![k] = x],
             UNCHANGED <<world, clock, focus, moves, loop, hub, pokes>>
      PROVE  HubTypes'
  <2>1. tab' \in [Tabs -> TabType] /\ \A j \in Tabs : tab'[j].pc = "snapshot" => tab'[j].at # 0
    BY <1>0, <1>1 DEF HubTypes
  <2> QED  BY <1>1, <2>1 DEF HubTypes
<1>2. CASE Connect(k)
  <2> DEFINE x == [NoTab EXCEPT !.pc = "snapshot", !.at = 1]
  <2>1. x \in TabType /\ x.at # 0
    <3> DEFINE opened(y) == [y EXCEPT !.pc = "snapshot", !.at = 1]
    <3>1. ASSUME NEW y \in TabType PROVE opened(y) \in TabType /\ opened(y).at = 1
      <4>1. 1 \in 0..5 /\ "snapshot" \in {"closed", "snapshot", "stream"}
        OBVIOUS
      <4> QED  BY <4>1 DEF TabType
    <3>2. opened(NoTab) \in TabType /\ opened(NoTab).at = 1
      <4> HIDE DEF opened
      <4> QED  BY <1>0, <3>1
    <3> QED  BY <3>2
  <2>2. tab' = [tab EXCEPT ![k] = x] /\ UNCHANGED <<world, clock, focus, moves, loop, hub, pokes>>
    BY <1>2 DEF Connect
  <2> HIDE DEF x
  <2> QED  BY <1>1, <2>1, <2>2
<1>3. CASE Disconnect(k)
  <2>1. tab' = [tab EXCEPT ![k] = NoTab] /\ UNCHANGED <<world, clock, focus, moves, loop, hub, pokes>>
    BY <1>3 DEF Disconnect
  <2>2. NoTab.pc = "snapshot" => NoTab.at # 0
    BY DEF NoTab
  <2> QED  BY <1>0, <1>1, <2>1, <2>2
<1>4. CASE SendSnapshot(k)
  <2> DEFINE c == Snapshots[tab[k].at]
             last == tab[k].at = Len(Snapshots)
             x == [tab[k] EXCEPT !.shown = [@ EXCEPT ![c] = Build(c)], !.at = IF last THEN 0 ELSE @ + 1,
                                 !.pc = IF last THEN "stream" ELSE "snapshot"]
  <2>1. tab[k].pc = "snapshot" /\ tab[k].at \in 1..5 /\ c \in Channels /\ Len(Snapshots) = 5
    BY <1>0, <1>4, HubFacts DEF SendSnapshot
  <2>2. Build(c) \in Feeds
    BY <2>1, FeedsAreTyped
  <2>3. tab' = [tab EXCEPT ![k] = x] /\ UNCHANGED <<world, clock, focus, moves, loop, hub, pokes>>
    BY <1>0, <1>4 DEF SendSnapshot, TabType
  <2>4. (IF last THEN 0 ELSE tab[k].at + 1) \in 0..5
    BY <2>1
  <2>5. [tab[k].shown EXCEPT ![c] = Build(c)] \in [Channels -> Feeds]
    BY <1>0, <2>1, <2>2 DEF TabType
  <2>6. x \in TabType /\ (x.pc = "snapshot" => x.at # 0)
    <3> HIDE DEF c, last
    <3>1. x \in TabType
      BY <1>0, <2>4, <2>5 DEF TabType
    <3>2. x.pc = "snapshot" => ~last /\ x.at = tab[k].at + 1
      BY <1>0 DEF TabType
    <3> QED  BY <2>1, <3>1, <3>2
  <2> HIDE DEF x
  <2> QED  BY <1>1, <2>3, <2>6
<1>5. CASE SendQueued(k)
  <2> DEFINE item == Head(tab[k].queue)
             x == [tab[k] EXCEPT !.shown = [@ EXCEPT ![item.channel] = item.what], !.queue = Tail(@)]
  <2>1. tab[k].queue \in Seq(Item) /\ tab[k].queue # <<>> /\ tab[k].pc = "stream"
    BY <1>0, <1>5 DEF SendQueued, TabType
  <2>2. item \in Item /\ Tail(tab[k].queue) \in Seq(Item)
    BY <2>1, HeadTailProperties
  <2>3. tab' = [tab EXCEPT ![k] = x] /\ UNCHANGED <<world, clock, focus, moves, loop, hub, pokes>>
    BY <1>0, <1>5 DEF SendQueued, TabType
  <2>4. item.channel \in Channels /\ item.what \in Feeds
    BY <2>2 DEF Item
  <2>5. [tab[k].shown EXCEPT ![item.channel] = item.what] \in [Channels -> Feeds]
    BY <1>0, <2>4 DEF TabType
  <2>6. x \in TabType /\ x.pc = "stream"
    <3> HIDE DEF item
    <3> QED  BY <1>0, <2>1, <2>2, <2>5 DEF TabType
  <2> HIDE DEF x
  <2> QED  BY <1>1, <2>3, <2>6
<1> QED  BY <1>2, <1>3, <1>4, <1>5 DEF TabStep

LEMMA WorldTyped ==
  /\ \A t \in Things : HubTypes /\ Changes(t) => HubTypes'
  /\ \A p \in Places : HubTypes /\ FocusMoves(p) => HubTypes'
<1>1. ASSUME NEW t \in Things, HubTypes, Changes(t) PROVE HubTypes'
  <2>1. world["states"] \in Nat /\ world["labels"] \in Nat /\ world["scripts"] \in Nat /\ world["quota"] \in Nat
    BY <1>1 DEF HubTypes, Things
  <2>2. world["states"] + world["labels"] + world["scripts"] + world["quota"] < MaxWorld /\ MaxWorld \in Nat
    BY <1>1, HubAssumption DEF Changes
  <2>3. world[t] + 1 \in 0..MaxWorld
    BY <2>1, <2>2 DEF Things
  <2>4. world' = [world EXCEPT ![t] = @ + 1] /\ UNCHANGED <<clock, focus, moves, loop, hub, pokes, tab>>
    BY <1>1 DEF Changes
  <2>5. world' \in [Things -> 0..MaxWorld]
    BY <1>1, <2>3, <2>4 DEF HubTypes
  <2> QED  BY <1>1, <2>4, <2>5 DEF HubTypes
<1>2. ASSUME NEW p \in Places, HubTypes, FocusMoves(p) PROVE HubTypes'
  <2>1. moves' \in 0..MaxFocus
    BY <1>2, HubAssumption DEF FocusMoves, HubTypes
  <2>2. Poke \in PokeType
    BY DEF Poke, PokeType
  <2>3. pokes' \in Seq(PokeType)
    BY <1>2, <2>2, AppendProperties DEF FocusMoves, HubTypes
  <2> QED  BY <1>2, <2>1, <2>3 DEF FocusMoves, HubTypes
<1> QED  BY <1>1, <1>2

LEMMA HubStaysTyped ==
  ASSUME HubTypes, [HubNext]_hubVars
  PROVE  HubTypes'
<1>1. CASE UNCHANGED hubVars
  BY <1>1 DEF hubVars, HubTypes
<1>2. CASE HubNext
  BY <1>2, LoopTyped, PokeTyped, TabTyped, WorldTyped DEF HubNext
<1> QED  BY <1>1, <1>2

----------------------------------------------------------------------------
(* The last word about the focus.                                           *)

LEMMA LoopKeepsRing ==
  ASSUME HubTypes, FocusInv, LoopStep
  PROVE  FocusInv'
<1>1. /\ UNCHANGED <<focus, pokes>> /\ hub'["focus"] = hub["focus"]
      /\ \A k \in Tabs : /\ tab'[k].pc = tab[k].pc /\ tab'[k].at = tab[k].at /\ tab'[k].shown = tab[k].shown
                         /\ \/ tab'[k].queue = tab[k].queue
                            \/ \E item \in Item : /\ item.channel # "focus"
                                                  /\ tab'[k].queue = Append(tab[k].queue, item)
  BY LoopTyped
<1>2. Open' = Open /\ Open \subseteq Tabs
  BY <1>1 DEF Open
<1>3. ASSUME NEW k \in Tabs, ToldFocus(tab[k]) PROVE ToldFocus(tab[k])'
  <2>1. tab[k].queue \in Seq(Item)
    BY DEF HubTypes, TabType
  <2>2. LastTells(tab'[k].queue) /\ FocusItems(tab'[k].queue) = FocusItems(tab[k].queue)
    <3>1. CASE tab'[k].queue = tab[k].queue
      BY <1>3, <3>1 DEF ToldFocus
    <3>2. ASSUME NEW item \in Item, item.channel # "focus", tab'[k].queue = Append(tab[k].queue, item)
          PROVE  LastTells(tab'[k].queue) /\ FocusItems(tab'[k].queue) = FocusItems(tab[k].queue)
      BY <1>3, <2>1, <3>2, QueuesGrow DEF ToldFocus
    <3> QED  BY <1>1, <3>1, <3>2
  <2>3. LastTells(tab[k].queue)'
    BY <1>1, <2>2 DEF LastTells
  <2> QED  BY <1>1, <1>3, <2>2, <2>3 DEF ToldFocus
<1>4. pokes # <<>> /\ PokeFits(pokes[1]) => PokeFits(pokes[1])'
  BY <1>1, <1>2 DEF PokeFits
<1> QED  BY <1>1, <1>2, <1>3, <1>4 DEF FocusInv

LEMMA PokeTurns ==
  ASSUME NEW s \in Seq(PokeType), Len(s) = 1, NEW x \in PokeType
  PROVE  /\ Len([s EXCEPT ![1] = x]) = 1 /\ [s EXCEPT ![1] = x] # <<>>
         /\ [s EXCEPT ![1] = x][1] = x
<1>1. 1 \in 1..Len(s)
  OBVIOUS
<1>2. Len([s EXCEPT ![1] = x]) = 1 /\ [s EXCEPT ![1] = x][1] = x
  BY <1>1, ExceptSeq
<1>3. [s EXCEPT ![1] = x] # <<>>
  <2> DEFINE t == [s EXCEPT ![1] = x]
  <2> HIDE DEF t
  <2>1. Len(t) = 1
    BY <1>2 DEF t
  <2>2. t # <<>>
    BY <2>1
  <2> QED  BY <2>2 DEF t
<1> QED  BY <1>2, <1>3

LEMMA OneOfOne ==
  ASSUME NEW n \in Nat, n <= 1, NEW i \in 1..n
  PROVE  i = 1 /\ n = 1
OBVIOUS

LEMMA SeqOfOne ==
  ASSUME NEW S, NEW s \in Seq(S), Len(s) <= 1, NEW i \in DOMAIN s
  PROVE  i = 1 /\ Len(s) = 1 /\ s # <<>>
<1>1. Len(s) \in Nat /\ i \in 1..Len(s)
  BY LenProperties
<1>2. i = 1 /\ Len(s) = 1
  BY <1>1, OneOfOne, Zenon
<1>3. s # <<>>
  BY <1>2
<1> QED  BY <1>2, <1>3

LEMMA PokeKeepsRing ==
  ASSUME HubTypes, FocusInv, NEW i \in DOMAIN pokes, PokeStep(i)
  PROVE  FocusInv'
<1>0. /\ pokes \in Seq(PokeType) /\ i = 1 /\ Len(pokes) = 1 /\ pokes # <<>> /\ RemoveAt(pokes, i) = <<>>
      /\ pokes[1] \in PokeType /\ focus \in Places /\ Places \subseteq Feeds
  <2>1. pokes \in Seq(PokeType) /\ Len(pokes) <= 1 /\ i \in DOMAIN pokes
    BY DEF HubTypes, FocusInv
  <2>2. i = 1 /\ Len(pokes) = 1 /\ pokes # <<>>
    BY <2>1, SeqOfOne
  <2>3. pokes[1] \in PokeType
    BY <2>1, <2>2, ElementOfSeq
  <2> QED  BY <2>1, <2>2, <2>3, PokesShrink, HubFacts DEF HubTypes
<1>1. PokeFits(pokes[1])
  BY <1>0 DEF FocusInv
<1>2. CASE ComputeFocus(i)
  <2>1. pokes' = [pokes EXCEPT ![1] = [pokes[1] EXCEPT !.pc = "compare", !.focus = focus]]
        /\ UNCHANGED <<focus, hub, tab>>
    BY <1>0, <1>2 DEF ComputeFocus
  <2>2. Len(pokes') = 1 /\ pokes' # <<>> /\ pokes'[1].pc = "compare" /\ pokes'[1].focus = focus
    <3> DEFINE x == [pokes[1] EXCEPT !.pc = "compare", !.focus = focus]
    <3>1. x \in PokeType /\ x.pc = "compare" /\ x.focus = focus
      BY <1>0 DEF PokeType
    <3> HIDE DEF x
    <3>2. Len(pokes') = 1 /\ pokes' # <<>> /\ pokes'[1] = x
      BY <1>0, <2>1, <3>1, PokeTurns DEF x
    <3> QED  BY <3>1, <3>2
  <2>3. hub["focus"] # focus
    BY <1>0, <1>1, <1>2 DEF PokeFits, ComputeFocus
  <2>4. PokeFits(pokes[1])'
    BY <2>1, <2>2, <2>3 DEF PokeFits
  <2> QED  BY <2>2, <2>4 DEF FocusInv
<1>3. CASE CompareFocus(i)
  <2>1. pokes[1].pc = "compare" /\ pokes[1].focus = focus /\ hub["focus"] # focus
    BY <1>0, <1>1, <1>3 DEF PokeFits, CompareFocus
  <2>2. ~RemembersFocus(i)
    BY <1>0, <2>1 DEF RemembersFocus
  <2>3. /\ hub' = [hub EXCEPT !["focus"] = focus] /\ UNCHANGED <<focus, tab>>
        /\ pokes' = [pokes EXCEPT ![1] = [pokes[1] EXCEPT !.pc = "put", !.to = Open]]
    BY <1>0, <1>3, <2>1, <2>2 DEF CompareFocus
  <2>4. /\ Len(pokes') = 1 /\ pokes' # <<>> /\ pokes'[1].pc = "put" /\ pokes'[1].focus = focus
        /\ pokes'[1].to = Open
    <3> DEFINE x == [pokes[1] EXCEPT !.pc = "put", !.to = Open]
    <3>1. x \in PokeType /\ x.pc = "put" /\ x.focus = focus /\ x.to = Open
      BY <1>0, <2>1 DEF PokeType, Open
    <3> HIDE DEF x
    <3>2. Len(pokes') = 1 /\ pokes' # <<>> /\ pokes'[1] = x
      BY <1>0, <2>3, <3>1, PokeTurns DEF x
    <3> QED  BY <3>1, <3>2
  <2>5. hub'["focus"] = focus
    BY <2>3, HubFacts DEF HubTypes
  <2>6. Open' = Open
    BY <2>3 DEF Open
  <2>7. PokeFits(pokes[1])'
    BY <2>3, <2>4, <2>5, <2>6 DEF PokeFits
  <2> QED  BY <2>4, <2>7 DEF FocusInv
<1>4. CASE PutFocus(i)
  <2> DEFINE item == [channel |-> "focus", what |-> focus]
  <2>1. pokes[1].focus = focus /\ hub["focus"] = focus /\ Open \subseteq pokes[1].to
    BY <1>0, <1>1, <1>4 DEF PokeFits, PutFocus
  <2>2. tab' = Queued(pokes[1].to, "focus", focus) /\ pokes' = <<>> /\ UNCHANGED <<focus, hub>>
    BY <1>0, <1>4, <2>1 DEF PutFocus
  <2>3. item \in Item /\ item.channel = "focus" /\ item.what = focus
    BY <1>0, HubFacts DEF Item
  <2>4. \A k \in Tabs : /\ tab'[k].pc = tab[k].pc
                        /\ tab'[k].queue = IF k \in pokes[1].to /\ tab[k].pc # "closed" THEN Append(tab[k].queue, item)
                                           ELSE tab[k].queue
    <3>1. focus \in Feeds /\ "focus" \in Channels
      BY <1>0, HubFacts
    <3> QED  BY <2>2, <3>1, QueuedIs, Zenon
  <2> HIDE DEF item
  <2>5. ASSUME NEW k \in Open' PROVE ToldFocus(tab[k])'
    <3>1. k \in Tabs /\ k \in Open /\ tab[k].pc # "closed" /\ k \in pokes[1].to
      BY <2>1, <2>4 DEF Open
    <3>2. tab'[k].queue = Append(tab[k].queue, item) /\ tab[k].queue \in Seq(Item)
      BY <2>4, <3>1 DEF HubTypes, TabType
    <3>3. LastTells(tab'[k].queue) /\ FocusItems(tab'[k].queue) # {}
      BY <2>3, <3>2, QueuesGrow
    <3>4. LastTells(tab[k].queue)'
      BY <2>2, <3>3 DEF LastTells
    <3> QED  BY <3>3, <3>4 DEF ToldFocus
  <2> QED  BY <2>1, <2>2, <2>5 DEF FocusInv
<1> QED  BY <1>2, <1>3, <1>4 DEF PokeStep

\* What a tab is told by its own thread.
LEMMA TabToldStays ==
  ASSUME HubTypes, NEW k \in Tabs, ToldFocus(tab[k]), TabStep(k)
  PROVE  ToldFocus(tab[k])' /\ tab'[k].pc # "closed" /\ tab[k].pc # "closed"
<1>0. tab[k] \in TabType /\ tab[k].queue \in Seq(Item) /\ (tab[k].pc = "snapshot" => tab[k].at \in 1..5)
  BY DEF HubTypes, TabType
<1>1. CASE SendSnapshot(k)
  <2> DEFINE c == Snapshots[tab[k].at]
  <2>1. /\ tab[k].pc = "snapshot" /\ tab[k].at \in 1..5 /\ Len(Snapshots) = 5 /\ c \in Channels
        /\ c = "focus" <=> tab[k].at = 2
    BY <1>0, <1>1, HubFacts DEF SendSnapshot
  <2>2. /\ tab'[k].queue = tab[k].queue /\ tab'[k].shown = [tab[k].shown EXCEPT ![c] = Build(c)]
        /\ tab'[k].at = (IF tab[k].at = 5 THEN 0 ELSE tab[k].at + 1)
        /\ tab'[k].pc = (IF tab[k].at = 5 THEN "stream" ELSE "snapshot") /\ focus' = focus
    BY <1>0, <1>1, <2>1 DEF SendSnapshot, HubTypes, TabType
  <2>3. LastTells(tab[k].queue)'
    BY <2>2 DEF ToldFocus, LastTells
  <2>4. CASE tab[k].at = 2
    <3>1. tab'[k].shown["focus"] = focus
      BY <1>0, <2>1, <2>2, <2>4, HubFacts, FeedsAreTyped DEF TabType
    <3> QED  BY <2>1, <2>2, <2>3, <3>1 DEF ToldFocus
  <2>5. CASE tab[k].at # 2
    <3>1. tab'[k].shown["focus"] = tab[k].shown["focus"]
      BY <1>0, <2>1, <2>2, <2>5 DEF TabType
    <3>2. tab'[k].pc = "stream" \/ tab'[k].at > 2 => tab[k].at > 2
      BY <2>1, <2>2, <2>5
    <3> QED  BY <2>1, <2>2, <2>3, <3>1, <3>2 DEF ToldFocus
  <2> QED  BY <2>4, <2>5
<1>2. CASE SendQueued(k)
  <2> DEFINE item == Head(tab[k].queue)
  <2>1. tab[k].pc = "stream" /\ tab[k].queue # <<>>
    BY <1>2 DEF SendQueued
  <2>2. /\ tab'[k].pc = "stream" /\ tab'[k].queue = Tail(tab[k].queue) /\ focus' = focus
        /\ tab'[k].shown = [tab[k].shown EXCEPT ![item.channel] = item.what]
    BY <1>0, <1>2 DEF SendQueued, HubTypes, TabType
  <2>3. /\ LastTells(Tail(tab[k].queue))
        /\ FocusItems(tab[k].queue) # {} /\ FocusItems(Tail(tab[k].queue)) = {} =>
             item.channel = "focus" /\ item.what = focus
    BY <1>0, <2>1, QueuesShrink DEF ToldFocus
  <2>4. LastTells(tab[k].queue)'
    BY <2>2, <2>3 DEF LastTells
  <2>5. FocusItems(tab[k].queue) # {} \/ tab[k].shown["focus"] = focus
    BY <2>1 DEF ToldFocus
  <2>6. item.channel = "focus" => FocusItems(tab[k].queue) # {}
    BY <1>0, <2>1 DEF FocusItems
  <2>7. FocusItems(Tail(tab[k].queue)) # {} \/ tab'[k].shown["focus"] = focus
    <3> HIDE DEF item
    <3>1. ASSUME FocusItems(Tail(tab[k].queue)) = {} PROVE tab'[k].shown["focus"] = focus
      <4>1. CASE item.channel = "focus"
        BY <1>0, <2>2, <2>3, <2>6, <3>1, <4>1, HubFacts DEF TabType
      <4>2. CASE item.channel # "focus"
        BY <1>0, <2>2, <2>3, <2>5, <3>1, <4>2, HubFacts DEF TabType
      <4> QED  BY <4>1, <4>2
    <3> QED  BY <3>1
  <2> QED  BY <2>1, <2>2, <2>4, <2>7 DEF ToldFocus
<1> QED  BY <1>1, <1>2 DEF TabStep

LEMMA TabKeepsRing ==
  ASSUME QuietFocus, HubTypes, FocusInv, NEW k \in Tabs, TabStep(k) \/ Connect(k) \/ Disconnect(k)
  PROVE  FocusInv'
<1>0. tab \in [Tabs -> TabType] /\ NoTab \in TabType
  BY HubFacts DEF HubTypes
<1>1. UNCHANGED <<focus, hub, pokes>> /\ \A j \in Tabs \ {k} : tab'[j] = tab[j]
  BY <1>0 DEF TabStep, SendSnapshot, SendQueued, Connect, Disconnect
<1>2. ASSUME NEW j \in Tabs \ {k}, ToldFocus(tab[j]) PROVE ToldFocus(tab[j])'
  BY <1>1, <1>2 DEF ToldFocus, LastTells
<1>3. CASE TabStep(k)
  <2>1. tab[k].pc # "closed" /\ tab'[k].pc # "closed"
    BY <1>0, <1>3 DEF TabStep, SendSnapshot, SendQueued, TabType
  <2>2. Open' = Open
    BY <1>1, <2>1 DEF Open
  <2>3. \A j \in Open : ToldFocus(tab[j]) => ToldFocus(tab[j])'
    BY <1>2, <1>3, TabToldStays DEF Open
  <2>4. pokes # <<>> /\ PokeFits(pokes[1]) => PokeFits(pokes[1])'
    BY <1>1, <2>2 DEF PokeFits
  <2> QED  BY <1>1, <2>2, <2>3, <2>4 DEF FocusInv
<1>4. CASE Connect(k)
  <2>1. pokes = <<>> /\ tab[k].pc = "closed"
    BY <1>4 DEF Connect
  <2>2. tab'[k].pc = "snapshot" /\ tab'[k].at = 1 /\ tab'[k].queue = <<>>
    BY <1>0, <1>4 DEF Connect, NoTab, TabType
  <2>3. ToldFocus(tab[k])'
    <3>1. FocusItems(tab'[k].queue) = {}
      BY <2>2 DEF FocusItems
    <3>2. LastTells(tab[k].queue)'
      BY <3>1 DEF LastTells
    <3> QED  BY <2>2, <3>2 DEF ToldFocus
  <2>4. \A j \in Open' : j = k \/ (j \in Open /\ j \in Tabs \ {k})
    BY <1>1 DEF Open
  <2> QED  BY <1>1, <1>2, <2>1, <2>3, <2>4 DEF FocusInv
<1>5. CASE Disconnect(k)
  <2>1. tab'[k].pc = "closed"
    BY <1>0, <1>5 DEF Disconnect, NoTab
  <2>2. \A j \in Open' : j \in Open /\ j \in Tabs \ {k}
    BY <1>1, <2>1 DEF Open
  <2>3. Open' \subseteq Open
    BY <2>2
  <2>4. pokes # <<>> /\ PokeFits(pokes[1]) => PokeFits(pokes[1])'
    BY <1>1, <2>3 DEF PokeFits
  <2> QED  BY <1>1, <1>2, <2>2, <2>4 DEF FocusInv
<1> QED  BY <1>3, <1>4, <1>5

LEMMA HubKeepsRing ==
  ASSUME QuietFocus, HubTypes, FocusInv, [HubNext]_hubVars
  PROVE  FocusInv'
<1>1. ASSUME UNCHANGED <<focus, hub, pokes, tab>> PROVE FocusInv'
  BY <1>1 DEF FocusInv, PokeFits, ToldFocus, LastTells, Open
<1>2. CASE UNCHANGED hubVars
  BY <1>1, <1>2 DEF hubVars
<1>3. ASSUME NEW t \in Things, Changes(t) PROVE FocusInv'
  BY <1>1, <1>3 DEF Changes
<1>4. ASSUME NEW p \in Places, FocusMoves(p) PROVE FocusInv'
  <2>1. pokes = <<>> /\ pokes' = Append(pokes, Poke) /\ p # focus /\ focus' = p /\ UNCHANGED <<hub, tab>>
    BY <1>4 DEF FocusMoves
  <2>2. Len(pokes') = 1 /\ pokes' # <<>> /\ pokes'[1] = Poke
    BY <2>1
  <2>3. hub["focus"] # p
    BY <2>1, HubAssumption DEF FocusInv
  <2>4. PokeFits(pokes[1])'
    BY <2>1, <2>2, <2>3 DEF PokeFits, Poke
  <2> QED  BY <2>2, <2>4 DEF FocusInv
<1> QED  BY <1>2, <1>3, <1>4, LoopKeepsRing, PokeKeepsRing, TabKeepsRing DEF HubNext

LEMMA HubInvImplies ==
  ASSUME HubTypes
  PROVE  HubTypeOK /\ (FocusInv => RingIsRight)
<1>1. \A k \in Tabs : tab[k] \in TabType /\ tab[k].queue \in Seq(Item)
  BY DEF HubTypes, TabType
<1>2. HubTypeOK
  <2>1. loop.pc \in {"wait", "sign", "build", "put", "sleep"} /\ loop.at \in 1..Len(Polled)
    BY HubFacts DEF HubTypes, LoopType
  <2>2. DOMAIN hub = Channels
    BY DEF HubTypes
  <2>3. ASSUME NEW k \in Tabs
        PROVE  /\ tab[k].pc \in {"closed", "snapshot", "stream"} /\ tab[k].at \in 0..5
               /\ \A i \in DOMAIN tab[k].queue : tab[k].queue[i].channel \in Channels
    <3>1. tab[k] \in TabType /\ tab[k].queue \in Seq(Item)
      BY <1>1
    <3>2. \A i \in DOMAIN tab[k].queue : tab[k].queue[i] \in Item
      BY <3>1
    <3> QED  BY <3>1, <3>2 DEF TabType, Item
  <2> QED  BY <2>1, <2>2, <2>3 DEF HubTypes, HubTypeOK
<1>3. ASSUME FocusInv PROVE RingIsRight
  <2> SUFFICES ASSUME NEW k \in Tabs, pokes = <<>>, tab[k].pc = "stream", tab[k].queue = <<>>
               PROVE  tab[k].shown["focus"] = focus
    BY DEF RingIsRight
  <2>1. ToldFocus(tab[k])
    BY <1>3 DEF FocusInv, Open
  <2>2. FocusItems(<<>>) = {}
    BY DEF FocusItems
  <2> QED  BY <2>1, <2>2 DEF ToldFocus
<1> QED  BY <1>2, <1>3

\* Where the focus moves, and tabs connect, only when no poke is under way: when all
\* queues are empty every open tab rings the session the terminal is on, for any number
\* of tabs, moves and changes and however pushes, snapshots and pokes interleave
\* (server.py: concurrent pokes collapse to one broadcast).
THEOREM RingIsAlwaysRight == ASSUME QuietFocus PROVE HubSpec => []RingIsRight
<1>1. HubTypes /\ FocusInv /\ [HubNext]_hubVars => HubTypes' /\ FocusInv'
  BY HubStaysTyped, HubKeepsRing
<1>2. HubTypes /\ FocusInv => RingIsRight
  BY HubInvImplies
<1> QED  BY <1>1, <1>2, InitHubInv, PTL DEF HubSpec

----------------------------------------------------------------------------
(***************************************************************************)
(* The instance.  A step is of one component and leaves the others alone,   *)
(* so that each keeps its own invariant; how many rollouts are listed needs *)
(* a count beside it.                                                       *)
(***************************************************************************)

\* Of the rollouts that are listed the oldest has all the others before it, and that
\* is not MaxWalk of them.
LEMMA NewestAreFew ==
  ASSUME RolloutsInv(rollouts, writes), writes \in Nat
  PROVE  Cardinality(Newest) <= MaxWalk
<1>1. MaxWalk \in Nat /\ Cardinality({}) = 0 /\ Cardinality(Newest) \in Nat
  BY UsageAssumption, FS_EmptySet, NewestFacts
<1>2. CASE Newest # {}
  <2> DEFINE Times == {rollouts[f].mtime : f \in Newest}
  <2>1. ASSUME NEW f \in Newest
        PROVE  f \in Written /\ f \in Rollouts /\ AmongNewest(f, MaxWalk) /\ rollouts[f].mtime \in 1..writes
    BY <2>1 DEF Newest, Written, RolloutsInv
  <2>2. Times \in SUBSET (1..writes) /\ Times # {}
    BY <1>2, <2>1
  <2>3. PICK least \in Times : \A time \in Times : least <= time
    <3> HIDE DEF Times
    <3> QED  BY <2>2, LeastExists
  <2>4. PICK f \in Newest : rollouts[f].mtime = least
    OBVIOUS
  <2> DEFINE Before == {g \in Written : rollouts[g].mtime > rollouts[f].mtime}
             Others == Newest \ {f}
  <2>5. Cardinality(Before) < MaxWalk
    BY <2>1 DEF AmongNewest
  <2>6. Others \subseteq Before
    <3> SUFFICES ASSUME NEW g \in Newest, g # f PROVE g \in Written /\ rollouts[g].mtime > rollouts[f].mtime
      OBVIOUS
    <3>1. /\ g \in Written /\ f \in Rollouts /\ g \in Rollouts
          /\ rollouts[g].mtime \in Nat /\ rollouts[f].mtime \in Nat /\ rollouts[g].mtime > 0
      BY <2>1
    <3>2. rollouts[g].mtime # rollouts[f].mtime
      BY <3>1 DEF RolloutsInv
    <3>3. rollouts[f].mtime <= rollouts[g].mtime
      BY <2>3, <2>4
    <3> QED  BY <3>1, <3>2, <3>3
  <2>7. IsFiniteSet(Before) /\ Before \in SUBSET Written /\ IsFiniteSet(Newest)
    BY NewestFacts, FS_Subset
  <2> HIDE DEF Before
  <2>8. Cardinality(Others) <= Cardinality(Before) /\ Cardinality(Before) \in Nat
    BY <2>6, <2>7, FS_Subset, FS_CardinalityType
  <2>9. Cardinality(Others) = Cardinality(Newest) - 1
    BY <2>7, FS_RemoveElement
  <2> HIDE DEF Others
  <2> QED  BY <1>1, <2>5, <2>8, <2>9
<1> QED  BY <1>1, <1>2

UsageBounds == writes <= MaxTicks /\ Len(usage.walk) <= MaxWalk

LEMMA StepUsageBounds ==
  ASSUME UsageInv, UsageBounds, [UsageNext]_usgVars
  PROVE  UsageBounds'
<1>0. /\ writes \in Nat /\ MaxTicks \in Nat /\ MaxWalk \in Nat /\ RolloutsInv(rollouts, writes)
      /\ usage \in UsageType /\ usage.walk \in Seq(Rollouts) /\ Len(usage.walk) \in Nat
  BY UsageAssumption DEF UsageInv, UsageType
<1>1. CASE UNCHANGED usgVars
  BY <1>1 DEF usgVars, UsageBounds
<1>2. ASSUME NEW f \in Rollouts, CodexWrites(f) \/ CodexFlushes(f) PROVE UsageBounds'
  BY <1>0, <1>2 DEF CodexWrites, CodexFlushes, Clocked, UsageBounds
<1>3. CASE SetAnthropicUsage
  BY <1>0, <1>3 DEF SetAnthropicUsage, Clocked, UsageBounds
<1>4. CASE PushUsageIfChanged
  <2>1. usage'.walk = usage.walk /\ writes' = writes
    BY <1>0, <1>4 DEF PushUsageIfChanged, UsageType
  <2> QED  BY <2>1 DEF UsageBounds
<1>5. CASE ListRollouts
  <2>1. usage'.walk = NewestFirst /\ writes' = writes
    BY <1>0, <1>5 DEF ListRollouts, UsageType
  <2>2. Len(NewestFirst) = Cardinality(Newest)
    <3>1. Cardinality(Newest) \in Nat
      BY NewestFacts
    <3> QED  BY <3>1 DEF NewestFirst, Newest
  <2>3. Cardinality(Newest) <= MaxWalk
    BY <1>0, NewestAreFew
  <2> QED  BY <2>1, <2>2, <2>3 DEF UsageBounds
<1>6. CASE ReadRollout
  <2>1. writes' = writes
    BY <1>6 DEF ReadRollout
  <2>2. CASE usage' = [usage EXCEPT !.walk = Tail(@)] /\ usage.walk # <<>>
    <3>1. usage'.walk = Tail(usage.walk)
      BY <1>0, <2>2 DEF UsageType
    <3>2. Len(Tail(usage.walk)) = Len(usage.walk) - 1
      BY <1>0, <2>2
    <3> QED  BY <1>0, <2>1, <3>1, <3>2 DEF UsageBounds
  <2>3. ASSUME NEW limits, SendUsage(limits) PROVE UsageBounds'
    <3>1. usage'.walk = <<>> /\ Len(<<>>) = 0
      BY <1>0, <2>3 DEF SendUsage, UsageType
    <3> QED  BY <1>0, <2>1, <3>1 DEF UsageBounds
  <2> QED  BY <1>6, <2>2, <2>3 DEF ReadRollout
<1> QED  BY <1>1, <1>2, <1>3, <1>4, <1>5, <1>6 DEF UsageNext

LEMMA UsageInvTypes == UsageInv /\ UsageBounds => UsageTypeOK
<1> SUFFICES ASSUME UsageInv, UsageBounds PROVE UsageTypeOK
  OBVIOUS
<1>1. /\ rollouts \in [Rollouts -> [lines : Seq(Line), mtime : Nat]]
      /\ \A f \in Rollouts : rollouts[f].mtime <= writes
      /\ writes \in Nat /\ MaxTicks \in Nat /\ writes <= MaxTicks
  BY UsageAssumption DEF UsageInv, RolloutsInv, UsageBounds
<1>2. rollouts \in [Rollouts -> [lines : Seq(Line), mtime : 0..MaxTicks]]
  <2>1. ASSUME NEW f \in Rollouts PROVE rollouts[f] \in [lines : Seq(Line), mtime : 0..MaxTicks]
    <3>1. rollouts[f] \in [lines : Seq(Line), mtime : Nat] /\ rollouts[f].mtime \in 0..MaxTicks
      BY <1>1
    <3> QED  BY <3>1
  <2> QED  BY <1>1, <2>1
<1>3. /\ writes \in 0..MaxTicks /\ posted \in 0..writes
      /\ usage.pc \in {"idle", "build", "walk"} /\ usage.walk \in Seq(Rollouts) /\ Len(usage.walk) <= MaxWalk
  BY <1>1 DEF UsageInv, UsageBounds, UsageType
<1> QED  BY <1>2, <1>3 DEF UsageTypeOK

----------------------------------------------------------------------------

\* For any records, views, launches, tabs, sessions and rollouts, and whatever the order
\* of the steps: every variable keeps its type, the live views are among the old ones and
\* the marked among the live, a queue carries channels the page has, and no build of the
\* usage strip reads more rollouts than it may.
THEOREM HomeTyping == Spec => []TypeOK
<1> DEFINE Inv == MigInv /\ CodexInv /\ HubTypes /\ GrpInv /\ UsageInv /\ UsageBounds
<1>1. Init => Inv
  <2>1. UsageInit => UsageBounds
    <3> SUFFICES ASSUME UsageInit PROVE UsageBounds
      OBVIOUS
    <3>1. writes = 0 /\ usage.walk = <<>> /\ Len(<<>>) = 0
      BY DEF UsageInit
    <3> QED  BY <3>1, UsageAssumption DEF UsageBounds
  <2> QED  BY <2>1, InitMigInv, InitCodexInv, InitHubInv, InitGrpInv, InitUsageInv DEF Init
<1>2. [Next]_vars => /\ [MigNext]_mVars /\ [UpdNext]_uVars /\ [HubNext]_hubVars
                     /\ [GroupNext]_grpVars /\ [UsageNext]_usgVars
  BY DEF Next, vars, keepVars, showVars
<1>3. Inv /\ [Next]_vars => Inv'
  <2> SUFFICES ASSUME Inv, [Next]_vars PROVE Inv'
    OBVIOUS
  <2>1. MigInv' /\ CodexInv' /\ HubTypes' /\ GrpInv'
    BY <1>2, MigNextKeepsInv, NextKeepsInv, HubStaysTyped, StepGrpInv
  <2>2. UsageInv' /\ UsageBounds'
    BY <1>2, StepUsageInv, StepUsageBounds
  <2> QED  BY <2>1, <2>2
<1>4. Inv => TypeOK
  <2> SUFFICES ASSUME Inv PROVE TypeOK
    OBVIOUS
  <2>1. MigTypeOK
    BY DEF MigInv, MigTypeOK, FileState, MigType
  <2>2. UpdTypeOK /\ HubTypeOK /\ GroupTypeOK /\ UsageTypeOK
    BY HubInvImplies, GroupsKeepTypes, UsageInvTypes DEF CodexInv
  <2> QED  BY <2>1, <2>2 DEF TypeOK
<1> QED  BY <1>1, <1>3, <1>4, PTL DEF Spec
=============================================================================
