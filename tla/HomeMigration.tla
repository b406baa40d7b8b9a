--------------------------- MODULE HomeMigration ---------------------------
(***************************************************************************)
(* `tx migrate` (lib/tx/migrations/__init__.py): every session record and   *)
(* then every artifact record of the home is brought to the current schema; *)
(* a record of a view leaves the store, and its live tmux session is marked *)
(* instead.  The hooks of the new version run meanwhile, sessions end,      *)
(* records are removed, and the migration may die and be run again.         *)
(***************************************************************************)
EXTENDS Naturals, FiniteSets, Null

CONSTANTS
    Migrators,      \* the migrations that may run at one time
    OldRecords,     \* process records and artifact records of an older schema
    OldViews,       \* records of views of an older schema
    Malformed,      \* files that cannot be read as a record
    MaxWrites,      \* bound: hook writes to one record
    MaxFaults       \* bound: deaths of a migration, and views closed

ASSUME MigrationAssumption ==
    /\ OldRecords \cap OldViews = {} /\ Malformed \cap (OldRecords \cup OldViews) = {}
    /\ MaxWrites \in Nat /\ MaxFaults \in Nat

Files == OldRecords \cup OldViews \cup Malformed

VARIABLES
    record,      \* the files: schema and body of each record
    live,     \* the views whose tmux session is live
    marked,   \* those whose session has @tx_view
    mig,      \* the migrations
    faults

mVars == <<record, live, marked, mig, faults>>

NoMigration == [pc |-> "idle", todo |-> {}, file |-> None, raw |-> 0]

MigTypeOK ==
    /\ record \in [Files -> [schema: {"old", "current", "bad", "gone"}, body: 0..MaxWrites]]
    /\ live \subseteq OldViews /\ marked \subseteq live
    /\ mig \in [Migrators -> [pc: {"idle", "next", "save", "probe", "mark", "unlink"},
                              todo: SUBSET Files, file: Files \cup {None},
                              raw: 0..MaxWrites]]
    /\ faults \in 0..MaxFaults

MigInit ==
    /\ record = [f \in Files |-> [schema |-> IF f \in Malformed THEN "bad" ELSE "old",
                               body |-> 0]]
    /\ live \in SUBSET OldViews /\ marked = {}
    /\ mig = [m \in Migrators |-> NoMigration]
    /\ faults = 0

Fault == faults < MaxFaults /\ faults' = faults + 1

----------------------------------------------------------------------------
(* What goes on around a migration.                                         *)

\* A hook of the new version loads a record, which only a current one lets it,
\* and saves it.
HookWrites(f) ==
    /\ record[f].schema = "current" /\ record[f].body < MaxWrites
    /\ record' = [record EXCEPT ![f].body = @ + 1]
    /\ UNCHANGED <<live, marked, mig, faults>>

ViewCloses(v) ==
    /\ v \in live /\ Fault
    /\ live' = live \ {v} /\ marked' = marked \ {v}
    /\ UNCHANGED <<record, mig>>

\* `tx spawn-view` of the new version.
SpawnView(v) ==
    /\ v \notin live
    /\ live' = live \cup {v} /\ marked' = marked \cup {v}
    /\ UNCHANGED <<record, mig, faults>>

----------------------------------------------------------------------------
(* migrate_sessions, then migrate_artifacts.                                *)

\* A slip: a record of the current schema is saved again.
PendingAny(f) == record[f].schema \in {"old", "current"}
Pending(f) == record[f].schema = "old"

BeginMigration(m) ==
    /\ mig[m].pc = "idle"
    /\ \E f \in OldRecords \cup OldViews : Pending(f)
    /\ mig' = [mig EXCEPT ![m] = [NoMigration EXCEPT
                 !.pc = "next", !.todo = {f \in Files : record[f].schema # "gone"}]]
    /\ UNCHANGED <<record, live, marked, faults>>

\* The next file: skipped when it is gone, malformed or current.
Classify(m, f) ==
    /\ mig[m].pc = "next" /\ f \in mig[m].todo
    /\ mig' = [mig EXCEPT ![m].todo = @ \ {f},
                          ![m].pc = IF ~Pending(f) THEN "next"
                                    ELSE IF f \in OldViews THEN "probe" ELSE "save",
                          ![m].file = IF Pending(f) THEN f ELSE None,
                          ![m].raw = IF Pending(f) THEN record[f].body ELSE 0]
    /\ UNCHANGED <<record, live, marked, faults>>

NextFile(m) == [mig[m] EXCEPT !.pc = "next", !.file = None, !.raw = 0]

\* store.save of what was read, in the current schema.
SaveUpgraded(m) ==
    /\ mig[m].pc = "save"
    /\ record' = [record EXCEPT ![mig[m].file] = [schema |-> "current", body |-> mig[m].raw]]
    /\ mig' = [mig EXCEPT ![m] = NextFile(m)]
    /\ UNCHANGED <<live, marked, faults>>

ProbeView(m) ==
    /\ mig[m].pc = "probe"
    /\ mig' = [mig EXCEPT ![m].pc = IF mig[m].file \in live THEN "mark" ELSE "unlink"]
    /\ UNCHANGED <<record, live, marked, faults>>

\* A slip: a mark is believed to be set on a session that has gone.
MarkViewBlindly(m) ==
    /\ mig[m].pc = "mark"
    /\ marked' = marked \cup {mig[m].file}
    /\ mig' = [mig EXCEPT ![m].pc = "unlink"]
    /\ UNCHANGED <<record, live, faults>>

\* set_tx_view raises for a session that has just gone, which ends the run.
MarkView(m) ==
    /\ mig[m].pc = "mark"
    /\ IF mig[m].file \in live
         THEN /\ marked' = marked \cup {mig[m].file}
              /\ mig' = [mig EXCEPT ![m].pc = "unlink"]
         ELSE /\ mig' = [mig EXCEPT ![m] = NoMigration]
              /\ UNCHANGED marked
    /\ UNCHANGED <<record, live, faults>>

UnlinkView(m) ==
    /\ mig[m].pc = "unlink"
    /\ record' = [record EXCEPT ![mig[m].file].schema = "gone"]
    /\ mig' = [mig EXCEPT ![m] = NextFile(m)]
    /\ UNCHANGED <<live, marked, faults>>

EndMigration(m) ==
    /\ mig[m].pc = "next" /\ mig[m].todo = {}
    /\ mig' = [mig EXCEPT ![m] = NoMigration]
    /\ UNCHANGED <<record, live, marked, faults>>

MigrationDies(m) ==
    /\ mig[m].pc # "idle" /\ Fault
    /\ mig' = [mig EXCEPT ![m] = NoMigration]
    /\ UNCHANGED <<record, live, marked>>

MigrationStep(m) ==
    \/ BeginMigration(m) \/ \E f \in Files : Classify(m, f)
    \/ SaveUpgraded(m) \/ ProbeView(m) \/ MarkView(m) \/ UnlinkView(m) \/ EndMigration(m)

MigNext ==
    \/ \E f \in Files : HookWrites(f)
    \/ \E v \in OldViews : ViewCloses(v) \/ SpawnView(v)
    \/ \E m \in Migrators : MigrationStep(m) \/ MigrationDies(m)

MigSpec == MigInit /\ [][MigNext]_mVars

----------------------------------------------------------------------------
(* Properties.                                                              *)

\* A live view is known as one at every moment, by its record or by its mark,
\* wherever a migration stops (migrations/__init__.py:22-26, 71-76).
ViewsStayViews == \A v \in live : v \in marked \/ Pending(v)

\* What hooks write to a migrated record is not undone by the migration, which
\* may be run any number of times (the "Idempotent" of line 55).
MigrationKeepsWrites ==
    [][\A f \in OldRecords : record'[f].schema = "current" => record'[f].body >= record[f].body]_mVars

\* In the end every upgradable record is current, and every view has left the
\* store: one bad file, a view that closes at the wrong moment or a death of
\* the migration does not keep the rest from it (56-57).
MigrationFinishes ==
    /\ \A f \in OldRecords : <>[](record[f].schema = "current")
    /\ \A v \in OldViews : <>[](record[v].schema = "gone")
=============================================================================
