----------------------------- MODULE HomeSync ------------------------------
(***************************************************************************)
(* `tx sync push` and `tx sync pull` (lib/tx/sync.py, lib/tx/storage.py):   *)
(* several homes, each the working set of a machine, and one remote.  A     *)
(* sync copies the corpus key by key: get, verdict, then a put that         *)
(* truncates the destination before it writes it.  Meanwhile the home is in *)
(* use, other machines sync, and a sync may die anywhere.                   *)
(***************************************************************************)
EXTENDS Naturals, Sequences, FiniteSets

CONSTANTS
    Homes, Remote,
    Keys,          \* the corpus keys in sorted order, as Storage.list gives them
    SyncedRecords, \* those that are session records (is_record_key)
    MaxClock,      \* bound: activity stamps of a record, growths of a bundle
    MaxEdits,      \* bound: changes made by the use of the homes
    Calm           \* nobody else writes a key between its verdict and its put

ASSUME SyncAssumption ==
    /\ Keys \in Seq({Keys[n] : n \in DOMAIN Keys})
    /\ SyncedRecords \subseteq {Keys[n] : n \in DOMAIN Keys}
    /\ Remote \notin Homes /\ MaxClock \in Nat /\ MaxEdits \in Nat /\ Calm \in BOOLEAN

KeySet == {Keys[n] : n \in DOMAIN Keys}
Places == Homes \cup {Remote}

\* What a key holds: its clock (the length, for a key that is no record), and
\* which of two contents of that clock; a file that is absent or truncated.
Value == [clock: 1..MaxClock, text: {"a", "b"}]
Absent == [clock |-> 0, text |-> "absent"]
Torn == [clock |-> 0, text |-> "torn"]

VARIABLES
    data,  \* data[p][k]: the bytes of key k at place p
    sync,  \* sync[h]: the `tx sync` that runs on home h
    edits  \* how often the homes have changed by use

sVars == <<data, sync, edits>>

NoSync == [pc |-> "idle", push |-> TRUE, at |-> 0, got |-> Absent, clean |-> TRUE]

SyncTypeOK ==
    /\ data \in [Places -> [KeySet -> Value \cup {Absent, Torn}]]
    /\ sync \in [Homes -> [pc: {"idle", "get", "verdict", "put", "write", "ended"},
                           push: BOOLEAN, at: 0..Len(Keys) + 1,
                           got: Value \cup {Absent, Torn}, clean: BOOLEAN]]
    /\ \A h \in Homes : sync[h].got # Absent <=> sync[h].pc \in {"verdict", "put", "write"}
    /\ edits \in 0..MaxEdits

SyncInit ==
    /\ data = [p \in Places |-> [k \in KeySet |-> Absent]]
    /\ sync = [h \in Homes |-> NoSync] /\ edits = 0

Source(h) == IF sync[h].push THEN h ELSE Remote
Destination(h) == IF sync[h].push THEN Remote ELSE h
Key(h) == Keys[sync[h].at]

\* Some sync has decided to overwrite key k of place p and has not done so yet.
Decided(p, k) == \E h \in Homes : /\ sync[h].pc \in {"put", "write"}
                                  /\ Destination(h) = p /\ Key(h) = k

\* Syncs that read or write place p have seen it change.
Soiled(p) == [h \in Homes |->
                IF p \notin {h, Remote} \/ sync[h].pc = "idle" THEN sync[h]
                ELSE IF sync[h].pc = "ended" THEN NoSync
                ELSE [sync[h] EXCEPT !.clean = FALSE]]

----------------------------------------------------------------------------
(* The home in use: hooks and commands write records, ingests grow bundles. *)

Edit(h, k) ==
    /\ edits < MaxEdits /\ edits' = edits + 1
    /\ Calm => ~Decided(h, k)
    /\ sync' = Soiled(h)

\* Activity: the clock of a record moves (session.last_activity, ended_at).
Touch(h, k) ==
    /\ data[h][k] # Torn /\ data[h][k].clock < MaxClock
    /\ data' = [data EXCEPT ![h][k] = [clock |-> @.clock + 1, text |-> "a"]]
    /\ Edit(h, k)

\* A relabel or an archive: the content changes, the clock does not.
Relabel(h, k) ==
    /\ k \in SyncedRecords /\ data[h][k] \in Value
    /\ data' = [data EXCEPT ![h][k].text = IF @ = "a" THEN "b" ELSE "a"]
    /\ Edit(h, k)

----------------------------------------------------------------------------
(* The sync of home h.                                                      *)

\* The key list of the source is taken once; the keys it lacks are passed over.
BeginSync(h, push) ==
    /\ sync[h].pc \in {"idle", "ended"}
    /\ sync' = [sync EXCEPT ![h] = [NoSync EXCEPT !.pc = "get", !.push = push, !.at = 1]]
    /\ UNCHANGED <<data, edits>>

\* A slip: the value of the last key is kept for the next.
AdvanceHolding(h) == [sync[h] EXCEPT !.pc = "get", !.at = @ + 1]
Advance(h) == [sync[h] EXCEPT !.pc = "get", !.at = @ + 1, !.got = Absent]

Get(h) ==
    /\ sync[h].pc = "get"
    /\ sync' = [sync EXCEPT ![h] =
         IF sync[h].at > Len(Keys) THEN
           IF sync[h].clean THEN [@ EXCEPT !.pc = "ended"] ELSE NoSync
         ELSE IF data[Source(h)][Key(h)] = Absent THEN Advance(h)
         ELSE [@ EXCEPT !.pc = "verdict", !.got = data[Source(h)][Key(h)]]]
    /\ UNCHANGED <<data, edits>>

\* A slip: the clocks are not compared.
VerdictBlind(k, new, old) ==
    IF old = Absent THEN "add" ELSE IF old = new THEN "unchanged" ELSE "update"

\* _verdict.  The clock of a truncated record cannot be read: the sync raises.
Verdict(k, new, old) ==
    IF old = Absent THEN "add"
    ELSE IF old = new THEN "unchanged"
    ELSE IF k \notin SyncedRecords THEN "update"
    ELSE IF Torn \in {old, new} THEN "raise"
    ELSE IF new.clock < old.clock THEN "kept" ELSE "update"

Decide(h) ==
    /\ sync[h].pc = "verdict"
    /\ Calm => ~Decided(Destination(h), Key(h))
    /\ LET verdict == Verdict(Key(h), sync[h].got, data[Destination(h)][Key(h)])
       IN  sync' = [sync EXCEPT ![h] =
             CASE verdict \in {"add", "update"} -> [@ EXCEPT !.pc = "put"]
               [] verdict = "raise" -> NoSync
               [] OTHER -> Advance(h)]
    /\ UNCHANGED <<data, edits>>

\* put: write_bytes opens the file, which truncates it, and then writes.
Put(h) ==
    /\ sync[h].pc = "put"
    /\ data' = [data EXCEPT ![Destination(h)][Key(h)] = Torn]
    /\ sync' = [Soiled(Destination(h)) EXCEPT ![h] = [sync[h] EXCEPT !.pc = "write"]]
    /\ UNCHANGED edits

Write(h) ==
    /\ sync[h].pc = "write"
    /\ data' = [data EXCEPT ![Destination(h)][Key(h)] = sync[h].got]
    /\ sync' = [Soiled(Destination(h)) EXCEPT ![h] = Advance(h)]
    /\ UNCHANGED edits

SyncDies(h) ==
    /\ sync[h].pc \notin {"idle", "ended"}
    /\ sync' = [sync EXCEPT ![h] = NoSync]
    /\ UNCHANGED <<data, edits>>

SyncStep(h) == Get(h) \/ Decide(h) \/ Put(h) \/ Write(h)

SyncNext ==
    \E h \in Homes :
        \/ \E k \in KeySet : Touch(h, k) \/ Relabel(h, k)
        \/ \E push \in BOOLEAN : BeginSync(h, push)
        \/ SyncStep(h) \/ SyncDies(h)

SyncSpec == SyncInit /\ [][SyncNext]_sVars

----------------------------------------------------------------------------
(* Properties.                                                              *)

\* A record that is newer than the incoming one is never overwritten, on any
\* machine or on the remote (sync.py:10-12).
NewerRecordSurvives ==
    [][\A h \in Homes :
         sync[h].pc = "put" /\ sync'[h].pc = "write" /\ Key(h) \in SyncedRecords =>
           data[Destination(h)][Key(h)].clock <= sync[h].got.clock]_sVars

\* A sync that ran to its end, with nobody writing either side meanwhile, has
\* brought every corpus key over: what differs is a record the destination
\* holds a newer copy of (sync.py:89-102).
SyncIsComplete ==
    \A h \in Homes : sync[h].pc = "ended" =>
      \A k \in KeySet :
        LET from == data[Source(h)][k]  to == data[Destination(h)][k]
        IN  from = Absent \/ to = from \/ (k \in SyncedRecords /\ to.clock > from.clock)

\* A sync brings everything over and destroys nothing newer, on whichever machine
\* the record was changed last (sync.py:9-12).
SyncsKeepWork == []SyncIsComplete /\ NewerRecordSurvives
=============================================================================
