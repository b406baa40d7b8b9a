--------------------------- MODULE HistoryIngest ---------------------------
(***************************************************************************)
(* The mirror of one chat (lib/tx/history.py): the agent's transcript and   *)
(* its sidecar files are copied into the bundle of the session by detached  *)
(* ingests of the Stop and SessionEnd hooks, which skip when another ingest *)
(* holds the lock of the bundle, and by `tx archive`, which waits for it.   *)
(* A file is a sequence of blocks.  The agent only appends, or rewrites the *)
(* whole transcript; a block of the copy is the number of the version of    *)
(* the transcript it was read from.                                         *)
(***************************************************************************)
EXTENDS Naturals, Sequences, FiniteSets, Null

CONSTANTS
    Ingests,      \* the ingest processes
    Sidecars,     \* the files of subagents/ and tool-results/
    MaxLength,    \* bound: the longest transcript
    MaxVersions,  \* bound: how often the transcript is started over, plus one
    Window,       \* the blocks of _PREFIX_CHECK_BYTES
    SafeRewrites, \* no rewrite falls between a prefix test and the append
    IngestsDie    \* an ingest may die anywhere

ASSUME HistoryAssumption ==
    /\ MaxLength \in Nat /\ MaxVersions \in Nat \ {0} /\ Window \in Nat \ {0}
    /\ SafeRewrites \in BOOLEAN /\ IngestsDie \in BOOLEAN
    /\ None \notin Ingests /\ None \notin Seq(1..MaxVersions)

VARIABLES
    writer,    \* "on", or "over" once the agent session has ended
    files,     \* length of each version of the transcript; the last is current
    made,      \* the sidecar files the agent has written
    copy,      \* the bundle's transcript: the version of each block, or None
    kept,      \* what of each sidecar file is in the bundle
    ingLock,   \* the ingest that holds the flock of the bundle, or None
    ing        \* the state of each ingest

hVars == <<writer, files, made, copy, kept, ingLock, ing>>

Current == Len(files)
Size == files[Current]

\* Where an ingest is, what was on disk when a forced one began (want, wantFiles), the
\* st_size it read, the version it has open, the sidecar file it is copying.
Stages == {"idle", "locate", "lock", "stat", "check", "open", "copy", "sidecars",
           "unlock", "stamp"}
Idle == [pc |-> "idle", wait |-> FALSE, want |-> <<1, 0>>, wantFiles |-> {},
         size |-> 0, fd |-> 1, file |-> None]

HistTypeOK ==
    /\ writer \in {"on", "over"}
    /\ files \in Seq(0..MaxLength) /\ Len(files) \in 1..MaxVersions
    /\ made \subseteq Sidecars
    /\ copy \in Seq(1..MaxVersions) \cup {None}
    /\ kept \in [Sidecars -> {"absent", "part", "whole"}]
    /\ ingLock \in Ingests \cup {None}
    /\ ing \in [Ingests -> [pc: Stages, wait: BOOLEAN,
                            want: (1..MaxVersions) \X (0..MaxLength),
                            wantFiles: SUBSET Sidecars,
                            size: 0..MaxLength, fd: 1..MaxVersions,
                            file: Sidecars \cup {None}]]

HistInit ==
    /\ writer = "on" /\ files = <<0>> /\ made = {}
    /\ copy = None /\ kept = [f \in Sidecars |-> "absent"]
    /\ ingLock = None
    /\ ing = [i \in Ingests |-> Idle]

At(i, stage) == ing[i].pc = stage
Goto(i, stage) == ing' = [ing EXCEPT ![i].pc = stage]

----------------------------------------------------------------------------
(* The agent: its transcript grows, is compacted, gets sidecars.            *)

Grow ==
    /\ writer = "on" /\ Size < MaxLength
    /\ files' = [files EXCEPT ![Current] = @ + 1]
    /\ UNCHANGED <<writer, made, copy, kept, ingLock, ing>>

Rewrite ==
    /\ writer = "on" /\ Size > 0 /\ Current < MaxVersions
    /\ SafeRewrites => \A i \in Ingests : ~At(i, "open")
    /\ \E n \in 1..MaxLength : files' = Append(files, n)
    /\ UNCHANGED <<writer, made, copy, kept, ingLock, ing>>

WriteSidecar(f) ==
    /\ writer = "on" /\ f \notin made
    /\ made' = made \cup {f}
    /\ UNCHANGED <<writer, files, copy, kept, ingLock, ing>>

Finished(i) == ing' = [ing EXCEPT ![i] = Idle]

\* A Stop hook (wait FALSE), the SessionEnd hook (which is the last one) or
\* `tx archive` (wait TRUE) starts an ingest.
Begin(i, wait, last) ==
    /\ At(i, "idle")
    /\ ~wait => writer = "on"
    /\ last => ~wait
    /\ writer' = IF last THEN "over" ELSE writer
    /\ ing' = [ing EXCEPT ![i] =
                 [Idle EXCEPT !.pc = "locate", !.wait = wait,
                              !.want = IF wait THEN <<Current, Size>> ELSE @,
                              !.wantFiles = IF wait THEN made ELSE @]]
    /\ UNCHANGED <<files, made, copy, kept, ingLock>>

----------------------------------------------------------------------------
(* ingest_chat.                                                             *)

\* The transcript is not on disk before its first block.
Locate(i) ==
    /\ At(i, "locate")
    /\ IF Size = 0 /\ Current = 1 THEN Finished(i) ELSE Goto(i, "lock")
    /\ UNCHANGED <<writer, files, made, copy, kept, ingLock>>

\* A slip: a forced ingest does not wait either.
TakeLockNeverWaits(i) ==
    /\ At(i, "lock")
    /\ IF ingLock = None THEN ingLock' = i /\ Goto(i, "stat")
                         ELSE Goto(i, "stamp") /\ UNCHANGED ingLock
    /\ UNCHANGED <<writer, files, made, copy, kept>>

\* A taken lock makes a hook's ingest skip (it still stamps), a forced one wait.
TakeLock(i) ==
    /\ At(i, "lock")
    /\ \/ /\ ingLock = None
          /\ ingLock' = i /\ Goto(i, "stat")
       \/ /\ ingLock # None /\ ~ing[i].wait
          /\ Goto(i, "stamp") /\ UNCHANGED ingLock
    /\ UNCHANGED <<writer, files, made, copy, kept>>

Stat(i) ==
    /\ At(i, "stat")
    /\ ing' = [ing EXCEPT ![i].size = Size, ![i].pc = "check"]
    /\ UNCHANGED <<writer, files, made, copy, kept, ingLock>>

\* A slip: the sizes alone are compared.
IsPrefixBySize == Len(copy) <= Size
\* dst is a prefix of src, as far as the last Window blocks of dst tell.
CopyIsPrefix ==
    /\ Len(copy) <= Size
    /\ \A n \in DOMAIN copy : n > Len(copy) - Window => copy[n] = Current

\* _append_by_offset after the two stats: nothing to do, a tail to append, or
\* (no copy yet, a shorter or a different source) the whole file.
Compare(i) ==
    /\ At(i, "check")
    /\ IF copy # None /\ Len(copy) <= ing[i].size /\ CopyIsPrefix
         THEN /\ ing' = [ing EXCEPT
                   ![i].pc = IF Len(copy) = ing[i].size THEN "sidecars" ELSE "open",
                   ![i].size = 0]
              /\ UNCHANGED copy
         ELSE /\ ing' = [ing EXCEPT ![i].fd = Current, ![i].pc = "copy", ![i].size = 0]
              /\ copy' = <<>>
    /\ UNCHANGED <<writer, files, made, kept, ingLock>>

OpenSource(i) ==
    /\ At(i, "open")
    /\ ing' = [ing EXCEPT ![i].fd = Current, ![i].pc = "copy"]
    /\ UNCHANGED <<writer, files, made, copy, kept, ingLock>>

\* copyfileobj: block by block until the end of the opened file.
CopyBlock(i) ==
    /\ At(i, "copy")
    /\ IF Len(copy) < files[ing[i].fd]
         THEN copy' = Append(copy, ing[i].fd) /\ UNCHANGED ing
         ELSE /\ ing' = [ing EXCEPT ![i].pc = "sidecars", ![i].fd = 1]
              /\ UNCHANGED copy
    /\ UNCHANGED <<writer, files, made, kept, ingLock>>

\* _copy_tree_if_absent: a file that is there is never copied again.
Missing(f) == f \in made /\ kept[f] = "absent"

CopySidecar(i) ==
    /\ At(i, "sidecars")
    /\ \/ \E f \in Sidecars :
            /\ ing[i].file = None /\ Missing(f)
            /\ kept' = [kept EXCEPT ![f] = "part"]
            /\ ing' = [ing EXCEPT ![i].file = f]
       \/ /\ ing[i].file # None
          /\ kept' = [kept EXCEPT ![ing[i].file] = "whole"]
          /\ ing' = [ing EXCEPT ![i].file = None]
       \/ /\ ing[i].file = None /\ \A f \in Sidecars : ~Missing(f)
          /\ Goto(i, "unlock") /\ UNCHANGED kept
    /\ UNCHANGED <<writer, files, made, copy, ingLock>>

Unlock(i) ==
    /\ At(i, "unlock")
    /\ ingLock' = None /\ Goto(i, "stamp")
    /\ UNCHANGED <<writer, files, made, copy, kept>>

\* _stamp_bundle_paths: the write to the record is an action of ChatCapture.
Stamp(i) ==
    /\ At(i, "stamp")
    /\ Finished(i)
    /\ UNCHANGED <<writer, files, made, copy, kept, ingLock>>

\* The ingest dies; the flock goes with its descriptor.
IngestDies(i) ==
    /\ IngestsDie /\ ~At(i, "idle")
    /\ Finished(i)
    /\ ingLock' = IF ingLock = i THEN None ELSE ingLock
    /\ UNCHANGED <<writer, files, made, copy, kept>>

IngestStep(i) ==
    \/ Locate(i) \/ TakeLock(i) \/ Stat(i) \/ Compare(i) \/ OpenSource(i)
    \/ CopyBlock(i) \/ CopySidecar(i) \/ Unlock(i) \/ Stamp(i)

HistNext ==
    \/ Grow \/ Rewrite
    \/ \E f \in Sidecars : WriteSidecar(f)
    \/ \E i \in Ingests :
          \/ \E wait, last \in BOOLEAN : Begin(i, wait, last)
          \/ IngestStep(i) \/ IngestDies(i)

HistSpec == HistInit /\ [][HistNext]_hVars

----------------------------------------------------------------------------
(* Properties.                                                              *)

\* The copy is never spliced from two versions of the transcript, although
\* ingests race, die in the middle of a copy and meet a rewritten source
\* (history.py:142-163).
NeverSpliced ==
    copy # None => \A m, n \in DOMAIN copy : copy[m] = copy[n]

\* The mirror of ingest i holds what was there when i began, or a later
\* version of the transcript.
Covers(i) ==
    /\ copy # None /\ copy # <<>>
    /\ \/ copy[1] > ing[i].want[1]
       \/ copy[1] = ing[i].want[1] /\ Len(copy) >= ing[i].want[2]
    /\ \A f \in ing[i].wantFiles : kept[f] # "absent"

\* A forced mirror that ends without dying has everything that was on disk
\* when it began: the retire of a session is complete (history.py:19-20).
ForcedMirrorCompletes ==
    [][\A i \in Ingests :
         ing[i].wait /\ ing[i].pc # "stamp" /\ ing'[i].pc = "stamp" => Covers(i)]_hVars

\* What has been mirrored is thrown away only when the source it came from was
\* rewritten: a growing transcript is never copied again (history.py:15-16).
NoNeedlessRecopy ==
    [][copy # None /\ Len(copy') < Len(copy) =>
         \E n \in DOMAIN copy : copy[n] # Current]_hVars

\* The lock is nobody's outside a mirror: a forced mirror, which waits for it,
\* never waits for an ingest that has ended or died (history.py:201-221).
LockNotLeaked ==
    ingLock # None => ing[ingLock].pc \in
      {"stat", "check", "open", "copy", "sidecars", "unlock"}

\* Whatever ingests race, die or meet a rewritten source, the mirror is of one
\* transcript, and nobody waits for a lock whose holder is through.
MirrorIsSound == NeverSpliced /\ LockNotLeaked

\* A forced mirror is complete when it ends, and nothing is copied a second time
\* without need (history.py:12-20).
MirrorsKeepUp == ForcedMirrorCompletes /\ NoNeedlessRecopy
=============================================================================
