--------------------------- MODULE TranscriptCache ---------------------------
(***************************************************************************)
(* The rows of a transcript, parsed from where the last poll stopped        *)
(* (prototypes/artifact-browser/timeline.py), while the engine appends to   *)
(* the file and flushes half a line, and an ingest may replace it.          *)
(***************************************************************************)
EXTENDS Null, Naturals, Sequences, SequencesExt

CONSTANTS
    MaxLine,    \* bound: the lines of the file
    MaxRewrite, \* bound: how often the file is replaced or removed
    Kinds,      \* what a line is to the timeline
    Engines,    \* whose transcript it is: claude folds, codex does not
    PollsShrink \* a replaced file is polled before it has grown again

ASSUME CacheAssumption ==
    /\ MaxLine \in Nat /\ MaxRewrite \in Nat /\ Kinds \subseteq {"typed", "prose", "other"}
    /\ Engines \subseteq {"claude", "codex"} /\ PollsShrink \in BOOLEAN

VARIABLES
    engine,
    file,   \* the transcript, or None
    cached, \* the entry of the cache, or None
    poll,   \* a poll of the timeline; the lock admits one
    unseen  \* the file was replaced after the last stat

cacheVars == <<engine, file, cached, poll, unseen>>

\* A line is two bytes: enough for one to be half written.  Its number tells it from
\* the lines of an earlier content of the file.
Lines == [kind: Kinds, ts: 0..MaxLine, of: 0..MaxRewrite]
Size(f) == 2 * Len(f.lines) + (IF f.half = None THEN 0 ELSE 1)
NoPoll == [pc |-> "idle", size |-> 0, mtime |-> 0, start |-> 0, rows |-> <<>>]

CacheTypeOK ==
    /\ engine \in Engines /\ unseen \in BOOLEAN
    /\ file # None => /\ file.lines \in Seq(Lines) /\ Len(file.lines) <= MaxLine
                      /\ file.half \in Lines \cup {None}
    /\ cached # None => cached.offset % 2 = 0 /\ cached.offset <= 2 * MaxLine
    /\ poll.pc \in {"idle", "read"} /\ poll.start % 2 = 0

CacheInit ==
    /\ engine \in Engines
    /\ file = [lines |-> <<>>, half |-> None, mtime |-> 0, of |-> 0]
    /\ cached = None /\ poll = NoPoll /\ unseen = FALSE

----------------------------------------------------------------------------
(* The writers.                                                             *)

Written(lines, half) == [file EXCEPT !.lines = lines, !.half = half, !.mtime = @ + 1]

\* A line, at the time of the one before or later; or the first half of it.
EngineWrites(line, whole) ==
    /\ file # None /\ file.half = None /\ Len(file.lines) < MaxLine
    /\ PollsShrink => ~unseen
    /\ line.of = file.of
    /\ line.ts \in IF file.lines = <<>> THEN {0} ELSE {Last(file.lines).ts, Last(file.lines).ts + 1}
    /\ file' = IF whole THEN Written(Append(file.lines, line), None) ELSE Written(file.lines, line)
    /\ UNCHANGED <<engine, cached, poll, unseen>>

EngineFlushes ==
    /\ file # None /\ file.half # None
    /\ file' = Written(Append(file.lines, file.half), None)
    /\ UNCHANGED <<engine, cached, poll, unseen>>

Consumed == IF cached = None THEN 0 ELSE cached.offset

\* The file is replaced by another with this first line, by a shorter one if its
\* replacement is to be noticed; or it goes away.
Replaced(line) ==
    /\ file # None /\ file.of < MaxRewrite
    /\ line.of = file.of + 1 /\ line.ts = 0
    /\ PollsShrink => Consumed > 2
    /\ file' = [file EXCEPT !.lines = <<line>>, !.half = None, !.mtime = @ + 1, !.of = @ + 1]
    /\ unseen' = TRUE
    /\ UNCHANGED <<engine, cached, poll>>

Removed ==
    /\ file # None /\ file' = None
    /\ UNCHANGED <<engine, cached, poll, unseen>>

----------------------------------------------------------------------------
(* The parser.                                                              *)

Row(line) == <<line.ts, line.kind, <<line>>>>

\* _rows_from_codex: a row each.
CodexRows(rows, line) == IF line.kind = "other" THEN rows ELSE Append(rows, Row(line))

\* _rows_from_claude: a pasted picture is a second entry of the same time, folded
\* into the row before it.
ClaudeRows(rows, line) ==
    IF line.kind = "typed" /\ rows # <<>> /\ Last(rows)[2] = "typed" /\ Last(rows)[1] = line.ts
    THEN ReplaceAt(rows, Len(rows), <<line.ts, "typed", Append(Last(rows)[3], line)>>)
    ELSE CodexRows(rows, line)

\* _parse_line, of a transcript of an engine.
ParseLine(of, rows, line) ==
    IF of = "claude" THEN ClaudeRows(rows, line) ELSE CodexRows(rows, line)

Parsed(of, rows, lines) ==
    LET upTo[n \in 0..Len(lines)] ==
            IF n = 0 THEN rows ELSE ParseLine(of, upTo[n - 1], lines[n])
    IN  upTo[Len(lines)]

\* A slip: the offset moves to the end of what was read.
EndOfChunk(f) == Size(f)

\* The last newline: the half line after it is left to the next poll.
LastNewline(f) == 2 * Len(f.lines)

----------------------------------------------------------------------------
(* The cache.                                                               *)

\* A slip: a file that has shrunk is read on.
GoesOnAlways == cached # None
GoesOn == cached # None /\ Size(file) >= cached.offset

\* _TranscriptCache.rows, up to where it knows what to read.
StatFile ==
    /\ poll.pc = "idle"
    /\ unseen' = FALSE
    /\ IF file = None THEN cached' = None /\ UNCHANGED poll
       ELSE /\ cached # None => <<cached.size, cached.mtime>> # <<Size(file), file.mtime>>
            /\ poll' = [pc |-> "read", size |-> Size(file), mtime |-> file.mtime,
                        start |-> IF GoesOn THEN cached.offset ELSE 0,
                        rows |-> IF GoesOn THEN cached.rows ELSE <<>>]
            /\ UNCHANGED cached
    /\ UNCHANGED <<engine, file>>

\* The rest, by what the file is now; the entry keeps the size and time of the stat.
ReadFile ==
    /\ poll.pc = "read" /\ poll' = NoPoll
    /\ cached' =
         IF file = None THEN None
         ELSE LET end == IF LastNewline(file) > poll.start THEN LastNewline(file) ELSE poll.start
                  lines == SubSeq(file.lines, (poll.start + 1) \div 2 + 1, end \div 2)
              IN  [size |-> poll.size, mtime |-> poll.mtime, offset |-> end,
                   rows |-> Parsed(engine, poll.rows, lines)]
    /\ UNCHANGED <<engine, file, unseen>>

CacheNext ==
    \/ \E line \in Lines : Replaced(line) \/ \E whole \in BOOLEAN : EngineWrites(line, whole)
    \/ EngineFlushes \/ Removed \/ StatFile \/ ReadFile

CacheSpec == CacheInit /\ [][CacheNext]_cacheVars

----------------------------------------------------------------------------
(* Properties.                                                              *)

Hit == cached # None /\ file # None /\ cached.size = Size(file) /\ cached.mtime = file.mtime

\* What a poll answers from the cache is what a parse of the whole file would give:
\* no line is lost or doubled for being half written, for arriving between stat and
\* read, or for a file that was cut down (timeline.py: "a shrink or in-place rewrite
\* ... forces a full reparse").
RowsAreTheFile == Hit => cached.rows = Parsed(engine, <<>>, file.lines)
=============================================================================
