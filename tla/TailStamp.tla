----------------------------- MODULE TailStamp -----------------------------
(***************************************************************************)
(* The time of a chat's last message in the artifact browser (server.py):   *)
(* read from the tail of the transcript by the threads that serve requests, *)
(* cached under the size and the mtime of the file.                         *)
(*                                                                          *)
(* A transcript is the sequence of the times of its entries, 0 for one      *)
(* without a stamp, a torn or an unreadable one.                            *)
(***************************************************************************)
EXTENDS Naturals, Sequences, Null

CONSTANTS Readers,   \* threads that serve a request
          MaxTail,   \* entries in the window: 64 KB of text in the code
          MaxMoment  \* bound: writes and touches of the two files

ASSUME TailAssumption == MaxTail \in Nat \ {0} /\ MaxMoment \in Nat

\* Where the transcript of a chat may be, in the order of preference.
Preference == <<"live", "bundle">>
Files == {"live", "bundle"}

VARIABLES
    stored,    \* per place: the entries, and the mtime, 0 for no file
    moment,    \* the clock
    tailCache, \* per place: [size, mtime, ts], or None
    asker      \* per thread: where it is

tailVars == <<stored, moment, tailCache, asker>>

TailAbsent == [entries |-> <<>>, mtime |-> 0]
NoRequest == [pc |-> "idle", at |-> 1, size |-> 0, mtime |-> 0, ts |-> 0]

TailTypeOK ==
    /\ moment \in 0..MaxMoment
    /\ stored \in [Files -> [entries : Seq(0..MaxMoment), mtime : 0..moment]]
    /\ tailCache \in [Files -> {None} \cup [size : Nat, mtime : 1..moment, ts : 1..MaxMoment]]
    /\ asker \in [Readers -> [pc : {"idle", "stat", "read", "store"}, at : 1..2,
                              size : Nat, mtime : 0..moment, ts : 0..MaxMoment]]

TailInit ==
    /\ stored = [p \in Files |-> TailAbsent] /\ moment = 0
    /\ tailCache = [p \in Files |-> None]
    /\ asker = [r \in Readers |-> NoRequest]

----------------------------------------------------------------------------
(* The files.                                                               *)

Moved == moment < MaxMoment /\ moment' = moment + 1

AgentAppends ==
    /\ Moved
    /\ \E ts \in {0, moment'} :
         stored' = [stored EXCEPT !["live"] = [entries |-> Append(@.entries, ts), mtime |-> moment']]
    /\ UNCHANGED <<tailCache, asker>>

\* Claude Code touches the transcripts of idle chats.
Housekeeping ==
    /\ Moved /\ stored["live"].mtime > 0
    /\ stored' = [stored EXCEPT !["live"].mtime = moment']
    /\ UNCHANGED <<tailCache, asker>>

\* The mirror, which is made longer by an ingest.
MirrorGrows ==
    /\ Moved /\ Len(stored["live"].entries) > Len(stored["bundle"].entries)
    /\ stored' = [stored EXCEPT !["bundle"] = [entries |-> stored["live"].entries, mtime |-> moment']]
    /\ UNCHANGED <<tailCache, asker>>

LiveRemoved ==
    /\ Moved /\ stored["live"].mtime > 0
    /\ stored' = [stored EXCEPT !["live"] = TailAbsent]
    /\ UNCHANGED <<tailCache, asker>>

----------------------------------------------------------------------------
(* A request.                                                               *)

ReaderAt(r, pc) == asker[r].pc = pc
PlaceOf(r) == Preference[asker[r].at]

\* The newest stamp in the entries after the first skipped; 0 for none.
NewestStamp(entries, skipped) ==
    LET stamped == {i \in 1..Len(entries) : i > skipped /\ entries[i] # 0}
    IN IF stamped = {} THEN 0
       ELSE entries[CHOOSE i \in stamped : \A j \in stamped : j <= i]

Skipped(size) == IF size > MaxTail THEN size - MaxTail ELSE 0

\* The next candidate, or the end of the request.
NextCandidate(r) ==
    asker' = [asker EXCEPT ![r] =
      IF @.at < Len(Preference)
      THEN [pc |-> "stat", at |-> @.at + 1, size |-> 0, mtime |-> 0, ts |-> 0] ELSE NoRequest]

LastInteraction(r) ==
    /\ ReaderAt(r, "idle")
    /\ asker' = [asker EXCEPT ![r].pc = "stat"]
    /\ UNCHANGED <<stored, moment, tailCache>>

CachedTail(p) ==
    /\ tailCache[p] # None
    /\ tailCache[p].size = Len(stored[p].entries)
    /\ tailCache[p].mtime = stored[p].mtime

StatTail(r) ==
    /\ ReaderAt(r, "stat")
    /\ LET file == stored[PlaceOf(r)]
       IN \/ file.mtime = 0 /\ NextCandidate(r)
          \/ file.mtime # 0 /\ CachedTail(PlaceOf(r)) /\ asker' = [asker EXCEPT ![r] = NoRequest]
          \/ /\ file.mtime # 0 /\ ~CachedTail(PlaceOf(r))
             /\ asker' = [asker EXCEPT ![r] = [@ EXCEPT !.pc = "read",
                            !.size = Len(file.entries), !.mtime = file.mtime]]
    /\ UNCHANGED <<stored, moment, tailCache>>

ReadTail(r) ==
    /\ ReaderAt(r, "read")
    /\ LET file == stored[PlaceOf(r)]
           newest == NewestStamp(file.entries, Skipped(asker[r].size))
       IN IF file.mtime = 0 THEN NextCandidate(r)
          ELSE asker' = [asker EXCEPT ![r].pc = "store",
                 ![r].ts = IF newest = 0 THEN asker[r].mtime ELSE newest]
    /\ UNCHANGED <<stored, moment, tailCache>>

\* A slip: the file is asked for its size when the read is over.
KeyAfterRead(r) ==
    [size |-> Len(stored[PlaceOf(r)].entries), mtime |-> stored[PlaceOf(r)].mtime,
     ts |-> asker[r].ts]

\* The key is what was asked before the read.
Keyed(r) == [size |-> asker[r].size, mtime |-> asker[r].mtime, ts |-> asker[r].ts]

StoreTail(r) ==
    /\ ReaderAt(r, "store")
    /\ tailCache' = [tailCache EXCEPT ![PlaceOf(r)] = Keyed(r)]
    /\ asker' = [asker EXCEPT ![r] = NoRequest]
    /\ UNCHANGED <<stored, moment>>

TailNext ==
    \/ AgentAppends \/ Housekeeping \/ MirrorGrows \/ LiveRemoved
    \/ \E r \in Readers : LastInteraction(r) \/ StatTail(r) \/ ReadTail(r) \/ StoreTail(r)

TailSpec == TailInit /\ [][TailNext]_tailVars

----------------------------------------------------------------------------
(* Properties.                                                              *)

\* What the cache has for a file as it is now is the time of its newest stamped
\* entry among the last, or the mtime where none has a stamp (server.py:529-533),
\* although the file grows, is touched or removed between the stat, the read and
\* the store, and another thread stores what it read of an older one.
TailIsTrue ==
    \A p \in Files :
      LET entries == stored[p].entries
          inTail == {i \in 1..Len(entries) : i + MaxTail > Len(entries) /\ entries[i] > 0}
      IN CachedTail(p) =>
           \/ inTail = {} /\ tailCache[p].ts = stored[p].mtime
           \/ \E i \in inTail : tailCache[p].ts = entries[i] /\ \A j \in inTail : j <= i
=============================================================================
