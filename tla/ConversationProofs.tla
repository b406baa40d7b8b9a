------------------------- MODULE ConversationProofs -------------------------
(***************************************************************************)
(* What is proved of the components that show and carry a conversation:    *)
(* the last times of chats, the rows and the lanes of the timeline,        *)
(* answers to dialogs and messages.                                        *)
(***************************************************************************)
EXTENDS MCConversation, Integers, NumberLemmas, SequenceTheorems, FiniteSetTheorems,
        TLAPS

----------------------------------------------------------------------------
(***************************************************************************)
(* The time of a chat's last message that the artifact browser keeps        *)
(* (TailStamp) is what the file says, for any number of threads, entries,   *)
(* writes and any window.  The invariant TailInv says of a request under    *)
(* way, and of a cache entry, that it is of the file as it is, or that the   *)
(* mtime it was taken under is no longer the file's.                        *)
(***************************************************************************)

----------------------------------------------------------------------------
(* The time of a chat's last message.                                       *)

\* ts is the time a file of these entries and this mtime should be shown with.
IsTailTime(ts, entries, mtime) ==
    LET inTail == {i \in 1..Len(entries) : i + MaxTail > Len(entries) /\ entries[i] > 0}
    IN \/ inTail = {} /\ ts = mtime
       \/ \E i \in inTail : ts = entries[i] /\ \A j \in inTail : j <= i

\* What a thread has read is of the file as it is, or the file's mtime has moved on.
ReaderSound(r) ==
    LET kept == stored[PlaceOf(r)] IN
    asker[r].pc \in {"read", "store"} =>
      /\ asker[r].mtime > 0
      /\ asker[r].mtime = kept.mtime => asker[r].size = Len(kept.entries)
      /\ asker[r].pc = "store" =>
           /\ asker[r].ts > 0
           /\ asker[r].mtime = kept.mtime => IsTailTime(asker[r].ts, kept.entries, kept.mtime)

\* The same of the cache: the mtime alone tells whether an entry is of the file as it is.
CacheSound(p) ==
    tailCache[p] # None /\ tailCache[p].mtime = stored[p].mtime =>
      /\ tailCache[p].size = Len(stored[p].entries)
      /\ IsTailTime(tailCache[p].ts, stored[p].entries, stored[p].mtime)

TailInv ==
    /\ TailTypeOK
    /\ \A r \in Readers : ReaderSound(r)
    /\ \A p \in Files : CacheSound(p)

LEMMA PlaceType == \A n \in 1..2 : Preference[n] \in Files
  BY DEF Preference, Files

\* The loop over the last lines finds the newest stamp among them, whatever the size was.
LEMMA NewestStampIs ==
  ASSUME NEW entries \in Seq(0..MaxMoment), NEW mtime \in Nat,
         NEW ts, ts = (LET newest == NewestStamp(entries, Skipped(Len(entries)))
                       IN IF newest = 0 THEN mtime ELSE newest)
  PROVE  IsTailTime(ts, entries, mtime)
<1> USE TailAssumption
<1> DEFINE inTail == {i \in 1..Len(entries) : i + MaxTail > Len(entries) /\ entries[i] > 0}
           stamped == {i \in 1..Len(entries) : i > Skipped(Len(entries)) /\ entries[i] # 0}
<1>1. Len(entries) \in Nat /\ \A i \in 1..Len(entries) : entries[i] \in 0..MaxMoment
  OBVIOUS
<1>2. stamped = inTail
  BY <1>1 DEF Skipped
<1>3. NewestStamp(entries, Skipped(Len(entries)))
        = IF stamped = {} THEN 0
          ELSE entries[CHOOSE i \in stamped : \A j \in stamped : j <= i]
  BY DEF NewestStamp
<1>4. CASE inTail = {}
  BY <1>2, <1>3, <1>4 DEF IsTailTime
<1>5. CASE inTail # {}
  <2>1. \E i \in inTail : \A j \in inTail : j <= i
    <3> HIDE DEF inTail
    <3>1. inTail \in SUBSET (1..Len(entries))
      BY DEF inTail
    <3> QED  BY <1>1, <1>5, <3>1, GreatestExists
  <2> DEFINE top == CHOOSE i \in inTail : \A j \in inTail : j <= i
  <2>2. top \in inTail /\ \A j \in inTail : j <= top
    BY <2>1
  <2>3. entries[top] # 0
    BY <2>2
  <2>4. ts = entries[top]
    BY <1>2, <1>3, <1>5, <2>3
  <2> HIDE DEF top
  <2> QED  BY <2>2, <2>4 DEF IsTailTime
<1> QED  BY <1>4, <1>5

LEMMA InitTailInv == TailInit => TailInv
<1> SUFFICES ASSUME TailInit PROVE TailInv
  OBVIOUS
<1> USE TailAssumption DEF TailInit
<1>1. TailTypeOK
  BY DEF TailTypeOK, TailAbsent, NoRequest, Files
<1>2. \A r \in Readers : ReaderSound(r)
  BY DEF ReaderSound, NoRequest
<1>3. \A p \in Files : CacheSound(p)
  BY DEF CacheSound
<1> QED  BY <1>1, <1>2, <1>3 DEF TailInv

\* A file is written, touched or removed: its mtime is one nobody has recorded.
LEMMA WriteKeepsInv ==
  ASSUME TailInv, AgentAppends \/ Housekeeping \/ MirrorGrows \/ LiveRemoved
  PROVE  TailInv'
<1> USE TailAssumption
<1>1. moment \in Nat /\ moment' \in 0..MaxMoment /\ moment' = moment + 1
      /\ UNCHANGED <<tailCache, asker>>
  BY DEF AgentAppends, Housekeeping, MirrorGrows, LiveRemoved, Moved, TailInv, TailTypeOK
<1>2. PICK p \in Files, kept \in [entries : Seq(0..MaxMoment), mtime : {0, moment'}] :
        stored' = [stored EXCEPT ![p] = kept]
  <2>0. \A q \in Files : stored[q] \in [entries : Seq(0..MaxMoment), mtime : 0..moment]
    BY DEF TailInv, TailTypeOK
  <2>f. "live" \in Files /\ "bundle" \in Files /\ {0, moment'} \subseteq 0..MaxMoment
    BY <1>1 DEF Files
  <2>1. CASE AgentAppends
    <3>1. PICK ts \in {0, moment'} :
            stored' = [stored EXCEPT !["live"] =
              [entries |-> Append(stored["live"].entries, ts), mtime |-> moment']]
      BY <2>1, <2>f DEF AgentAppends, TailInv, TailTypeOK
    <3>2. Append(stored["live"].entries, ts) \in Seq(0..MaxMoment)
      BY <2>0, <2>f, <3>1
    <3> QED  BY <2>f, <3>1, <3>2
  <2>2. CASE Housekeeping
    <3> DEFINE live == stored["live"]
    <3>0. stored' = [stored EXCEPT !["live"] = [live EXCEPT !.mtime = moment']]
      BY <2>2 DEF Housekeeping
    <3>a. live \in [entries : Seq(0..MaxMoment), mtime : 0..moment]
      BY <2>0, <2>f
    <3>b. [live EXCEPT !.mtime = moment'] = [entries |-> live.entries, mtime |-> moment']
      <4> HIDE DEF live
      <4> QED  BY <3>a
    <3>1. stored' = [stored EXCEPT !["live"] =
            [entries |-> stored["live"].entries, mtime |-> moment']]
      BY <3>0, <3>b
    <3> QED  BY <2>0, <2>f, <3>1
  <2>3. CASE MirrorGrows
    <3>1. stored' = [stored EXCEPT !["bundle"] =
            [entries |-> stored["live"].entries, mtime |-> moment']]
      BY <2>3 DEF MirrorGrows
    <3> QED  BY <2>0, <2>f, <3>1
  <2>4. CASE LiveRemoved
    <3>1. stored' = [stored EXCEPT !["live"] = TailAbsent]
      BY <2>4 DEF LiveRemoved
    <3>2. <<>> \in Seq(0..MaxMoment) /\ 0 \in {0, moment'}
      OBVIOUS
    <3>3. TailAbsent \in [entries : Seq(0..MaxMoment), mtime : {0, moment'}]
      BY <3>2 DEF TailAbsent
    <3> QED  BY <2>f, <3>1, <3>3
  <2> QED  BY <2>1, <2>2, <2>3, <2>4
<1>3. \A q \in Files : stored'[q] = IF q = p THEN kept ELSE stored[q]
  BY <1>2 DEF TailInv, TailTypeOK
<1>4. TailTypeOK'
  BY <1>1, <1>2 DEF TailInv, TailTypeOK
<1>5. ASSUME NEW r \in Readers PROVE ReaderSound(r)'
  <2>1. PlaceOf(r) \in Files /\ PlaceOf(r)' = PlaceOf(r)
    BY <1>1, PlaceType DEF PlaceOf, TailInv, TailTypeOK
  <2>2. ReaderSound(r) /\ asker[r].mtime \in 0..moment
    BY DEF TailInv, TailTypeOK
  <2>3. CASE PlaceOf(r) = p
    BY <1>1, <1>2, <1>3, <2>1, <2>2, <2>3 DEF ReaderSound
  <2>4. CASE PlaceOf(r) # p
    BY <1>1, <1>3, <2>1, <2>2, <2>4 DEF ReaderSound
  <2> QED  BY <2>3, <2>4
<1>6. ASSUME NEW q \in Files PROVE CacheSound(q)'
  <2>1. CacheSound(q) /\ (tailCache[q] # None => tailCache[q].mtime \in 1..moment)
    BY DEF TailInv, TailTypeOK
  <2> QED  BY <1>1, <1>2, <1>3, <2>1 DEF CacheSound
<1> QED  BY <1>4, <1>5, <1>6 DEF TailInv

\* A step of one request leaves the files alone.
RequestType == [pc : {"idle", "stat", "read", "store"}, at : 1..2,
                size : Nat, mtime : 0..moment, ts : 0..MaxMoment]

LEMMA RequestKeepsInv ==
  ASSUME TailInv, NEW r \in Readers,
         LastInteraction(r) \/ StatTail(r) \/ ReadTail(r) \/ StoreTail(r)
  PROVE  TailInv'
<1> USE TailAssumption DEF ReaderAt
<1>a. /\ moment \in 0..MaxMoment /\ asker \in [Readers -> RequestType] /\ asker[r] \in RequestType
      /\ PlaceOf(r) \in Files
      /\ stored[PlaceOf(r)] \in [entries : Seq(0..MaxMoment), mtime : 0..moment]
  BY PlaceType DEF TailInv, TailTypeOK, RequestType, PlaceOf
<1>b. UNCHANGED <<stored, moment>>
  BY DEF LastInteraction, StatTail, ReadTail, StoreTail
\* Enough that the new state of the request is sound, and so is the cache.
<1>c. ASSUME NEW st \in RequestType, asker' = [asker EXCEPT ![r] = st],
             st.pc \in {"read", "store"} => st.at = asker[r].at,
             UNCHANGED tailCache,
             LET kept == stored[PlaceOf(r)] IN
             st.pc \in {"read", "store"} =>
               /\ st.mtime > 0
               /\ st.mtime = kept.mtime => st.size = Len(kept.entries)
               /\ st.pc = "store" =>
                    /\ st.ts > 0
                    /\ st.mtime = kept.mtime => IsTailTime(st.ts, kept.entries, kept.mtime)
      PROVE  TailInv'
  <2>1. \A s \in Readers : asker'[s] = IF s = r THEN st ELSE asker[s]
    BY <1>a, <1>c
  <2>2. TailTypeOK'
    BY <1>a, <1>b, <1>c DEF TailInv, TailTypeOK, RequestType
  <2>3. \A s \in Readers : ReaderSound(s)'
    <3> SUFFICES ASSUME NEW s \in Readers PROVE ReaderSound(s)'
      OBVIOUS
    <3>1. CASE s = r
      BY <1>b, <1>c, <2>1, <3>1 DEF ReaderSound, PlaceOf
    <3>2. CASE s # r
      BY <1>b, <2>1, <3>2 DEF TailInv, ReaderSound, PlaceOf
    <3> QED  BY <3>1, <3>2
  <2>4. \A p \in Files : CacheSound(p)'
    BY <1>b, <1>c DEF TailInv, CacheSound
  <2> QED  BY <2>2, <2>3, <2>4 DEF TailInv
<1> DEFINE next == [pc |-> "stat", at |-> 2, size |-> 0, mtime |-> 0, ts |-> 0]
<1>d. NoRequest \in RequestType /\ next \in RequestType /\ NoRequest.pc = "idle" /\ next.pc = "stat"
  <2>1. 0 \in Nat /\ 0 \in 0..moment /\ 0 \in 0..MaxMoment /\ 1 \in 1..2 /\ 2 \in 1..2
    BY <1>a
  <2>2. "idle" \in {"idle", "stat", "read", "store"} /\ "stat" \in {"idle", "stat", "read", "store"}
    OBVIOUS
  <2> QED  BY <2>1, <2>2 DEF NoRequest, RequestType
<1>e. ASSUME NextCandidate(r), UNCHANGED tailCache PROVE TailInv'
  <2>1. Len(Preference) = 2 /\ asker[r].at \in 1..2
    BY <1>a DEF Preference, RequestType
  <2>2. CASE asker[r].at = 1
    <3>1. asker[r].at < Len(Preference) /\ asker[r].at + 1 = 2
      BY <2>1, <2>2
    <3>3. asker' = [asker EXCEPT ![r] = next]
      BY <1>e, <3>1 DEF NextCandidate
    <3> HIDE DEF next
    <3> QED  BY <1>c, <1>d, <1>e, <3>3
  <2>3. CASE asker[r].at = 2
    <3>1. asker' = [asker EXCEPT ![r] = NoRequest]
      BY <1>e, <2>1, <2>3 DEF NextCandidate
    <3> QED  BY <1>c, <1>d, <1>e, <3>1
  <2> QED  BY <2>1, <2>2, <2>3
<1>1. CASE LastInteraction(r)
  <2> DEFINE st == [asker[r] EXCEPT !.pc = "stat"]
  <2>1. st \in RequestType /\ st.pc = "stat"
    BY <1>a DEF RequestType
  <2>2. asker' = [asker EXCEPT ![r] = st] /\ UNCHANGED tailCache
    BY <1>1, <1>a DEF LastInteraction
  <2> HIDE DEF st
  <2> QED  BY <1>c, <2>1, <2>2
<1>2. CASE StatTail(r)
  <2>1. UNCHANGED tailCache
    BY <1>2 DEF StatTail
  <2>2. CASE stored[PlaceOf(r)].mtime = 0
    <3>1. NextCandidate(r)
      BY <1>2, <2>2, Zenon DEF StatTail
    <3> QED  BY <1>e, <2>1, <3>1
  <2>3. CASE stored[PlaceOf(r)].mtime # 0 /\ CachedTail(PlaceOf(r))
    <3>1. asker' = [asker EXCEPT ![r] = NoRequest]
      BY <1>2, <2>3 DEF StatTail
    <3> QED  BY <1>c, <1>d, <2>1, <3>1
  <2>4. CASE stored[PlaceOf(r)].mtime # 0 /\ ~CachedTail(PlaceOf(r))
    <3> DEFINE st == [asker[r] EXCEPT !.pc = "read", !.size = Len(stored[PlaceOf(r)].entries),
                                      !.mtime = stored[PlaceOf(r)].mtime]
    <3>0. Len(stored[PlaceOf(r)].entries) \in Nat /\ stored[PlaceOf(r)].mtime \in 0..moment
      BY <1>a
    <3>1. /\ st \in RequestType /\ st.pc = "read" /\ st.at = asker[r].at
          /\ st.size = Len(stored[PlaceOf(r)].entries) /\ st.mtime = stored[PlaceOf(r)].mtime
          /\ st.mtime > 0
      <4> DEFINE size == Len(stored[PlaceOf(r)].entries)
                 mtime == stored[PlaceOf(r)].mtime
                 prior == asker[r]
      <4>1. size \in Nat /\ mtime \in 0..moment /\ mtime > 0
        BY <2>4, <3>0
      <4>2. prior \in RequestType /\ st = [prior EXCEPT !.pc = "read", !.size = size, !.mtime = mtime]
        BY <1>a
      <4> HIDE DEF size, mtime, prior, st
      <4>3. /\ st \in RequestType /\ st.pc = "read" /\ st.at = prior.at
            /\ st.size = size /\ st.mtime = mtime
        BY <4>1, <4>2 DEF RequestType
      <4> QED  BY <4>1, <4>3 DEF size, mtime, prior
    <3>2. asker' = [asker EXCEPT ![r] = st]
      BY <1>2, <1>a, <2>4 DEF StatTail
    <3> HIDE DEF st
    <3> QED  BY <1>c, <2>1, <3>1, <3>2
  <2> QED  BY <2>2, <2>3, <2>4
<1>3. CASE ReadTail(r)
  <2>1. UNCHANGED tailCache /\ asker[r].pc = "read" /\ ReaderSound(r)
    BY <1>3 DEF ReadTail, TailInv
  <2>2. CASE stored[PlaceOf(r)].mtime = 0
    BY <1>3, <1>e, <2>1, <2>2 DEF ReadTail
  <2>3. CASE stored[PlaceOf(r)].mtime # 0
    <3> DEFINE entries == stored[PlaceOf(r)].entries
               newest == NewestStamp(entries, Skipped(asker[r].size))
               ts == IF newest = 0 THEN asker[r].mtime ELSE newest
               st == [asker[r] EXCEPT !.pc = "store", !.ts = ts]
    <3>1. asker' = [asker EXCEPT ![r] = st]
      BY <1>3, <1>a, <2>3 DEF ReadTail
    <3>2. newest \in 0..MaxMoment
      <4> DEFINE stamped == {i \in 1..Len(entries) : i > Skipped(asker[r].size) /\ entries[i] # 0}
      <4>1. CASE stamped = {}
        BY <1>a, <4>1 DEF NewestStamp
      <4>2. CASE stamped # {}
        <5>1. stamped \in SUBSET (1..Len(entries)) /\ Len(entries) \in Nat
          BY <1>a
        <5>2. \E i \in stamped : \A j \in stamped : j <= i
          <6> HIDE DEF stamped
          <6> QED  BY <4>2, <5>1, GreatestExists
        <5>3. (CHOOSE i \in stamped : \A j \in stamped : j <= i) \in 1..Len(entries)
          BY <5>1, <5>2
        <5>4. newest = entries[CHOOSE i \in stamped : \A j \in stamped : j <= i]
          BY <4>2 DEF NewestStamp
        <5>5. \A i \in 1..Len(entries) : entries[i] \in 0..MaxMoment
          BY <1>a
        <5> QED  BY <5>3, <5>4, <5>5
      <4> QED  BY <4>1, <4>2
    <3>3. ts \in 0..MaxMoment /\ ts > 0
      BY <1>a, <2>1, <3>2 DEF ReaderSound, RequestType
    <3>4. /\ st \in RequestType /\ st.pc = "store" /\ st.at = asker[r].at /\ st.ts = ts
          /\ st.size = asker[r].size /\ st.mtime = asker[r].mtime
      BY <1>a, <3>3 DEF RequestType
    <3>5. asker[r].mtime = stored[PlaceOf(r)].mtime =>
            IsTailTime(ts, entries, stored[PlaceOf(r)].mtime)
      <4> SUFFICES ASSUME asker[r].mtime = stored[PlaceOf(r)].mtime
                   PROVE  IsTailTime(ts, entries, stored[PlaceOf(r)].mtime)
        OBVIOUS
      <4>1. asker[r].size = Len(entries)
        BY <2>1 DEF ReaderSound
      <4>2. entries \in Seq(0..MaxMoment) /\ stored[PlaceOf(r)].mtime \in Nat
        BY <1>a
      <4>3. ts = (LET top == NewestStamp(entries, Skipped(Len(entries)))
                  IN IF top = 0 THEN stored[PlaceOf(r)].mtime ELSE top)
        BY <4>1
      <4> HIDE DEF ts, entries, newest
      <4> QED  BY <4>2, <4>3, NewestStampIs
    <3> HIDE DEF st, ts
    <3> QED  BY <1>c, <2>1, <3>1, <3>3, <3>4, <3>5 DEF ReaderSound
  <2> QED  BY <2>2, <2>3
<1>4. CASE StoreTail(r)
  <2>1. /\ asker[r].pc = "store" /\ ReaderSound(r)
        /\ tailCache' = [tailCache EXCEPT ![PlaceOf(r)] = Keyed(r)]
        /\ asker' = [asker EXCEPT ![r] = NoRequest]
    BY <1>4 DEF StoreTail, TailInv
  <2>2. Keyed(r) \in [size : Nat, mtime : 1..moment, ts : 1..MaxMoment]
    BY <1>a, <2>1 DEF Keyed, ReaderSound, RequestType
  <2>3. TailTypeOK'
    BY <1>a, <1>b, <1>d, <2>1, <2>2 DEF TailInv, TailTypeOK, RequestType
  <2>4. \A s \in Readers : ReaderSound(s)'
    BY <1>b, <1>d, <2>1 DEF TailInv, TailTypeOK, ReaderSound, PlaceOf
  <2>5. \A p \in Files : tailCache'[p] = IF p = PlaceOf(r) THEN Keyed(r) ELSE tailCache[p]
    BY <2>1 DEF TailInv, TailTypeOK
  <2>6. \A p \in Files : CacheSound(p)'
    BY <1>b, <2>1, <2>5 DEF TailInv, CacheSound, Keyed, ReaderSound
  <2> QED  BY <2>3, <2>4, <2>6 DEF TailInv
<1> QED  BY <1>1, <1>2, <1>3, <1>4

LEMMA TailNextKeepsInv == TailInv /\ [TailNext]_tailVars => TailInv'
<1>1. ASSUME TailInv, UNCHANGED tailVars PROVE TailInv'
  BY <1>1 DEF tailVars, TailInv, TailTypeOK, ReaderSound, CacheSound, PlaceOf
<1>2. ASSUME TailInv, TailNext PROVE TailInv'
  BY <1>2, WriteKeepsInv, RequestKeepsInv DEF TailNext
<1> QED  BY <1>1, <1>2

LEMMA TailInvHolds == TailSpec => []TailInv
BY TailNextKeepsInv, InitTailInv, PTL DEF TailSpec

\* What the cache has for a file as it is now is the newest stamp of its tail
\* (artifact-browser/server.py:528-567).
THEOREM TailTimesAreTrue == TailSpec => []TailIsTrue
<1>1. TailInv => TailIsTrue
  BY DEF TailInv, CacheSound, TailIsTrue, CachedTail, IsTailTime
<1> QED  BY <1>1, TailInvHolds, PTL

----------------------------------------------------------------------------
(***************************************************************************)
(* The rows of a transcript that the timeline keeps (TranscriptCache) are   *)
(* those of the whole file, for any lines.  To parse is a step for each     *)
(* line, so to go on from the rows of the first lines is to parse them all  *)
(* (ParsedGoesOn, by induction over the lines); CacheInv says of the entry, *)
(* and of what a poll goes on from, that it is of the first lines of the    *)
(* file as it is, or that the file was cut down and its time has moved on.  *)
(***************************************************************************)

\* g is the rows after each of the first n lines.
Steps(g, of, rows, lines, n) ==
  g = [k \in 0..n |-> IF k = 0 THEN rows ELSE ParseLine(of, g[k - 1], lines[k])]

LEMMA StepsExist ==
  ASSUME NEW of, NEW rows, NEW lines, NEW n \in Nat
  PROVE  \E g : Steps(g, of, rows, lines, n)
<1> DEFINE S == {k \in Nat : \E g : Steps(g, of, rows, lines, k)}
<1>1. 0 \in S
  <2> DEFINE g == [k \in 0..0 |-> rows]
  <2>1. g = [k \in 0..0 |-> IF k = 0 THEN rows ELSE ParseLine(of, g[k - 1], lines[k])]
    OBVIOUS
  <2> HIDE DEF g
  <2>2. Steps(g, of, rows, lines, 0)
    BY <2>1 DEF Steps
  <2> QED  BY <2>2
<1>2. ASSUME NEW k \in Nat, k \in S PROVE k + 1 \in S
  <2>1. PICK f : Steps(f, of, rows, lines, k)
    BY <1>2
  <2> DEFINE g == [j \in 0..(k + 1) |-> IF j = k + 1 THEN ParseLine(of, f[k], lines[k + 1]) ELSE f[j]]
  <2>2. \A j \in 0..k : g[j] = f[j]
    OBVIOUS
  <2>3. g[k + 1] = ParseLine(of, f[k], lines[k + 1])
    OBVIOUS
  <2>4. \A j \in 0..k : f[j] = IF j = 0 THEN rows ELSE ParseLine(of, f[j - 1], lines[j])
    BY <2>1 DEF Steps
  <2>5. g = [j \in 0..(k + 1) |-> g[j]]
    OBVIOUS
  <2> HIDE DEF g
  <2>6. ASSUME NEW j \in 0..(k + 1)
        PROVE  g[j] = IF j = 0 THEN rows ELSE ParseLine(of, g[j - 1], lines[j])
    <3>1. CASE j = k + 1
      <4>1. k \in 0..k /\ j # 0 /\ j - 1 = k
        BY <3>1
      <4>2. g[k] = f[k]
        BY <2>2, <4>1
      <4> QED  BY <2>3, <3>1, <4>1, <4>2
    <3>2. CASE j \in 0..k /\ j # 0
      <4>1. j - 1 \in 0..k
        BY <3>2
      <4>2. g[j] = f[j] /\ g[j - 1] = f[j - 1]
        BY <2>2, <3>2, <4>1
      <4> QED  BY <2>4, <3>2, <4>2
    <3>3. CASE j = 0
      <4>1. 0 \in 0..k
        OBVIOUS
      <4> QED  BY <2>2, <2>4, <3>3, <4>1
    <3> QED  BY <3>1, <3>2, <3>3
  <2>7. Steps(g, of, rows, lines, k + 1)
    BY <2>5, <2>6 DEF Steps
  <2> QED  BY <2>7
<1> HIDE DEF S
<1>3. n \in S
  BY <1>1, <1>2, SetInduction
<1> QED  BY <1>3 DEF S

\* The rows after each of the lines.
LEMMA ParsedSteps ==
  ASSUME NEW of, NEW rows, NEW lines \in Seq(Lines)
  PROVE  \E g : /\ g[0] = rows /\ Parsed(of, rows, lines) = g[Len(lines)]
                /\ \A k \in 1..Len(lines) : g[k] = ParseLine(of, g[k - 1], lines[k])
<1> DEFINE n == Len(lines)
           g == CHOOSE g : Steps(g, of, rows, lines, n)
<1>1. n \in Nat
  OBVIOUS
<1>2. Steps(g, of, rows, lines, n)
  BY <1>1, StepsExist
<1>3. Parsed(of, rows, lines) = g[n]
  BY DEF Parsed, Steps
<1> HIDE DEF g, n
<1>4. \A k \in 0..n : g[k] = IF k = 0 THEN rows ELSE ParseLine(of, g[k - 1], lines[k])
  BY <1>2 DEF Steps
<1>5. 0 \in 0..n /\ \A k \in 1..n : k \in 0..n /\ k # 0
  BY <1>1
<1> QED  BY <1>3, <1>4, <1>5 DEF n

\* And only they are.
LEMMA ParsedIsLast ==
  ASSUME NEW of, NEW rows, NEW lines \in Seq(Lines), NEW h, h[0] = rows,
         \A k \in 1..Len(lines) : h[k] = ParseLine(of, h[k - 1], lines[k])
  PROVE  Parsed(of, rows, lines) = h[Len(lines)]
<1>1. PICK g : /\ g[0] = rows /\ Parsed(of, rows, lines) = g[Len(lines)]
               /\ \A k \in 1..Len(lines) : g[k] = ParseLine(of, g[k - 1], lines[k])
  BY ParsedSteps
<1> DEFINE S == {k \in Nat : k <= Len(lines) => g[k] = h[k]}
<1>2. 0 \in S
  BY <1>1
<1>3. ASSUME NEW k \in Nat, k \in S PROVE k + 1 \in S
  <2> SUFFICES ASSUME k + 1 <= Len(lines) PROVE g[k + 1] = h[k + 1]
    OBVIOUS
  <2>1. k + 1 \in 1..Len(lines) /\ (k + 1) - 1 = k /\ k <= Len(lines)
    OBVIOUS
  <2>2. g[k] = h[k]
    BY <1>3, <2>1
  <2>3. g[k + 1] = ParseLine(of, g[k], lines[k + 1])
    BY <1>1, <2>1
  <2>4. h[k + 1] = ParseLine(of, h[k], lines[k + 1])
    BY <2>1
  <2> QED  BY <2>2, <2>3, <2>4
<1> HIDE DEF S
<1>4. Len(lines) \in S
  <2>1. Len(lines) \in Nat
    OBVIOUS
  <2> QED  BY <1>2, <1>3, <2>1, SetInduction
<1> QED  BY <1>1, <1>4 DEF S

\* Nothing to parse.
LEMMA ParsedNothing ==
  ASSUME NEW of, NEW rows
  PROVE  Parsed(of, rows, <<>>) = rows
<1>1. <<>> \in Seq(Lines) /\ Len(<<>>) = 0
  OBVIOUS
<1>2. \A lines \in Seq(Lines) : \E g : g[0] = rows /\ Parsed(of, rows, lines) = g[Len(lines)]
  <2> TAKE lines \in Seq(Lines)
  <2> QED  BY ParsedSteps
<1>3. PICK g : g[0] = rows /\ Parsed(of, rows, <<>>) = g[Len(<<>>)]
  BY <1>1, <1>2, Zenon
<1> QED  BY <1>1, <1>3

\* To go on from the rows of the first lines is to parse all of them.
LEMMA ParsedGoesOn ==
  ASSUME NEW of, NEW rows, NEW lines \in Seq(Lines), NEW m \in 0..Len(lines), NEW n \in m..Len(lines)
  PROVE  Parsed(of, Parsed(of, rows, SubSeq(lines, 1, m)), SubSeq(lines, m + 1, n))
           = Parsed(of, rows, SubSeq(lines, 1, n))
<1> DEFINE whole == SubSeq(lines, 1, n)
           front == SubSeq(lines, 1, m)
           back == SubSeq(lines, m + 1, n)
<1>0. Len(lines) \in Nat /\ DOMAIN lines = 1..Len(lines)
  OBVIOUS
<1>1. /\ whole \in Seq(Lines) /\ Len(whole) = n /\ \A k \in 1..n : whole[k] = lines[k]
      /\ front \in Seq(Lines) /\ Len(front) = m /\ \A k \in 1..m : front[k] = lines[k]
  OBVIOUS
<1>2. back \in Seq(Lines) /\ Len(back) = n - m /\ \A k \in 1..(n - m) : back[k] = lines[m + k]
  OBVIOUS
<1> HIDE DEF whole, front, back
<1>3. PICK g : /\ g[0] = rows /\ Parsed(of, rows, whole) = g[n]
               /\ \A k \in 1..n : g[k] = ParseLine(of, g[k - 1], whole[k])
  <2>0. whole \in Seq(Lines)
    BY <1>1
  <2>1. PICK g : /\ g[0] = rows /\ Parsed(of, rows, whole) = g[Len(whole)]
                 /\ \A k \in 1..Len(whole) : g[k] = ParseLine(of, g[k - 1], whole[k])
    BY <2>0, ParsedSteps
  <2>2. Parsed(of, rows, whole) = g[n] /\ \A k \in 1..n : g[k] = ParseLine(of, g[k - 1], whole[k])
    BY <1>1, <2>1
  <2> QED  BY <2>1, <2>2, Zenon
<1>4. Parsed(of, rows, front) = g[m]
  <2>1. \A k \in 1..m : k \in 1..n
    BY <1>0
  <2>2. \A k \in 1..m : g[k] = ParseLine(of, g[k - 1], front[k])
    BY <1>1, <1>3, <2>1
  <2>3. Parsed(of, rows, front) = g[Len(front)]
    <3>1. \A k \in 1..Len(front) : g[k] = ParseLine(of, g[k - 1], front[k])
      BY <1>1, <2>2, Zenon
    <3>2. front \in Seq(Lines) /\ g[0] = rows
      BY <1>1, <1>3
    <3> QED  BY <3>1, <3>2, ParsedIsLast
  <2> QED  BY <1>1, <2>3
<1>5. Parsed(of, g[m], back) = g[n]
  <2> DEFINE h == [k \in 0..(n - m) |-> g[m + k]]
  <2>1. h[0] = g[m] /\ h[n - m] = g[n]
    BY <1>0
  <2>2. ASSUME NEW k \in 1..(n - m) PROVE h[k] = ParseLine(of, h[k - 1], back[k])
    <3>1. m + k \in 1..n /\ (m + k) - 1 = m + (k - 1) /\ k \in 0..(n - m) /\ k - 1 \in 0..(n - m)
      BY <1>0
    <3>2. h[k] = g[m + k] /\ h[k - 1] = g[m + (k - 1)]
      BY <3>1
    <3> HIDE DEF h
    <3>3. g[m + k] = ParseLine(of, g[m + (k - 1)], lines[m + k])
      BY <1>1, <1>3, <3>1
    <3> QED  BY <1>2, <3>2, <3>3
  <2> HIDE DEF h
  <2> QED  BY <1>2, <2>1, <2>2, ParsedIsLast
<1> QED  BY <1>3, <1>4, <1>5 DEF whole, front, back

----------------------------------------------------------------------------
(* The invariant.                                                           *)

\* The rows are those of the first lines, up to this offset.
UpTo(of, lines, rows, offset) ==
  \E n \in 0..Len(lines) : /\ offset = 2 * n
                           /\ rows = Parsed(of, <<>>, SubSeq(lines, 1, n))

\* The file was replaced by one line since that time, and is shorter than the offset.
CutDown(f, offset, mtime) ==
  unseen /\ offset > 2 /\ Len(f.lines) = 1 /\ f.half = None /\ mtime < f.mtime

FileTyped ==
  file # None => file \in [lines: Seq(Lines), half: Lines \cup {None}, mtime: Nat, of: Nat]

\* The entry of the cache is of the lines as they are, and of all of them while the
\* file has its time; or the file is shorter; or it is being read afresh.
CachedSound ==
  file # None /\ cached # None =>
    /\ cached.offset \in Nat /\ cached.mtime \in Nat /\ cached.mtime <= file.mtime
    /\ \/ /\ UpTo(engine, file.lines, cached.rows, cached.offset)
          /\ cached.mtime = file.mtime => cached.offset = 2 * Len(file.lines)
       \/ CutDown(file, cached.offset, cached.mtime)
       \/ poll.pc = "read" /\ poll.start = 0 /\ cached.mtime < file.mtime

\* So is what a poll goes on from, which is the entry or nothing.
PollSound ==
  file # None /\ poll.pc = "read" =>
    /\ poll.start \in Nat /\ poll.mtime \in Nat /\ poll.mtime <= file.mtime
    /\ poll.start = 0 => poll.rows = <<>>
    /\ poll.start # 0 => cached # None /\ poll.start = cached.offset
    /\ UpTo(engine, file.lines, poll.rows, poll.start) \/ CutDown(file, poll.start, poll.mtime)

CacheInv == FileTyped /\ CachedSound /\ PollSound

\* What was read of a file stays so as it grows.
LEMMA GrowsOn ==
  ASSUME NEW of, NEW lines \in Seq(Lines), NEW line \in Lines, NEW rows, NEW offset,
         UpTo(of, lines, rows, offset)
  PROVE  UpTo(of, Append(lines, line), rows, offset)
<1>1. PICK n \in 0..Len(lines) : offset = 2 * n /\ rows = Parsed(of, <<>>, SubSeq(lines, 1, n))
  BY DEF UpTo
<1>2. n \in 0..Len(Append(lines, line))
  OBVIOUS
<1>3. SubSeq(Append(lines, line), 1, n) = SubSeq(lines, 1, n)
  OBVIOUS
<1> QED  BY <1>1, <1>2, <1>3 DEF UpTo

\* To read on to the last newline.
LEMMA ReadsOn ==
  ASSUME NEW of, NEW lines \in Seq(Lines), NEW rows, NEW start, NEW end,
         UpTo(of, lines, rows, start),
         end = IF 2 * Len(lines) > start THEN 2 * Len(lines) ELSE start
  PROVE  /\ end = 2 * Len(lines)
         /\ UpTo(of, lines, Parsed(of, rows, SubSeq(lines, (start + 1) \div 2 + 1, end \div 2)), end)
<1>1. PICK n \in 0..Len(lines) : start = 2 * n /\ rows = Parsed(of, <<>>, SubSeq(lines, 1, n))
  BY DEF UpTo
<1>2. Len(lines) \in Nat /\ Len(lines) \in 0..Len(lines) /\ Len(lines) \in n..Len(lines)
  OBVIOUS
<1>3. end = 2 * Len(lines) /\ (start + 1) \div 2 + 1 = n + 1 /\ end \div 2 = Len(lines)
  <2>1. n \in Nat /\ n <= Len(lines)
    BY <1>1, <1>2
  <2>2. (2 * n + 1) \div 2 = n /\ (2 * Len(lines)) \div 2 = Len(lines)
    BY <1>2, <2>1
  <2>3. end = 2 * Len(lines)
    BY <1>1, <1>2, <2>1
  <2> QED  BY <1>1, <2>2, <2>3
<1>4. Parsed(of, rows, SubSeq(lines, n + 1, Len(lines)))
        = Parsed(of, <<>>, SubSeq(lines, 1, Len(lines)))
  BY <1>1, <1>2, ParsedGoesOn
<1> QED  BY <1>2, <1>3, <1>4 DEF UpTo

\* Nothing is read of any file.
LEMMA NothingRead ==
  ASSUME NEW of, NEW lines \in Seq(Lines)
  PROVE  UpTo(of, lines, <<>>, 0)
<1>1. SubSeq(lines, 1, 0) = <<>> /\ 0 \in 0..Len(lines)
  OBVIOUS
<1>2. Parsed(of, <<>>, <<>>) = <<>>
  BY ParsedNothing
<1>3. <<>> = Parsed(of, <<>>, SubSeq(lines, 1, 0))
  BY <1>1, <1>2, Zenon
<1>4. 0 = 2 * 0
  OBVIOUS
<1> QED  BY <1>1, <1>3, <1>4, Zenon DEF UpTo

LEMMA InitCacheInv == CacheInit => CacheInv
<1> SUFFICES ASSUME CacheInit PROVE CacheInv
  OBVIOUS
<1>1. <<>> \in Seq(Lines)
  OBVIOUS
<1>2. FileTyped
  BY <1>1 DEF CacheInit, FileTyped
<1>3. CachedSound /\ PollSound
  BY DEF CacheInit, CachedSound, PollSound, NoPoll
<1> QED  BY <1>2, <1>3 DEF CacheInv

\* The file grows by a line or by half of one.
LEMMA GrowthKeepsCacheInv ==
  ASSUME CacheInv, file # None, UNCHANGED <<engine, cached, poll, unseen>>,
         unseen => file.half # None,
         NEW lines, NEW half \in Lines \cup {None}, file' = Written(lines, half),
         lines = file.lines \/ \E line \in Lines : lines = Append(file.lines, line)
  PROVE  CacheInv'
<1>1. /\ file.lines \in Seq(Lines) /\ file.half \in Lines \cup {None} /\ file.mtime \in Nat /\ file.of \in Nat
      /\ file = [lines |-> file.lines, half |-> file.half, mtime |-> file.mtime, of |-> file.of]
  BY DEF CacheInv, FileTyped
<1>2. file' = [lines |-> lines, half |-> half, mtime |-> file.mtime + 1, of |-> file.of]
  BY <1>1 DEF Written
<1>3. lines \in Seq(Lines)
  BY <1>1
<1>4. FileTyped'
  BY <1>1, <1>2, <1>3 DEF FileTyped
<1>5. \A rows, offset : UpTo(engine, file.lines, rows, offset) => UpTo(engine, lines, rows, offset)
  BY <1>1, GrowsOn
<1>6. file'.lines = lines /\ file'.mtime = file.mtime + 1
  BY <1>2
<1>7. \A offset, mtime : ~CutDown(file, offset, mtime)
  BY DEF CutDown
<1>8. CachedSound'
  BY <1>1, <1>5, <1>6, <1>7 DEF CacheInv, CachedSound
<1>9. PollSound'
  BY <1>1, <1>5, <1>6, <1>7 DEF CacheInv, PollSound
<1> QED  BY <1>4, <1>8, <1>9 DEF CacheInv

\* The file is replaced by a shorter one.
LEMMA ReplaceKeepsCacheInv ==
  ASSUME CacheInv, PollsShrink, NEW line \in Lines, Replaced(line)
  PROVE  CacheInv'
<1>1. /\ file.lines \in Seq(Lines) /\ file.half \in Lines \cup {None} /\ file.mtime \in Nat /\ file.of \in Nat
      /\ file = [lines |-> file.lines, half |-> file.half, mtime |-> file.mtime, of |-> file.of]
  BY DEF CacheInv, FileTyped, Replaced
<1>2. file' = [lines |-> <<line>>, half |-> None, mtime |-> file.mtime + 1, of |-> file.of + 1]
  BY <1>1 DEF Replaced
<1>3. <<line>> \in Seq(Lines) /\ Len(<<line>>) = 1
  OBVIOUS
<1>4. FileTyped'
  BY <1>1, <1>2, <1>3 DEF FileTyped
<1>5. /\ file'.lines = <<line>> /\ file'.half = None /\ file'.mtime = file.mtime + 1
      /\ unseen' = TRUE /\ engine' = engine /\ cached' = cached /\ poll' = poll
      /\ file # None /\ cached # None /\ cached.offset > 2
  BY <1>2 DEF Replaced, Consumed
<1>6. CachedSound'
  BY <1>1, <1>3, <1>5 DEF CacheInv, CachedSound, CutDown
<1>7. UpTo(engine, <<line>>, <<>>, 0)
  BY <1>3, NothingRead
<1>8. PollSound'
  BY <1>1, <1>3, <1>5, <1>7 DEF CacheInv, PollSound, CutDown
<1> QED  BY <1>4, <1>6, <1>8 DEF CacheInv

\* A poll looks at the file, and goes on from the entry or starts afresh.
LEMMA StatKeepsCacheInv == CacheInv /\ StatFile => CacheInv'
<1> SUFFICES ASSUME CacheInv, StatFile PROVE CacheInv'
  OBVIOUS
<1>1. poll.pc = "idle" /\ unseen' = FALSE /\ engine' = engine /\ file' = file
  BY DEF StatFile
<1>2. FileTyped'
  BY <1>1 DEF CacheInv, FileTyped
<1>3. CASE file = None
  BY <1>1, <1>2, <1>3 DEF CacheInv, CachedSound, PollSound
<1>4. CASE file # None
  <2>1. /\ cached' = cached
        /\ poll' = [pc |-> "read", size |-> Size(file), mtime |-> file.mtime,
                    start |-> IF GoesOn THEN cached.offset ELSE 0,
                    rows |-> IF GoesOn THEN cached.rows ELSE <<>>]
    BY <1>4 DEF StatFile
  <2>2. file.lines \in Seq(Lines) /\ file.mtime \in Nat /\ Len(file.lines) \in Nat
    BY <1>4 DEF CacheInv, FileTyped
  <2>3. UpTo(engine, file.lines, <<>>, 0)
    BY <2>2, NothingRead
  <2>4. CASE GoesOn
    <3>1. cached # None /\ Size(file) >= cached.offset
      BY <2>4 DEF GoesOn
    <3>2. ASSUME CutDown(file, cached.offset, cached.mtime) PROVE FALSE
      BY <3>1, <3>2, <1>4 DEF CutDown, Size, CacheInv, CachedSound
    <3>3. /\ UpTo(engine, file.lines, cached.rows, cached.offset)
          /\ cached.mtime = file.mtime => cached.offset = 2 * Len(file.lines)
          /\ cached.offset \in Nat /\ cached.mtime \in Nat /\ cached.mtime <= file.mtime
      BY <1>1, <1>4, <3>1, <3>2 DEF CacheInv, CachedSound
    <3>4. CachedSound'
      BY <1>1, <2>1, <3>3 DEF CachedSound
    <3>5. poll'.start = cached.offset /\ poll'.rows = cached.rows /\ poll'.mtime = file.mtime
      BY <2>1, <2>4
    <3>6. cached.offset = 0 => cached.rows = <<>>
      <4> SUFFICES ASSUME cached.offset = 0 PROVE cached.rows = <<>>
        OBVIOUS
      <4>1. cached.rows = Parsed(engine, <<>>, SubSeq(file.lines, 1, 0))
        BY <2>2, <3>3 DEF UpTo
      <4>2. SubSeq(file.lines, 1, 0) = <<>>
        BY <2>2
      <4> QED  BY <4>1, <4>2, ParsedNothing
    <3>7. PollSound'
      BY <1>1, <2>1, <2>2, <3>1, <3>3, <3>5, <3>6 DEF PollSound
    <3> QED  BY <1>2, <3>4, <3>7 DEF CacheInv
  <2>5. CASE ~GoesOn
    <3>1. poll'.pc = "read" /\ poll'.start = 0 /\ poll'.rows = <<>> /\ poll'.mtime = file.mtime
      BY <2>1, <2>5
    <3>2. CachedSound'
      <4> SUFFICES ASSUME cached # None PROVE CachedSound'
        BY <2>1 DEF CachedSound
      <4>1. cached.offset \in Nat /\ cached.mtime \in Nat /\ cached.mtime <= file.mtime
        BY <1>4 DEF CacheInv, CachedSound
      <4>2. CASE CutDown(file, cached.offset, cached.mtime)
        BY <1>1, <2>1, <3>1, <4>1, <4>2 DEF CachedSound, CutDown
      <4>3. CASE ~CutDown(file, cached.offset, cached.mtime)
        <5>1. /\ UpTo(engine, file.lines, cached.rows, cached.offset)
              /\ cached.mtime = file.mtime => cached.offset = 2 * Len(file.lines)
          BY <1>1, <1>4, <4>3 DEF CacheInv, CachedSound
        <5> QED  BY <1>1, <2>1, <4>1, <5>1 DEF CachedSound
      <4> QED  BY <4>2, <4>3
    <3>3. PollSound'
      BY <1>1, <2>2, <2>3, <3>1 DEF PollSound
    <3> QED  BY <1>2, <3>2, <3>3 DEF CacheInv
  <2> QED  BY <2>4, <2>5
<1> QED  BY <1>3, <1>4

\* A poll reads what the file is now, under the time it had.
LEMMA ReadKeepsCacheInv == CacheInv /\ ReadFile => CacheInv'
<1> SUFFICES ASSUME CacheInv, ReadFile PROVE CacheInv'
  OBVIOUS
<1>1. /\ poll.pc = "read" /\ poll' = NoPoll
      /\ unseen' = unseen /\ engine' = engine /\ file' = file
  BY DEF ReadFile
<1>2. FileTyped'
  BY <1>1 DEF CacheInv, FileTyped
<1>3. PollSound'
  BY <1>1 DEF PollSound, NoPoll
<1>4. CASE file = None
  BY <1>1, <1>2, <1>3, <1>4 DEF CacheInv, CachedSound
<1>5. CASE file # None
  <2> DEFINE end == IF LastNewline(file) > poll.start THEN LastNewline(file) ELSE poll.start
             lines == SubSeq(file.lines, (poll.start + 1) \div 2 + 1, end \div 2)
  <2>1. cached' = [size |-> poll.size, mtime |-> poll.mtime, offset |-> end,
                   rows |-> Parsed(engine, poll.rows, lines)]
    BY <1>5 DEF ReadFile
  <2>2. /\ cached'.mtime = poll.mtime /\ cached'.offset = end
        /\ cached'.rows = Parsed(engine, poll.rows, lines)
    BY <2>1
  <2>3. /\ poll.start \in Nat /\ poll.mtime \in Nat /\ poll.mtime <= file.mtime
        /\ UpTo(engine, file.lines, poll.rows, poll.start) \/ CutDown(file, poll.start, poll.mtime)
    BY <1>1, <1>5 DEF CacheInv, PollSound
  <2>4. file.lines \in Seq(Lines) /\ Len(file.lines) \in Nat
    BY <1>5 DEF CacheInv, FileTyped
  <2>5. end = IF 2 * Len(file.lines) > poll.start THEN 2 * Len(file.lines) ELSE poll.start
    BY DEF LastNewline
  <2>6. end \in Nat
    BY <2>3, <2>4, <2>5
  <2> HIDE DEF end
  <2>7. CASE UpTo(engine, file.lines, poll.rows, poll.start)
    <3>1. end = 2 * Len(file.lines) /\ UpTo(engine, file.lines, Parsed(engine, poll.rows, lines), end)
      BY <2>4, <2>5, <2>7, ReadsOn
    <3> HIDE DEF lines
    <3>2. CachedSound'
      BY <1>1, <2>2, <2>3, <2>6, <3>1 DEF CachedSound
    <3> QED  BY <1>2, <1>3, <3>2 DEF CacheInv
  <2>8. CASE CutDown(file, poll.start, poll.mtime)
    <3>1. end = poll.start
      BY <2>3, <2>5, <2>8 DEF CutDown
    <3> HIDE DEF lines
    <3>2. CachedSound'
      BY <1>1, <2>2, <2>3, <2>6, <2>8, <3>1 DEF CachedSound, CutDown
    <3> QED  BY <1>2, <1>3, <3>2 DEF CacheInv
  <2> QED  BY <2>3, <2>7, <2>8
<1> QED  BY <1>4, <1>5

LEMMA StepCacheInv ==
  ASSUME PollsShrink, CacheInv, [CacheNext]_cacheVars
  PROVE  CacheInv'
<1>1. CASE UNCHANGED cacheVars
  BY <1>1 DEF cacheVars, CacheInv, FileTyped, CachedSound, PollSound, CutDown
<1>2. ASSUME NEW line \in Lines, Replaced(line) PROVE CacheInv'
  BY <1>2, ReplaceKeepsCacheInv
<1>3. ASSUME NEW line \in Lines, NEW whole \in BOOLEAN, EngineWrites(line, whole) PROVE CacheInv'
  <2>1. /\ file # None /\ ~unseen /\ UNCHANGED <<engine, cached, poll, unseen>>
    BY <1>3 DEF EngineWrites
  <2>2. CASE whole
    <3>1. file' = Written(Append(file.lines, line), None)
      BY <1>3, <2>2 DEF EngineWrites
    <3> QED  BY <2>1, <3>1, GrowthKeepsCacheInv
  <2>3. CASE ~whole
    <3>1. file' = Written(file.lines, line)
      BY <1>3, <2>3 DEF EngineWrites
    <3> QED  BY <2>1, <3>1, GrowthKeepsCacheInv
  <2> QED  BY <2>2, <2>3
<1>4. CASE EngineFlushes
  <2>1. /\ file # None /\ file.half # None /\ UNCHANGED <<engine, cached, poll, unseen>>
        /\ file' = Written(Append(file.lines, file.half), None)
    BY <1>4 DEF EngineFlushes
  <2>2. file.half \in Lines
    BY <2>1 DEF CacheInv, FileTyped
  <2> QED  BY <2>1, <2>2, GrowthKeepsCacheInv
<1>5. CASE Removed
  BY <1>5 DEF Removed, CacheInv, FileTyped, CachedSound, PollSound
<1>6. CASE StatFile
  BY <1>6, StatKeepsCacheInv
<1>7. CASE ReadFile
  BY <1>7, ReadKeepsCacheInv
<1> QED  BY <1>1, <1>2, <1>3, <1>4, <1>5, <1>6, <1>7 DEF CacheNext

LEMMA CacheInvImplies == CacheInv => RowsAreTheFile
<1> SUFFICES ASSUME CacheInv, Hit PROVE cached.rows = Parsed(engine, <<>>, file.lines)
  BY DEF RowsAreTheFile
<1>1. file # None /\ cached # None /\ cached.mtime = file.mtime
  BY DEF Hit
<1>2. file.lines \in Seq(Lines) /\ file.mtime \in Nat
  BY <1>1 DEF CacheInv, FileTyped
<1>3. UpTo(engine, file.lines, cached.rows, cached.offset) /\ cached.offset = 2 * Len(file.lines)
  BY <1>1, <1>2 DEF CacheInv, CachedSound, CutDown
<1>4. PICK n \in 0..Len(file.lines) : /\ cached.offset = 2 * n
                                      /\ cached.rows = Parsed(engine, <<>>, SubSeq(file.lines, 1, n))
  BY <1>3 DEF UpTo
<1>5. n = Len(file.lines)
  BY <1>2, <1>3, <1>4
<1>6. SubSeq(file.lines, 1, Len(file.lines)) = file.lines
  BY <1>2
<1> QED  BY <1>4, <1>5, <1>6

\* What a poll of the timeline answers from the cache is what a parse of the whole
\* transcript gives, for any lines, whoever wrote them, and however the writers, the
\* two steps of a poll and the replacements interleave, as long as a replaced file is
\* polled before it has grown again.
THEOREM CachedRowsAreTheFile == ASSUME PollsShrink PROVE CacheSpec => []RowsAreTheFile
<1>1. CacheInv /\ [CacheNext]_cacheVars => CacheInv'
  BY StepCacheInv
<1> QED  BY InitCacheInv, <1>1, CacheInvImplies, PTL DEF CacheSpec

----------------------------------------------------------------------------
(***************************************************************************)
(* DialogAnswer.                                                            *)
(***************************************************************************)

\* The hypotheses: prompts of the pane that differ, and a pane left alone.
PanePrompts == QuietPane /\ ~Alike /\ "question" \notin DialogKinds

PaneKinds == {"none", "question", "permit", "multi", "review"}
PaneType == [no: 0..MaxDialogs, checked: SUBSET Boxes, kind: PaneKinds]
CardType == [id: {None} \cup ({"pane"} \X PaneKinds \X (0..MaxDialogs)),
             no: 0..MaxDialogs, kind: PaneKinds]
TapType == [pc: {"idle", "check", "key", "again", "flip", "right", "review", "enter"},
            count: 0..MaxTaps, card: CardType, want: SUBSET Boxes, flip: SUBSET Boxes]

\* A card that shows a dialog has its hash as its id.
Hashed(c) == c.id = None \/ c.id = <<"pane", c.kind, c.no>>

\* How far the tap t has come with the dialog d.
TapFollows(t, d) ==
    /\ t.pc # "idle" => t.card.id = <<"pane", t.card.kind, t.card.no>>
    /\ t.pc = "key" => d.no = t.card.no
    /\ t.pc \in {"again", "enter"} => d.no = t.card.no \/ d = NoDialog
    /\ t.pc = "flip" => /\ d.no = t.card.no /\ d.kind = "multi"
                        /\ t.flip = {b \in Boxes : (b \in t.want) # (b \in d.checked)}
    /\ t.pc = "review" => d.no = t.card.no /\ d.kind = "review" /\ d.checked = t.want

DialogInv ==
    /\ DialogTypeOK
    /\ dialog \in PaneType /\ card \in CardType /\ tap \in TapType
    /\ tap.pc # "right"
    /\ dialog.kind = "none" <=> dialog = NoDialog
    /\ Hashed(card)
    /\ TapFollows(tap, dialog)
    /\ TapsDoAsShown

LEMMA DialogFacts ==
  /\ NoDialog \in PaneType /\ NoDialog.no = 0 /\ NoDialog.kind = "none"
  /\ NoCard \in CardType /\ NoCard.id = None
  /\ NoTap \in TapType /\ NoTap.pc = "idle" /\ NoTap.count = 0
  /\ \A c \in 0..MaxTaps : /\ [NoTap EXCEPT !.count = c] \in TapType
                           /\ [NoTap EXCEPT !.count = c].pc = "idle"
                           /\ [NoTap EXCEPT !.count = c].count = c
<1> USE DialogAssumption
<1>1. NoDialog \in PaneType /\ NoDialog.no = 0 /\ NoDialog.kind = "none"
  BY DEF NoDialog, PaneType, PaneKinds
<1>2. NoCard \in CardType /\ NoCard.id = None
  BY DEF NoCard, CardType, PaneKinds
<1>3. NoTap \in TapType /\ NoTap.pc = "idle" /\ NoTap.count = 0
  BY <1>2 DEF NoTap, TapType
<1>4. ASSUME NEW c \in 0..MaxTaps
      PROVE  /\ [NoTap EXCEPT !.count = c] \in TapType
             /\ [NoTap EXCEPT !.count = c].pc = "idle"
             /\ [NoTap EXCEPT !.count = c].count = c
  BY <1>3 DEF TapType
<1> QED  BY <1>1, <1>2, <1>3, <1>4

LEMMA InitDialogInv == DialogInit => DialogInv
<1> SUFFICES ASSUME DialogInit PROVE DialogInv
  OBVIOUS
<1>1. /\ dialog = NoDialog /\ card = NoCard /\ tap = NoTap /\ opened = 0 /\ landed = {}
      /\ waiting = FALSE /\ said = [no |-> 0, kind |-> "none", answered |-> TRUE]
  BY DEF DialogInit
<1>2. waiting \in BOOLEAN
  BY <1>1
<1>3. DialogTypeOK
  BY <1>1, <1>2, DialogFacts, DialogAssumption DEF DialogTypeOK, PaneType, PaneKinds
<1> QED  BY <1>1, <1>3, DialogFacts
         DEF DialogInv, Hashed, TapFollows, TapsDoAsShown, ReachesTheRendered, SubmitsTheWanted

----------------------------------------------------------------------------
\* Where no question is opened, what is blocked is what the pane shows.
LEMMA BlockedIsThePane ==
  ASSUME PanePrompts, DialogInv
  PROVE  /\ Blocked \in CardType /\ Hashed(Blocked)
         /\ Blocked.id = None \/ (Blocked.no = dialog.no /\ Blocked.kind = dialog.kind
                                  /\ Blocked.id = <<"pane", dialog.kind, dialog.no>>)
<1>1. said.kind # "question" /\ dialog \in PaneType
  BY DEF DialogInv, DialogTypeOK, PanePrompts
<1>2. HashOf(dialog) = <<"pane", dialog.kind, dialog.no>>
  BY DEF HashOf, PanePrompts
<1>3. CASE Blocked = NoCard
  BY <1>3, DialogFacts DEF Hashed
<1>4. CASE Blocked = [id |-> HashOf(dialog), no |-> dialog.no, kind |-> dialog.kind]
  BY <1>1, <1>2, <1>4 DEF Hashed, CardType, PaneType
<1> QED  BY <1>1, <1>3, <1>4 DEF Blocked

\* The agent, its user, its hooks and the page: while a tap is served they leave the
\* pane alone.
LEMMA OthersKeepDialogInv ==
  ASSUME PanePrompts, DialogInv,
         \/ \E kind \in DialogKinds : OpenDialog(kind)
         \/ \E b \in Boxes : UserToggles(b)
         \/ Flush \/ RecordWaiting \/ UserAnswers \/ PushCard
  PROVE  DialogInv'
<1> USE DialogAssumption DEF DialogInv
<1>1. CASE \E kind \in DialogKinds : OpenDialog(kind)
  <2>1. PICK kind \in DialogKinds : OpenDialog(kind)
    BY <1>1
  <2>2. dialog' \in PaneType /\ dialog'.kind = kind /\ kind # "none" /\ opened' \in 0..MaxDialogs
    <3>1. opened' = opened + 1 /\ opened + 1 \in 0..MaxDialogs
      BY <2>1 DEF OpenDialog, DialogTypeOK
    <3>2. kind \in PaneKinds /\ kind # "none"
      BY <2>1 DEF PaneKinds
    <3>3. dialog' = [no |-> opened + 1, kind |-> kind, checked |-> {}]
      BY <2>1 DEF OpenDialog
    <3> QED  BY <3>1, <3>2, <3>3 DEF PaneType
  <2>3. UNCHANGED <<said, waiting, card, tap, landed>> /\ tap.pc = "idle"
    BY <2>1 DEF OpenDialog, Quiet, PanePrompts
  <2>4. DialogTypeOK'
    BY <2>2, <2>3 DEF DialogTypeOK, PaneType, PaneKinds
  <2> QED  BY <2>2, <2>3, <2>4, DialogFacts
           DEF TapFollows, TapsDoAsShown, ReachesTheRendered, SubmitsTheWanted, Hashed
<1>2. CASE \E b \in Boxes : UserToggles(b)
  <2>1. PICK b \in Boxes : UserToggles(b)
    BY <1>2
  <2>2. dialog' \in PaneType /\ dialog'.kind = "multi"
    BY <2>1 DEF UserToggles, PaneType, PaneKinds
  <2>3. UNCHANGED <<opened, said, waiting, card, tap, landed>> /\ tap.pc = "idle"
    BY <2>1 DEF UserToggles, Quiet, PanePrompts
  <2>4. DialogTypeOK'
    BY <2>2, <2>3 DEF DialogTypeOK, PaneType, PaneKinds
  <2> QED  BY <2>2, <2>3, <2>4, DialogFacts
           DEF TapFollows, TapsDoAsShown, ReachesTheRendered, SubmitsTheWanted, Hashed
<1>3. CASE Flush
  <2>1. UNCHANGED <<dialog, opened, waiting, card, tap, landed>>
    BY <1>3 DEF Flush
  <2>2. said' \in [no: 0..MaxDialogs, kind: {"none"} \cup DialogKinds, answered: BOOLEAN]
    <3> DEFINE SaidType == [no: 0..MaxDialogs, kind: {"none"} \cup DialogKinds, answered: BOOLEAN]
    <3>1. said \in SaidType /\ dialog.no \in 0..MaxDialogs
      BY DEF DialogTypeOK, PaneType
    <3>2. CASE said' = [no |-> dialog.no, kind |-> dialog.kind, answered |-> FALSE]
                 /\ dialog.kind \in DialogKinds
      BY <3>1, <3>2
    <3>3. CASE said' = [said EXCEPT !.answered = TRUE]
      BY <3>1, <3>3
    <3> QED  BY <1>3, <3>2, <3>3 DEF Flush
  <2>3. DialogTypeOK'
    BY <2>1, <2>2 DEF DialogTypeOK
  <2> QED  BY <2>1, <2>3 DEF TapFollows, TapsDoAsShown, ReachesTheRendered, SubmitsTheWanted, Hashed
<1>4. CASE RecordWaiting
  <2>1. UNCHANGED <<dialog, opened, said, card, tap, landed>> /\ waiting' \in BOOLEAN
    BY <1>4 DEF RecordWaiting
  <2>3. DialogTypeOK'
    BY <2>1 DEF DialogTypeOK
  <2> QED  BY <2>1, <2>3 DEF TapFollows, TapsDoAsShown, ReachesTheRendered, SubmitsTheWanted, Hashed
<1>5. CASE UserAnswers
  <2>1. /\ UNCHANGED <<opened, said, waiting, card, tap, landed>> /\ tap.pc = "idle"
        /\ dialog' = NoDialog
    BY <1>5 DEF UserAnswers, Quiet, PanePrompts
  <2>3. DialogTypeOK'
    BY <2>1, DialogFacts DEF DialogTypeOK, PaneType, PaneKinds
  <2> QED  BY <2>1, <2>3, DialogFacts
           DEF TapFollows, TapsDoAsShown, ReachesTheRendered, SubmitsTheWanted, Hashed
<1>6. CASE PushCard
  <2>1. UNCHANGED <<dialog, opened, said, waiting, tap, landed>> /\ card' = Blocked
    BY <1>6 DEF PushCard
  <2>2. card' \in CardType /\ Hashed(card)'
    BY <2>1, BlockedIsThePane DEF Hashed
  <2>3. DialogTypeOK'
    BY <2>1 DEF DialogTypeOK
  <2> QED  BY <2>1, <2>2, <2>3 DEF TapFollows, TapsDoAsShown, ReachesTheRendered, SubmitsTheWanted
<1> QED  BY <1>1, <1>2, <1>3, <1>4, <1>5, <1>6

\* A step of the tap, which lets the dialog d on the pane and the tap t behind.
LEMMA TapMoves ==
  ASSUME DialogInv, UNCHANGED <<opened, said, waiting, card>>,
         dialog' \in PaneType, dialog'.kind = "none" <=> dialog' = NoDialog,
         tap' \in TapType, tap'.pc # "right", TapFollows(tap', dialog'),
         \/ UNCHANGED landed
         \/ \E key \in {"digit", "enter", "submit"} :
              /\ Lands(key)
              /\ dialog.no = tap.card.no \/ (key = "enter" /\ dialog.no = 0)
              /\ key = "submit" => dialog.checked = tap.want
  PROVE  DialogInv'
<1>1. CASE UNCHANGED landed
  BY <1>1 DEF DialogInv, DialogTypeOK, TapType, PaneType, PaneKinds, Hashed,
              TapsDoAsShown, ReachesTheRendered, SubmitsTheWanted
<1>2. ASSUME NEW key \in {"digit", "enter", "submit"}, Lands(key),
             dialog.no = tap.card.no \/ (key = "enter" /\ dialog.no = 0),
             key = "submit" => dialog.checked = tap.want
      PROVE  DialogInv'
  <2> DEFINE l == [key |-> key, for |-> tap.card.no, on |-> dialog.no,
                   set |-> dialog.checked, want |-> tap.want]
  <2>1. landed' = landed \cup {l}
    BY <1>2 DEF Lands
  <2>2. l \in [key: {"digit", "enter", "submit"}, for: 0..MaxDialogs,
               on: 0..MaxDialogs, set: SUBSET Boxes, want: SUBSET Boxes]
    BY DEF DialogInv, TapType, CardType, PaneType
  <2>3. /\ l.on = l.for \/ (l.key = "enter" /\ l.on = 0)
        /\ l.key = "submit" => l.set = l.want
    BY <1>2
  <2> HIDE DEF l
  <2>4. TapsDoAsShown'
    BY <2>1, <2>3 DEF DialogInv, TapsDoAsShown, ReachesTheRendered, SubmitsTheWanted
  <2>5. DialogTypeOK'
    BY <2>1, <2>2 DEF DialogInv, DialogTypeOK, TapType, PaneType, PaneKinds
  <2> QED  BY <2>4, <2>5 DEF DialogInv, Hashed
<1> QED  BY <1>1, <1>2

LEMMA TapKeepsDialogInv ==
  ASSUME PanePrompts, DialogInv,
         \/ Tap \/ CheckTap \/ SendDigit \/ LookAgain \/ SendEnter \/ SendFlip \/ SendRight
         \/ SubmitReview
  PROVE  DialogInv'
<1>a. /\ dialog \in PaneType /\ card \in CardType /\ tap \in TapType /\ tap.pc # "right"
      /\ dialog.kind = "none" <=> dialog = NoDialog
      /\ Hashed(card) /\ TapFollows(tap, dialog)
  BY DEF DialogInv
<1>e. [NoTap EXCEPT !.count = tap.count] \in TapType /\ [NoTap EXCEPT !.count = tap.count].pc = "idle"
  BY <1>a, DialogFacts DEF TapType
\* A tap that is through follows nothing.
<1>f. \A d : Answered => tap' \in TapType /\ tap'.pc = "idle" /\ TapFollows(tap', d)
  BY <1>e DEF Answered, TapFollows
<1>g. \A pc \in {"key", "again", "review", "enter", "flip"} :
        Goes(pc) => /\ tap' \in TapType /\ tap'.pc = pc /\ tap'.card = tap.card
                    /\ tap'.want = tap.want /\ tap'.flip = tap.flip
  BY <1>a DEF Goes, TapType
<1>1. CASE Tap
  <2>1. PICK want \in SUBSET Boxes :
          tap' = [pc |-> "check", count |-> tap.count + 1, card |-> card, want |-> want, flip |-> {}]
    BY <1>1 DEF Tap
  <2>2. /\ UNCHANGED <<opened, said, waiting, card, dialog, landed>> /\ card.id # None
        /\ tap.count + 1 \in 0..MaxTaps
    BY <1>1, <1>a, DialogAssumption DEF Tap, TapType
  <2>3. tap' \in TapType /\ tap'.pc = "check" /\ tap'.card = card
    BY <1>a, <2>1, <2>2 DEF TapType
  <2>4. TapFollows(tap', dialog')
    BY <1>a, <2>2, <2>3 DEF TapFollows, Hashed
  <2> QED  BY <1>a, <2>2, <2>3, <2>4, TapMoves
<1>2. CASE CheckTap
  <2>0. tap.pc = "check" /\ UNCHANGED <<dialog, opened, said, waiting, card, landed>>
    BY <1>2 DEF CheckTap
  <2>1. CASE Blocked.id = None \/ ~SameDialog(Blocked)
    <3>1. Answered
      BY <1>2, <2>1 DEF CheckTap
    <3> QED  BY <1>a, <1>f, <2>0, <3>1, TapMoves
  <2>2. CASE ~(Blocked.id = None \/ ~SameDialog(Blocked))
    <3>1. dialog.no = tap.card.no /\ Blocked.kind = dialog.kind
      BY <1>a, <2>0, <2>2, BlockedIsThePane DEF SameDialog, TapFollows
    <3>2. CASE Blocked.kind = "multi"
      <4>1. tap' = [tap EXCEPT !.pc = "flip", !.flip = Flips(dialog.checked)]
        BY <1>2, <2>2, <3>2 DEF CheckTap
      <4>2. Flips(dialog.checked) \in SUBSET Boxes
        BY DEF Flips
      <4>3. /\ tap' \in TapType /\ tap'.pc = "flip" /\ tap'.card = tap.card /\ tap'.want = tap.want
            /\ tap'.flip = Flips(dialog.checked)
        BY <1>a, <4>1, <4>2 DEF TapType
      <4>4. TapFollows(tap', dialog')
        BY <1>a, <2>0, <3>1, <3>2, <4>3 DEF TapFollows, Flips
      <4> QED  BY <1>a, <2>0, <4>3, <4>4, TapMoves
    <3>3. CASE Blocked.kind # "multi"
      <4>1. Goes("key")
        BY <1>2, <2>2, <3>3 DEF CheckTap
      <4>2. tap' \in TapType /\ tap'.pc = "key" /\ tap'.card = tap.card
        BY <1>g, <4>1
      <4>3. TapFollows(tap', dialog')
        BY <1>a, <2>0, <3>1, <4>2 DEF TapFollows
      <4> QED  BY <1>a, <2>0, <4>2, <4>3, TapMoves
    <3> QED  BY <3>2, <3>3
  <2> QED  BY <2>1, <2>2
<1>3. CASE SendDigit
  <2>0. /\ tap.pc = "key" /\ UNCHANGED <<opened, said, waiting, card>>
        /\ dialog' \in {dialog, NoDialog} /\ Goes("again") /\ Lands("digit")
    BY <1>3 DEF SendDigit
  <2>1. tap' \in TapType /\ tap'.pc = "again" /\ tap'.card = tap.card
    BY <1>g, <2>0
  <2>2. TapFollows(tap', dialog') /\ dialog.no = tap.card.no
    BY <1>a, <2>0, <2>1 DEF TapFollows
  <2> QED  BY <1>a, <2>0, <2>1, <2>2, DialogFacts, TapMoves
<1>4. CASE LookAgain
  <2>0. tap.pc = "again" /\ UNCHANGED <<dialog, opened, said, waiting, card, landed>>
    BY <1>4 DEF LookAgain
  <2>1. CASE Answered
    BY <1>a, <1>f, <2>0, <2>1, TapMoves
  <2>2. CASE Goes("enter")
    <3>1. tap' \in TapType /\ tap'.pc = "enter" /\ tap'.card = tap.card
      BY <1>g, <2>2
    <3>2. TapFollows(tap', dialog')
      BY <1>a, <2>0, <3>1 DEF TapFollows
    <3> QED  BY <1>a, <2>0, <3>1, <3>2, TapMoves
  <2> QED  BY <1>4, <2>1, <2>2 DEF LookAgain
<1>5. CASE SendEnter
  <2>0. /\ tap.pc = "enter" /\ UNCHANGED <<opened, said, waiting, card>>
        /\ dialog' = NoDialog /\ Answered /\ Lands("enter")
    BY <1>5 DEF SendEnter
  <2>1. dialog.no = tap.card.no \/ dialog.no = 0
    BY <1>a, <2>0, DialogFacts DEF TapFollows
  <2> QED  BY <1>a, <1>f, <2>0, <2>1, DialogFacts, TapMoves
<1>6. CASE SendFlip
  <2> DEFINE b == CHOOSE n \in tap.flip : \A m \in tap.flip : n <= m
             c == (dialog.checked \ {b}) \cup ({b} \ dialog.checked)
  <2>0. /\ tap.pc = "flip" /\ UNCHANGED <<opened, said, waiting, card>> /\ Lands("digit")
        /\ tap' = [tap EXCEPT !.flip = @ \ {b}]
        /\ dialog.no = tap.card.no /\ dialog.kind = "multi"
        /\ tap.flip = {x \in Boxes : (x \in tap.want) # (x \in dialog.checked)}
    BY <1>6, <1>a DEF SendFlip, TapFollows
  <2>1. dialog' = [dialog EXCEPT !.checked = c]
    BY <1>6, <2>0 DEF SendFlip
  <2>2. b \in tap.flip
    <3>1. tap.flip \in SUBSET {1, 2} /\ tap.flip # {}
      BY <1>6, <1>a DEF SendFlip, TapType, Boxes
    <3>2. \E n \in tap.flip : \A m \in tap.flip : n <= m
      <4>1. CASE 1 \in tap.flip
        BY <3>1, <4>1
      <4>2. CASE 1 \notin tap.flip
        BY <3>1, <4>2
      <4> QED  BY <4>1, <4>2
    <3> QED  BY <3>2
  <2> HIDE DEF b
  <2>3. c \in SUBSET Boxes /\ tap.flip \ {b} \in SUBSET Boxes
    BY <1>a, <2>0, <2>2 DEF PaneType, TapType
  <2>4. tap.flip \ {b} = {x \in Boxes : (x \in tap.want) # (x \in c)}
    BY <2>0, <2>2
  <2> HIDE DEF c
  <2>5. /\ dialog' \in PaneType /\ dialog'.no = dialog.no /\ dialog'.kind = "multi"
        /\ dialog'.checked = c
    BY <1>a, <2>0, <2>1, <2>3 DEF PaneType
  <2>6. /\ tap' \in TapType /\ tap'.pc = "flip" /\ tap'.card = tap.card /\ tap'.want = tap.want
        /\ tap'.flip = tap.flip \ {b}
    BY <1>a, <2>0, <2>3 DEF TapType
  <2>7. TapFollows(tap', dialog')
    BY <1>a, <2>0, <2>4, <2>5, <2>6 DEF TapFollows
  <2> QED  BY <2>0, <2>5, <2>6, <2>7, DialogFacts, TapMoves
<1>7. CASE SendRight
  <2>0. /\ tap.pc = "flip" /\ tap.flip = {} /\ UNCHANGED <<opened, said, waiting, card, landed>>
        /\ Goes("review") /\ dialog.no = tap.card.no /\ dialog.kind = "multi"
        /\ tap.flip = {b \in Boxes : (b \in tap.want) # (b \in dialog.checked)}
    BY <1>7, <1>a DEF SendRight, TapFollows
  <2>1. dialog' = [dialog EXCEPT !.kind = "review"]
    BY <1>7, <2>0 DEF SendRight
  <2>2. /\ dialog' \in PaneType /\ dialog'.kind = "review" /\ dialog'.no = dialog.no
        /\ dialog'.checked = dialog.checked
    BY <1>a, <2>1 DEF PaneType, PaneKinds
  <2>3. dialog.checked = tap.want
    <3>1. dialog.checked \in SUBSET Boxes /\ tap.want \in SUBSET Boxes
      BY <1>a DEF PaneType, TapType
    <3>2. \A b \in Boxes : b \in tap.want <=> b \in dialog.checked
      BY <2>0
    <3> QED  BY <3>1, <3>2
  <2>4. /\ tap' \in TapType /\ tap'.pc = "review" /\ tap'.card = tap.card /\ tap'.want = tap.want
    BY <1>g, <2>0
  <2>5. TapFollows(tap', dialog')
    BY <1>a, <2>0, <2>2, <2>3, <2>4 DEF TapFollows
  <2> QED  BY <2>0, <2>2, <2>4, <2>5, DialogFacts, TapMoves
<1>8. CASE SubmitReview
  <2>0. /\ tap.pc = "review" /\ UNCHANGED <<opened, said, waiting, card>>
        /\ dialog.no = tap.card.no /\ dialog.kind = "review" /\ dialog.checked = tap.want
    BY <1>8, <1>a DEF SubmitReview, TapFollows
  <2>1. Goes("enter") /\ Lands("submit") /\ dialog' \in {dialog, NoDialog}
    BY <1>8, <2>0 DEF SubmitReview
  <2>2. tap' \in TapType /\ tap'.pc = "enter" /\ tap'.card = tap.card
    BY <1>g, <2>1
  <2>3. TapFollows(tap', dialog')
    BY <1>a, <2>0, <2>1, <2>2 DEF TapFollows
  <2> QED  BY <1>a, <2>0, <2>1, <2>2, <2>3, DialogFacts, TapMoves
<1> QED  BY <1>1, <1>2, <1>3, <1>4, <1>5, <1>6, <1>7, <1>8

LEMMA DialogNextKeepsInv ==
  ASSUME PanePrompts, DialogInv, [DialogNext]_dlgVars
  PROVE  DialogInv'
<1>1. CASE UNCHANGED dlgVars
  BY <1>1 DEF dlgVars, DialogInv, DialogTypeOK, Hashed, TapFollows, TapsDoAsShown,
              ReachesTheRendered, SubmitsTheWanted
<1>2. CASE DialogNext
  BY <1>2, OthersKeepDialogInv, TapKeepsDialogInv DEF DialogNext
<1> QED  BY <1>1, <1>2

\* Where the prompts of the pane differ and nobody else touches it while a tap is
\* served, the keys of a tap reach the dialog its card showed and submit the boxes
\* that were wanted, however stale the card (server.py: a stale tap sends nothing).
THEOREM TapsAreNeverStale == ASSUME PanePrompts PROVE DialogSpec => []TapsDoAsShown
<1>1. DialogInv /\ [DialogNext]_dlgVars => DialogInv'
  BY DialogNextKeepsInv
<1>2. DialogInv => TapsDoAsShown
  BY DEF DialogInv
<1> QED  BY <1>1, <1>2, InitDialogInv, PTL DEF DialogSpec

----------------------------------------------------------------------------
(***************************************************************************)
(* MessageFeed.                                                             *)
(***************************************************************************)

LetterType == [pc : {"new", "typed", "sent", "lost"}, by : Channel, to : Panes \cup {None}]
Turn == [id : Letters, text : Seq(Letters)]

\* Where one types at a time, a box holds what is being typed and nothing else.
BoxFits(p) ==
    IF pane[p] # "live" THEN box[p] = <<>>
    ELSE \/ Typing(p) = {} /\ box[p] = <<>>
         \/ \E m \in Letters : Typing(p) = {m} /\ box[p] = <<m>>

TurnsFit(p) ==
    /\ \A i \in 1..Len(script[p]) :
         /\ script[p][i].text = <<script[p][i].id>>
         /\ letter[script[p][i].id].pc = "sent"
    /\ \A i, j \in 1..Len(script[p]) : script[p][i].id = script[p][j].id => i = j

DeskType ==
    /\ letter \in [Letters -> LetterType]
    /\ \A m \in Letters : letter[m].pc = "typed" => letter[m].to \in Panes
    /\ box \in [Panes -> Seq(Letters)]
    /\ pane \in [Panes -> {"none", "live", "ended", "gone"}]
    /\ script \in [Panes -> Seq(Turn)]
    /\ bundle \in [Panes -> Nat \cup {None}]

DeskInv ==
    /\ DeskType
    /\ \A p \in Panes : /\ bundle[p] # None => pane[p] # "none" /\ bundle[p] <= Len(script[p])
                        /\ pane[p] = "none" => Typing(p) = {}
                        /\ BoxFits(p) /\ TurnsFit(p)

\* A turn in what is mirrored of p, and in all that p has.
InBundle(p, id) == bundle[p] # None /\ \E i \in 1..bundle[p] : script[p][i].id = id
InScript(p, id) == pane[p] # "none" /\ \E i \in 1..Len(script[p]) : script[p][i].id = id

Attributed(turn) ==
    /\ turn.id \in Letters
    /\ turn.is.by = letter[turn.id].by /\ (turn.is.by # "typed" => turn.is.from = turn.id)

ReaderType ==
    [pc : {"idle", "list", "read"}, alive : SUBSET Panes, todo : SUBSET ({"bundle", "live"} \X Panes),
     had : SUBSET Letters, out : SUBSET reader.out]

\* What was in scope has been read, or is in a source that is still to be read.
ReaderInv ==
    /\ reader \in ReaderType
    /\ \A p \in reader.alive : pane[p] # "none"
    /\ \A p \in Panes : <<"bundle", p>> \in reader.todo => bundle[p] # None
    /\ \A turn \in reader.out : Attributed(turn)
    /\ \A turn, other \in reader.out : turn.id = other.id => turn = other
    /\ reader.pc = "list" => \A id \in reader.had : \/ \E p \in Panes : InBundle(p, id)
                                                    \/ \E p \in reader.alive : InScript(p, id)
    /\ reader.pc = "read" => \A id \in reader.had :
         \/ SeenTurn(id)
         \/ \E p \in Panes : <<"bundle", p>> \in reader.todo /\ InBundle(p, id)
         \/ \E p \in Panes : <<"live", p>> \in reader.todo /\ InScript(p, id)

----------------------------------------------------------------------------
(* The steps on the desk lose no turn.                                      *)

Keeps ==
    /\ \A m \in Letters : letter'[m].by = letter[m].by
    /\ \A p \in Panes : pane[p] # "none" =>
         /\ pane'[p] # "none" /\ Len(script[p]) <= Len(script'[p])
         /\ \A i \in 1..Len(script[p]) : script'[p][i] = script[p][i]
    /\ \A p \in Panes : bundle[p] # None => bundle'[p] # None /\ bundle[p] <= bundle'[p]

LEMMA KeepsReaderInv ==
  ASSUME DeskInv, DeskInv', ReaderInv, Keeps, UNCHANGED reader
  PROVE  ReaderInv'
<1>1. ASSUME NEW p \in Panes, NEW id, InBundle(p, id) PROVE InBundle(p, id)'
  <2>1. PICK i \in 1..bundle[p] : script[p][i].id = id
    BY <1>1 DEF InBundle
  <2>2. /\ bundle[p] # None /\ bundle[p] \in Nat /\ bundle'[p] \in Nat /\ bundle'[p] # None
        /\ bundle[p] <= bundle'[p] /\ pane[p] # "none" /\ bundle[p] <= Len(script[p])
    BY <1>1, FeedAssumption DEF InBundle, DeskInv, DeskType, Keeps
  <2>3. Len(script[p]) \in Nat
    BY DEF DeskInv, DeskType
  <2>4. i \in 1..Len(script[p]) /\ i \in 1..bundle'[p]
    BY <2>1, <2>2, <2>3
  <2>5. script'[p][i] = script[p][i]
    BY <2>2, <2>4 DEF Keeps
  <2> QED  BY <2>1, <2>2, <2>4, <2>5 DEF InBundle
<1>2. ASSUME NEW p \in Panes, NEW id, InScript(p, id) PROVE InScript(p, id)'
  <2>1. PICK i \in 1..Len(script[p]) : script[p][i].id = id
    BY <1>2 DEF InScript
  <2>2. pane[p] # "none" /\ pane'[p] # "none" /\ Len(script[p]) <= Len(script'[p])
        /\ script'[p][i] = script[p][i]
    BY <1>2 DEF InScript, Keeps
  <2>3. Len(script[p]) \in Nat /\ Len(script'[p]) \in Nat
    BY DEF DeskInv, DeskType
  <2>4. i \in 1..Len(script'[p])
    BY <2>2, <2>3
  <2> QED  BY <2>1, <2>2, <2>4 DEF InScript
<1>3. \A turn : Attributed(turn) => Attributed(turn)'
  BY DEF Attributed, Keeps
<1>4. \A id : SeenTurn(id)' = SeenTurn(id)
  BY DEF SeenTurn
<1>5. reader' \in ReaderType' /\ reader' = reader /\ reader \in ReaderType
  BY DEF ReaderInv, ReaderType
<1>6. reader.alive \subseteq Panes /\ \A p \in reader.alive : pane'[p] # "none"
  BY <1>5 DEF ReaderInv, ReaderType, Keeps
<1>7. reader.pc = "list" => \A id \in reader.had : \/ \E p \in Panes : InBundle(p, id)'
                                                   \/ \E p \in reader.alive : InScript(p, id)'
  BY <1>1, <1>2, <1>6 DEF ReaderInv
<1>8. reader.pc = "read" => \A id \in reader.had :
         \/ SeenTurn(id)
         \/ \E p \in Panes : <<"bundle", p>> \in reader.todo /\ InBundle(p, id)'
         \/ \E p \in Panes : <<"live", p>> \in reader.todo /\ InScript(p, id)'
  BY <1>1, <1>2 DEF ReaderInv
<1>9. \A p \in Panes : <<"bundle", p>> \in reader.todo => bundle'[p] # None
  BY DEF ReaderInv, Keeps
<1> QED  BY <1>3, <1>4, <1>5, <1>6, <1>7, <1>8, <1>9 DEF ReaderInv

\* Who types to whom, when letter changes at m alone.
LEMMA TypingMoves ==
  ASSUME NEW m \in Letters, \A n \in Letters \ {m} : letter'[n] = letter[n], NEW p
  PROVE  /\ letter'[m].pc = "typed" /\ letter'[m].to = p => Typing(p)' = Typing(p) \cup {m}
         /\ ~(letter'[m].pc = "typed" /\ letter'[m].to = p) => Typing(p)' = Typing(p) \ {m}
<1>1. ASSUME NEW n \in Letters, n # m PROVE n \in Typing(p)' <=> n \in Typing(p)
  BY <1>1 DEF Typing
<1>2. m \in Typing(p)' <=> letter'[m].pc = "typed" /\ letter'[m].to = p
  BY DEF Typing
<1>3. Typing(p) \subseteq Letters /\ Typing(p)' \subseteq Letters
  BY DEF Typing
<1> QED  BY <1>1, <1>2, <1>3

LEMMA TypeLetterDesk ==
  ASSUME OneTypist, DeskInv, NEW m \in Letters, NEW p \in Panes, TypeLetter(m, p)
  PROVE  DeskInv' /\ Keeps
<1>1. /\ DeskType /\ letter[m].pc = "new" /\ pane[p] = "live" /\ Typing(p) = {}
      /\ letter' = [letter EXCEPT ![m].pc = "typed", ![m].to = p]
      /\ box' = [box EXCEPT ![p] = Append(@, m)]
      /\ UNCHANGED <<pane, script, bundle>>
  BY DEF TypeLetter, DeskInv
<1>2. /\ letter' \in [Letters -> LetterType] /\ letter'[m].pc = "typed" /\ letter'[m].to = p
      /\ letter'[m].by = letter[m].by /\ \A n \in Letters \ {m} : letter'[n] = letter[n]
  BY <1>1 DEF DeskType, LetterType
<1>3. box[p] = <<>>
  <2>1. ~\E n \in Letters : Typing(p) = {n} /\ box[p] = <<n>>
    BY <1>1
  <2> QED  BY <1>1, <2>1 DEF DeskInv, BoxFits
<1>4. Append(<<>>, m) = <<m>> /\ <<m>> \in Seq(Letters)
  OBVIOUS
<1>5. box' \in [Panes -> Seq(Letters)] /\ box'[p] = <<m>> /\ \A q \in Panes \ {p} : box'[q] = box[q]
  BY <1>1, <1>3, <1>4 DEF DeskType
<1>6. Typing(p)' = {m} /\ \A q \in Panes \ {p} : Typing(q)' = Typing(q)
  <2>1. Typing(p)' = Typing(p) \cup {m}
    BY <1>2, TypingMoves
  <2>2. ASSUME NEW q \in Panes, q # p PROVE Typing(q)' = Typing(q)
    <3>1. m \notin Typing(q)
      BY <1>1 DEF Typing
    <3>2. Typing(q)' = Typing(q) \ {m}
      BY <1>2, <2>2, TypingMoves
    <3> QED  BY <3>1, <3>2
  <2> QED  BY <1>1, <2>1, <2>2
<1>7. ASSUME NEW q \in Panes PROVE BoxFits(q)'
  <2>1. CASE q = p
    BY <1>1, <1>5, <1>6, <2>1 DEF BoxFits
  <2>2. CASE q # p
    BY <1>1, <1>5, <1>6, <2>2 DEF BoxFits, DeskInv
  <2> QED  BY <2>1, <2>2
<1>8. ASSUME NEW q \in Panes PROVE TurnsFit(q)' /\ (pane[q] = "none" => Typing(q)' = {})
  <2>1. TurnsFit(q)
    BY DEF DeskInv
  <2>2. ASSUME NEW i \in 1..Len(script[q]) PROVE letter'[script[q][i].id].pc = "sent"
    <3>1. script[q][i] \in Turn /\ letter[script[q][i].id].pc = "sent"
      BY <1>1, <2>1 DEF DeskType, TurnsFit
    <3> QED  BY <1>1, <1>2, <3>1 DEF Turn
  <2>3. TurnsFit(q)'
    BY <1>1, <2>1, <2>2 DEF TurnsFit
  <2> QED  BY <1>1, <1>6, <2>3 DEF DeskInv
<1>9. DeskType'
  BY <1>1, <1>2, <1>5 DEF DeskType
<1>10. Keeps
  BY <1>1, <1>2 DEF Keeps, DeskType
<1> QED  BY <1>1, <1>7, <1>8, <1>9, <1>10 DEF DeskInv

LEMMA EnterLetterDesk ==
  ASSUME DeskInv, NEW m \in Letters, EnterLetter(m)
  PROVE  DeskInv' /\ Keeps
<1>p. PICK p \in Panes : p = letter[m].to
  BY DEF EnterLetter, DeskInv, DeskType
<1> DEFINE turn == [id |-> m, text |-> <<m>>]
<1>1. /\ DeskType /\ letter[m].pc = "typed" /\ pane[p] = "live"
      /\ letter' = [letter EXCEPT ![m].pc = "sent"]
      /\ script' = IF box[p] = <<>> THEN script
                   ELSE [script EXCEPT ![p] = Append(@, [id |-> Head(box[p]), text |-> box[p]])]
      /\ box' = [box EXCEPT ![p] = <<>>]
      /\ UNCHANGED <<pane, bundle>>
  BY <1>p DEF EnterLetter, DeskInv
<1>2. /\ letter' \in [Letters -> LetterType] /\ letter'[m].pc = "sent" /\ letter'[m].to = p
      /\ letter'[m].by = letter[m].by /\ \A n \in Letters \ {m} : letter'[n] = letter[n]
  BY <1>1, <1>p DEF DeskType, LetterType
<1>3. Typing(p) = {m} /\ box[p] = <<m>>
  <2>1. m \in Typing(p)
    BY <1>1, <1>p DEF Typing
  <2>2. BoxFits(p)
    BY <1>p DEF DeskInv
  <2> QED  BY <1>1, <2>1, <2>2 DEF BoxFits
<1>4. turn \in Turn /\ turn.id = m /\ turn.text = <<m>> /\ Head(<<m>>) = m /\ <<m>> # <<>>
  BY DEF Turn
<1>5. script' = [script EXCEPT ![p] = Append(@, turn)]
  BY <1>1, <1>3, <1>4
<1> HIDE DEF turn
<1>6. /\ script' \in [Panes -> Seq(Turn)] /\ Len(script'[p]) = Len(script[p]) + 1 /\ Len(script[p]) \in Nat
      /\ \A i \in 1..Len(script[p]) : script'[p][i] = script[p][i]
      /\ script'[p][Len(script[p]) + 1] = turn
      /\ \A q \in Panes \ {p} : script'[q] = script[q]
  <2>1. script[p] \in Seq(Turn) /\ Len(script[p]) \in Nat
    BY <1>1, <1>p DEF DeskType
  <2>2. script'[p] = Append(script[p], turn) /\ \A q \in Panes \ {p} : script'[q] = script[q]
    BY <1>1, <1>5, <1>p DEF DeskType
  <2>3. script' \in [Panes -> Seq(Turn)]
    BY <1>1, <1>4, <1>5, <1>p, <2>1, AppendProperties DEF DeskType
  <2> QED  BY <1>4, <2>1, <2>2, <2>3, AppendProperties
<1>7. box' \in [Panes -> Seq(Letters)] /\ box'[p] = <<>> /\ \A q \in Panes \ {p} : box'[q] = box[q]
  BY <1>1, <1>p DEF DeskType
<1>8. Typing(p)' = {} /\ \A q \in Panes \ {p} : Typing(q)' = Typing(q)
  <2>1. ASSUME NEW q PROVE Typing(q)' = Typing(q) \ {m}
    BY <1>2, TypingMoves
  <2>2. \A q \in Panes \ {p} : m \notin Typing(q)
    BY <1>p DEF Typing
  <2> QED  BY <1>3, <2>1, <2>2
<1>9. ASSUME NEW q \in Panes PROVE BoxFits(q)' /\ (pane[q] = "none" => Typing(q)' = {})
  <2>1. CASE q = p
    BY <1>1, <1>7, <1>8, <2>1 DEF BoxFits
  <2>2. CASE q # p
    BY <1>1, <1>7, <1>8, <2>2 DEF BoxFits, DeskInv
  <2> QED  BY <2>1, <2>2
<1>10. ASSUME NEW q \in Panes, NEW i \in 1..Len(script[q])
       PROVE  script[q][i].id \in Letters \ {m} /\ letter'[script[q][i].id].pc = "sent"
              /\ script[q][i].text = <<script[q][i].id>>
  <2>1. script[q][i] \in Turn /\ letter[script[q][i].id].pc = "sent" /\ script[q][i].text = <<script[q][i].id>>
    BY <1>1 DEF DeskType, TurnsFit, DeskInv
  <2> QED  BY <1>1, <1>2, <2>1 DEF Turn
<1>11. ASSUME NEW q \in Panes PROVE TurnsFit(q)'
  <2>1. TurnsFit(q)
    BY DEF DeskInv
  <2>2. CASE q # p
    BY <1>6, <1>10, <2>1, <2>2 DEF TurnsFit
  <2>3. CASE q = p
    <3> DEFINE n == Len(script[p])
    <3>1. \A i \in 1..n + 1 : i \in 1..n \/ i = n + 1
      BY <1>6
    <3>2. \A i \in 1..n + 1 : script'[p][i].text = <<script'[p][i].id>> /\ letter'[script'[p][i].id].pc = "sent"
      <4>1. \A i \in 1..n : script'[p][i] = script[p][i]
        BY <1>6
      <4>2. \A i \in 1..n : script[p][i].text = <<script[p][i].id>> /\ letter'[script[p][i].id].pc = "sent"
        BY <1>10, <2>3
      <4>3. /\ script'[p][n + 1].text = <<script'[p][n + 1].id>>
            /\ letter'[script'[p][n + 1].id].pc = "sent"
        BY <1>2, <1>4, <1>6
      <4> QED  BY <3>1, <4>1, <4>2, <4>3
    <3>3. \A i, j \in 1..n + 1 : script'[p][i].id = script'[p][j].id => i = j
      <4>1. \A i \in 1..n : script'[p][i].id # m /\ script'[p][i].id = script[p][i].id
        BY <1>6, <1>10, <2>3
      <4>2. script'[p][n + 1].id = m
        BY <1>4, <1>6
      <4>3. \A i, j \in 1..n : script[p][i].id = script[p][j].id => i = j
        BY <2>1, <2>3 DEF TurnsFit
      <4> QED  BY <3>1, <4>1, <4>2, <4>3
    <3> QED  BY <1>6, <2>3, <3>2, <3>3 DEF TurnsFit
  <2> QED  BY <2>2, <2>3
<1>12. \A q \in Panes : Len(script[q]) \in Nat /\ Len(script[q]) <= Len(script'[q])
                        /\ \A i \in 1..Len(script[q]) : script'[q][i] = script[q][i]
  <2>1. \A q \in Panes : Len(script[q]) \in Nat
    BY <1>1 DEF DeskType
  <2> QED  BY <1>6, <2>1
<1>13. DeskType'
  BY <1>1, <1>2, <1>6, <1>7 DEF DeskType
<1>14. ASSUME NEW q \in Panes, bundle[q] # None
       PROVE  pane[q] # "none" /\ bundle[q] <= Len(script'[q]) /\ bundle[q] \in Nat
  <2>1. bundle[q] \in Nat /\ bundle[q] <= Len(script[q]) /\ pane[q] # "none"
    BY <1>1, <1>14 DEF DeskType, DeskInv
  <2>2. Len(script'[q]) \in Nat
    BY <1>13 DEF DeskType
  <2> QED  BY <1>12, <2>1, <2>2
<1>15. Keeps
  BY <1>1, <1>2, <1>12, <1>14 DEF Keeps
<1> QED  BY <1>1, <1>9, <1>11, <1>13, <1>14, <1>15 DEF DeskInv

LEMMA LoseLetterDesk ==
  ASSUME DeskInv, NEW m \in Letters, LoseLetter(m)
  PROVE  DeskInv' /\ Keeps
<1>1. /\ DeskType /\ letter[m].pc = "typed" /\ pane[letter[m].to] # "live"
      /\ letter' = [letter EXCEPT ![m].pc = "lost"]
      /\ UNCHANGED <<box, pane, script, bundle>>
  BY DEF LoseLetter, DeskInv
<1>2. /\ letter' \in [Letters -> LetterType] /\ letter'[m].pc = "lost" /\ letter'[m].to = letter[m].to
      /\ letter'[m].by = letter[m].by /\ \A n \in Letters \ {m} : letter'[n] = letter[n]
  BY <1>1 DEF DeskType, LetterType
<1>3. ASSUME NEW q \in Panes PROVE Typing(q)' \subseteq Typing(q) /\ (pane[q] = "live" => Typing(q)' = Typing(q))
  <2>1. Typing(q)' = Typing(q) \ {m}
    BY <1>2, TypingMoves
  <2>2. pane[q] = "live" => m \notin Typing(q)
    BY <1>1 DEF Typing
  <2> QED  BY <2>1, <2>2
<1>4. ASSUME NEW q \in Panes PROVE BoxFits(q)' /\ (pane[q] = "none" => Typing(q)' = {})
  BY <1>1, <1>3 DEF BoxFits, DeskInv
<1>5. ASSUME NEW q \in Panes PROVE TurnsFit(q)'
  <2>1. TurnsFit(q)
    BY DEF DeskInv
  <2>2. ASSUME NEW i \in 1..Len(script[q]) PROVE letter'[script[q][i].id].pc = "sent"
    <3>1. script[q][i] \in Turn /\ letter[script[q][i].id].pc = "sent"
      BY <1>1, <2>1 DEF DeskType, TurnsFit
    <3> QED  BY <1>1, <1>2, <3>1 DEF Turn
  <2> QED  BY <1>1, <2>1, <2>2 DEF TurnsFit
<1>6. DeskType'
  BY <1>1, <1>2 DEF DeskType
<1>7. Keeps
  BY <1>1, <1>2 DEF Keeps, DeskType, DeskInv
<1> QED  BY <1>1, <1>4, <1>5, <1>6, <1>7 DEF DeskInv

LEMMA PaneDesk ==
  ASSUME DeskInv, NEW p \in Panes,
         EndPane(p) \/ RemovePane(p) \/ Mirror(p) \/ \E q \in Panes : CopyChat(p, q)
  PROVE  DeskInv' /\ Keeps
<1>1. DeskType /\ UNCHANGED letter /\ \A q : Typing(q)' = Typing(q)
  BY DEF EndPane, RemovePane, Mirror, CopyChat, DeskInv, Typing
<1>2. \A q \in Panes : script[q] \in Seq(Turn) /\ Len(script[q]) \in Nat
  BY <1>1 DEF DeskType
<1>3. ASSUME EndPane(p) \/ RemovePane(p) PROVE DeskInv' /\ Keeps
  <2>1. /\ UNCHANGED <<script, bundle>> /\ pane[p] # "none" /\ pane'[p] # "live" /\ pane'[p] # "none"
        /\ pane' \in [Panes -> {"none", "live", "ended", "gone"}] /\ \A q \in Panes \ {p} : pane'[q] = pane[q]
    BY <1>1, <1>3 DEF EndPane, RemovePane, DeskType
  <2>2. box' \in [Panes -> Seq(Letters)] /\ box'[p] = <<>> /\ \A q \in Panes \ {p} : box'[q] = box[q]
    <3>1. CASE EndPane(p)
      BY <1>1, <3>1 DEF EndPane, DeskType
    <3>2. CASE RemovePane(p)
      BY <1>1, <3>2 DEF RemovePane, DeskType, DeskInv, BoxFits
    <3> QED  BY <1>3, <3>1, <3>2
  <2>3. ASSUME NEW q \in Panes PROVE BoxFits(q)' /\ TurnsFit(q)'
    <3>1. TurnsFit(q)'
      BY <1>1, <2>1 DEF TurnsFit, DeskInv
    <3>2. CASE q = p
      BY <2>1, <2>2, <3>1, <3>2 DEF BoxFits
    <3>3. CASE q # p
      BY <1>1, <2>1, <2>2, <3>1, <3>3 DEF BoxFits, DeskInv
    <3> QED  BY <3>2, <3>3
  <2>4. DeskType'
    BY <1>1, <2>1, <2>2 DEF DeskType
  <2>5. Keeps
    BY <1>1, <1>2, <2>1 DEF Keeps, DeskType
  <2>6. ASSUME NEW q \in Panes
        PROVE  /\ bundle[q] # None => pane'[q] # "none" /\ bundle[q] <= Len(script[q])
               /\ pane'[q] = "none" => Typing(q) = {}
    BY <2>1 DEF DeskInv
  <2> QED  BY <1>1, <2>1, <2>3, <2>4, <2>5, <2>6 DEF DeskInv
<1>4. ASSUME Mirror(p) PROVE DeskInv' /\ Keeps
  <2>1. /\ UNCHANGED <<box, script, pane>> /\ pane[p] # "none"
        /\ bundle' \in [Panes -> Nat \cup {None}] /\ bundle'[p] = Len(script[p])
        /\ \A q \in Panes \ {p} : bundle'[q] = bundle[q]
    BY <1>1, <1>2, <1>4 DEF Mirror, DeskType
  <2>2. ASSUME NEW q \in Panes
        PROVE  /\ bundle'[q] # None => pane[q] # "none" /\ bundle'[q] <= Len(script[q])
               /\ bundle[q] # None => bundle'[q] # None /\ bundle[q] <= bundle'[q]
    <3>1. bundle[q] # None => bundle[q] \in Nat /\ bundle[q] <= Len(script[q]) /\ pane[q] # "none"
      BY <1>1 DEF DeskType, DeskInv
    <3>2. CASE q = p
      BY <1>2, <2>1, <3>1, <3>2, FeedAssumption
    <3>3. CASE q # p
      BY <2>1, <3>1, <3>3
    <3> QED  BY <3>2, <3>3
  <2>3. ASSUME NEW q \in Panes PROVE BoxFits(q)' /\ TurnsFit(q)' /\ (pane[q] = "none" => Typing(q) = {})
    BY <1>1, <2>1 DEF BoxFits, TurnsFit, DeskInv
  <2>4. DeskType'
    BY <1>1, <2>1 DEF DeskType
  <2>5. Keeps
    BY <1>1, <1>2, <2>1, <2>2 DEF Keeps
  <2> QED  BY <1>1, <2>1, <2>2, <2>3, <2>4, <2>5 DEF DeskInv
<1>5. ASSUME NEW q \in Panes, CopyChat(p, q) PROVE DeskInv' /\ Keeps
  <2>1. /\ UNCHANGED <<box, bundle>> /\ pane[q] = "none" /\ pane'[q] = "live" /\ pane[p] # "none"
        /\ pane' \in [Panes -> {"none", "live", "ended", "gone"}] /\ \A r \in Panes \ {q} : pane'[r] = pane[r]
        /\ script' \in [Panes -> Seq(Turn)] /\ script'[q] = script[p]
        /\ \A r \in Panes \ {q} : script'[r] = script[r]
    BY <1>1, <1>2, <1>5 DEF CopyChat, DeskType
  <2>2. box[q] = <<>> /\ Typing(q) = {} /\ bundle[q] = None
    BY <2>1 DEF DeskInv, BoxFits
  <2>3. ASSUME NEW r \in Panes PROVE BoxFits(r)' /\ TurnsFit(r)'
    <3>1. TurnsFit(p) /\ TurnsFit(r) /\ BoxFits(r)
      BY DEF DeskInv
    <3>2. CASE r = q
      BY <1>1, <2>1, <2>2, <3>1, <3>2 DEF BoxFits, TurnsFit
    <3>3. CASE r # q
      BY <1>1, <2>1, <3>1, <3>3 DEF BoxFits, TurnsFit
    <3> QED  BY <3>2, <3>3
  <2>4. ASSUME NEW r \in Panes
        PROVE  /\ bundle[r] # None => pane'[r] # "none" /\ bundle[r] <= Len(script'[r])
               /\ pane'[r] = "none" => Typing(r) = {}
    BY <2>1, <2>2 DEF DeskInv
  <2>5. DeskType'
    BY <1>1, <2>1 DEF DeskType
  <2>6. Keeps
    <3>1. \A r \in Panes : bundle[r] # None => bundle[r] \in Nat
      BY <1>1 DEF DeskType
    <3> QED  BY <1>1, <1>2, <2>1, <3>1 DEF Keeps
  <2> QED  BY <1>1, <2>1, <2>3, <2>4, <2>5, <2>6 DEF DeskInv
<1> QED  BY <1>3, <1>4, <1>5

----------------------------------------------------------------------------
(* The reader.                                                              *)

Source(kind, p) == IF kind = "bundle" THEN Mirrored(p) ELSE script[p]

LEMMA SourceIs ==
  ASSUME DeskInv, NEW p \in Panes
  PROVE  /\ \A i \in DOMAIN script[p] : script[p][i] \in Turn /\ i \in 1..Len(script[p])
         /\ bundle[p] # None =>
              /\ bundle[p] \in Nat /\ DOMAIN Mirrored(p) = 1..bundle[p]
              /\ \A i \in DOMAIN Mirrored(p) : i \in 1..Len(script[p]) /\ Mirrored(p)[i] = script[p][i]
<1>1. script[p] \in Seq(Turn) /\ Len(script[p]) \in Nat /\ DOMAIN script[p] = 1..Len(script[p])
  BY DEF DeskInv, DeskType
<1>2. ASSUME bundle[p] # None
      PROVE  /\ bundle[p] \in Nat /\ DOMAIN Mirrored(p) = 1..bundle[p]
             /\ \A i \in DOMAIN Mirrored(p) : i \in 1..Len(script[p]) /\ Mirrored(p)[i] = script[p][i]
  <2>1. bundle[p] \in Nat /\ bundle[p] <= Len(script[p])
    BY <1>2 DEF DeskInv, DeskType
  <2>2. \A i \in 1..bundle[p] : i \in 1..Len(script[p]) /\ script[p][i] \in Turn
    BY <1>1, <2>1
  <2>3. /\ Mirrored(p) \in Seq(Turn) /\ Len(Mirrored(p)) = (IF 1 <= bundle[p] THEN bundle[p] - 1 + 1 ELSE 0)
        /\ \A i \in 1..(bundle[p] - 1 + 1) : Mirrored(p)[i] = script[p][1 + i - 1]
    BY <2>1, <2>2, SubSeqProperties DEF Mirrored
  <2>4. Len(Mirrored(p)) = bundle[p]
    BY <2>1, <2>3
  <2>5. DOMAIN Mirrored(p) = 1..bundle[p]
    BY <2>3, <2>4
  <2>6. \A i \in 1..bundle[p] : Mirrored(p)[i] = script[p][i]
    <3>1. \A i \in 1..bundle[p] : i \in 1..(bundle[p] - 1 + 1) /\ 1 + i - 1 = i
      BY <2>1
    <3> QED  BY <2>3, <3>1
  <2> QED  BY <2>1, <2>2, <2>5, <2>6
<1> QED  BY <1>1, <1>2

LEMMA InScopeIs ==
  ASSUME DeskInv, NEW id \in InScope
  PROVE  /\ id \in Letters
         /\ \/ \E p \in Panes : InBundle(p, id)
            \/ \E p \in LivePanes : InScript(p, id)
<1>1. \/ \E p \in Bundles : id \in TurnIds(Mirrored(p))
      \/ \E p \in LivePanes : id \in TurnIds(script[p])
  BY DEF InScope
<1>2. ASSUME NEW p \in Bundles, id \in TurnIds(Mirrored(p)) PROVE id \in Letters /\ InBundle(p, id) /\ p \in Panes
  <2>1. p \in Panes /\ bundle[p] # None
    BY DEF Bundles
  <2>2. PICK i \in DOMAIN Mirrored(p) : Mirrored(p)[i].id = id
    BY <1>2 DEF TurnIds
  <2>3. i \in 1..bundle[p] /\ i \in DOMAIN script[p] /\ script[p][i].id = id /\ script[p][i] \in Turn
    BY <2>1, <2>2, SourceIs DEF DeskInv, DeskType
  <2> QED  BY <2>1, <2>3 DEF InBundle, Turn
<1>3. ASSUME NEW p \in LivePanes, id \in TurnIds(script[p]) PROVE id \in Letters /\ InScript(p, id)
  <2>1. p \in Panes /\ pane[p] # "none"
    BY DEF LivePanes
  <2>2. PICK i \in DOMAIN script[p] : script[p][i].id = id
    BY <1>3 DEF TurnIds
  <2>3. i \in 1..Len(script[p]) /\ script[p][i] \in Turn
    BY <2>1, <2>2, SourceIs
  <2> QED  BY <2>1, <2>2, <2>3 DEF InScript, Turn
<1> QED  BY <1>1, <1>2, <1>3

\* The desk does not change while the reader reads.
LEMMA StillDesk ==
  ASSUME DeskInv, UNCHANGED <<letter, box, pane, script, bundle>>
  PROVE  /\ DeskInv' /\ \A turn : Attributed(turn)' = Attributed(turn)
         /\ \A p, id : InBundle(p, id)' = InBundle(p, id) /\ InScript(p, id)' = InScript(p, id)
<1>1. \A p : Typing(p)' = Typing(p)
  BY DEF Typing
<1> QED  BY <1>1 DEF DeskInv, DeskType, BoxFits, TurnsFit, Attributed, InBundle, InScript

LEMMA ReaderMoves ==
  ASSUME DeskInv, UNCHANGED <<letter, box, pane, script, bundle>>, reader' \in ReaderType',
         \A p \in reader'.alive : pane[p] # "none",
         \A p \in Panes : <<"bundle", p>> \in reader'.todo => bundle[p] # None,
         \A turn \in reader'.out : Attributed(turn),
         \A turn, other \in reader'.out : turn.id = other.id => turn = other,
         reader'.pc = "list" => \A id \in reader'.had : \/ \E p \in Panes : InBundle(p, id)
                                                       \/ \E p \in reader'.alive : InScript(p, id),
         reader'.pc = "read" => \A id \in reader'.had :
           \/ SeenTurn(id)'
           \/ \E p \in Panes : <<"bundle", p>> \in reader'.todo /\ InBundle(p, id)
           \/ \E p \in Panes : <<"live", p>> \in reader'.todo /\ InScript(p, id)
  PROVE  ReaderInv'
<1>1. /\ \A turn : Attributed(turn)' = Attributed(turn)
      /\ \A p, id : InBundle(p, id)' = InBundle(p, id) /\ InScript(p, id)' = InScript(p, id)
  BY StillDesk
<1> QED  BY <1>1 DEF ReaderInv

LEMMA ReadStoreReader == DeskInv /\ ReaderInv /\ ReadStore => ReaderInv'
<1> SUFFICES ASSUME DeskInv, ReaderInv, ReadStore PROVE ReaderInv'
  OBVIOUS
<1> DEFINE x == [Idle0 EXCEPT !.pc = "list", !.alive = LivePanes, !.had = InScope]
<1>1. reader' = x /\ UNCHANGED <<letter, box, pane, script, bundle>>
  BY DEF ReadStore
<1>2. /\ DOMAIN x = {"pc", "alive", "todo", "had", "out"}
      /\ x.pc = "list" /\ x.alive = LivePanes /\ x.todo = {} /\ x.had = InScope /\ x.out = {}
  BY DEF Idle0
<1>3. LivePanes \subseteq Panes /\ \A p \in LivePanes : pane[p] # "none"
  BY DEF LivePanes
<1>4. InScope \subseteq Letters
  BY InScopeIs
<1>5. x \in [pc : {"list"}, alive : SUBSET Panes, todo : {{}}, had : SUBSET Letters, out : {{}}]
  BY <1>3, <1>4 DEF Idle0
<1> HIDE DEF x
<1>6. reader' \in ReaderType'
  BY <1>1, <1>2, <1>5 DEF ReaderType
<1>7. \A id \in x.had : (\E p \in Panes : InBundle(p, id)) \/ \E p \in x.alive : InScript(p, id)
  BY <1>2, InScopeIs
<1> QED  BY <1>1, <1>2, <1>3, <1>6, <1>7, ReaderMoves

LEMMA ListSourcesReader == DeskInv /\ ReaderInv /\ ListSources => ReaderInv'
<1> SUFFICES ASSUME DeskInv, ReaderInv, ListSources PROVE ReaderInv'
  OBVIOUS
<1> DEFINE todo == ({"bundle"} \X Bundles) \cup ({"live"} \X reader.alive)
           x == [reader EXCEPT !.pc = "read", !.todo = todo]
<1>1. reader' = x /\ reader.pc = "list" /\ reader \in ReaderType /\ UNCHANGED <<letter, box, pane, script, bundle>>
  BY DEF ListSources, ReaderInv
<1>2. todo \in SUBSET ({"bundle", "live"} \X Panes)
  BY <1>1 DEF ReaderType, Bundles
<1>3. /\ \A p \in Panes : p \in Bundles => <<"bundle", p>> \in todo
      /\ \A p \in reader.alive : p \in Panes /\ <<"live", p>> \in todo
  BY <1>1 DEF ReaderType
<1> HIDE DEF todo
<1>4. x \in ReaderType /\ x.pc = "read" /\ x.todo = todo /\ x.had = reader.had /\ x.out = reader.out
      /\ x.alive = reader.alive
  BY <1>1, <1>2 DEF ReaderType
<1> HIDE DEF x
<1>5. reader' \in ReaderType' /\ \A id : SeenTurn(id)' = SeenTurn(id)
  BY <1>1, <1>4 DEF ReaderType, SeenTurn
<1>6. ASSUME NEW id \in reader.had
      PROVE  \/ \E p \in Panes : <<"bundle", p>> \in todo /\ InBundle(p, id)
             \/ \E p \in Panes : <<"live", p>> \in todo /\ InScript(p, id)
  <2>1. \A p \in Panes : InBundle(p, id) => p \in Bundles
    BY DEF InBundle, Bundles
  <2> QED  BY <1>1, <1>3, <1>6, <2>1 DEF ReaderInv
<1>7. \A p \in Panes : <<"bundle", p>> \in todo => bundle[p] # None
  BY DEF todo, Bundles
<1> QED  BY <1>1, <1>4, <1>5, <1>6, <1>7, ReaderMoves DEF ReaderInv

\* What is read of a source, whole and once, with its senders.
LEMMA ReadIs ==
  ASSUME DeskInv, NEW kind \in {"bundle", "live"}, NEW p \in Panes, kind = "bundle" => bundle[p] # None
  PROVE  /\ \A turn \in Read(kind, p) : Attributed(turn) /\ ~SeenTurn(turn.id)
         /\ \A turn, other \in Read(kind, p) : turn.id = other.id => turn = other
         /\ \A id : (IF kind = "bundle" THEN InBundle(p, id) ELSE InScript(p, id)) =>
              SeenTurn(id) \/ \E turn \in Read(kind, p) : turn.id = id
<1> DEFINE turns == IF kind = "bundle" THEN Mirrored(p) ELSE script[p]
           of(i) == [id |-> turns[i].id, at |-> <<kind, p, i>>, is |-> Classify(turns[i].text)]
<1>1. Read(kind, p) = {of(i) : i \in {j \in DOMAIN turns : ~SeenTurn(turns[j].id)}}
  BY DEF Read
<1>2. /\ \A i \in DOMAIN turns : i \in 1..Len(script[p]) /\ turns[i] = script[p][i] /\ script[p][i] \in Turn
      /\ \A id : (IF kind = "bundle" THEN InBundle(p, id) ELSE InScript(p, id)) =>
           \E i \in DOMAIN turns : turns[i].id = id
  <2>1. /\ script[p] \in Seq(Turn) /\ DOMAIN script[p] = 1..Len(script[p])
        /\ \A i \in 1..Len(script[p]) : script[p][i] \in Turn
    BY DEF DeskInv, DeskType
  <2>2. CASE kind = "bundle"
    <3>1. DOMAIN turns = 1..bundle[p] /\ \A i \in DOMAIN turns : i \in 1..Len(script[p]) /\ turns[i] = script[p][i]
      BY <2>2, SourceIs
    <3> HIDE DEF turns
    <3> QED  BY <2>1, <2>2, <3>1 DEF InBundle
  <2>3. CASE kind = "live"
    <3>1. turns = script[p]
      BY <2>3
    <3> HIDE DEF turns
    <3> QED  BY <2>1, <2>3, <3>1 DEF InScript
  <2> QED  BY <2>2, <2>3
<1> HIDE DEF turns
<1>3. ASSUME NEW i \in DOMAIN turns PROVE Attributed(of(i)) /\ of(i).id = turns[i].id
  <2>1. turns[i] \in Turn /\ turns[i].text = <<turns[i].id>> /\ turns[i].id \in Letters
    BY <1>2 DEF DeskInv, TurnsFit, Turn
  <2>2. PICK m \in Letters : m = turns[i].id
    BY <2>1
  <2>3. Head(<<m>>) = m /\ Last(<<m>>) = m
    BY DEF Last
  <2>4. Classify(turns[i].text) =
          IF letter[m].by # "typed" THEN [by |-> letter[m].by, from |-> m] ELSE [by |-> "typed", from |-> None]
    BY <2>1, <2>2, <2>3 DEF Classify
  <2>5. of(i).id = m /\ of(i).is = Classify(turns[i].text)
    BY <2>2
  <2> HIDE DEF of
  <2>6. of(i).is.by = letter[m].by /\ (of(i).is.by # "typed" => of(i).is.from = m)
    BY <2>4, <2>5
  <2> QED  BY <2>2, <2>5, <2>6 DEF Attributed
<1>4. \A i, j \in DOMAIN turns : turns[i].id = turns[j].id => i = j
  BY <1>2 DEF DeskInv, TurnsFit
<1> HIDE DEF of
<1>5. \A turn \in Read(kind, p) : \E i \in DOMAIN turns : turn = of(i) /\ ~SeenTurn(turns[i].id)
  BY <1>1
<1>6. \A i \in DOMAIN turns : SeenTurn(turns[i].id) \/ of(i) \in Read(kind, p)
  BY <1>1
<1>7. \A turn \in Read(kind, p) : Attributed(turn) /\ ~SeenTurn(turn.id)
  BY <1>3, <1>5
<1>8. \A turn, other \in Read(kind, p) : turn.id = other.id => turn = other
  BY <1>3, <1>4, <1>5
<1>9. \A id : (IF kind = "bundle" THEN InBundle(p, id) ELSE InScript(p, id)) =>
              SeenTurn(id) \/ \E turn \in Read(kind, p) : turn.id = id
  BY <1>2, <1>3, <1>6
<1> QED  BY <1>7, <1>8, <1>9

LEMMA ReadSourceReader ==
  ASSUME DeskInv, ReaderInv, NEW kind \in {"bundle", "live"}, NEW p \in Panes, ReadSource(kind, p)
  PROVE  ReaderInv'
<1> DEFINE x == [reader EXCEPT !.todo = @ \ {<<kind, p>>}, !.out = @ \cup Read(kind, p)]
<1>1. /\ reader' = x /\ reader.pc = "read" /\ <<kind, p>> \in reader.todo /\ reader \in ReaderType
      /\ UNCHANGED <<letter, box, pane, script, bundle>>
  BY DEF ReadSource, ReaderInv
<1>2. /\ x.pc = "read" /\ x.todo = reader.todo \ {<<kind, p>>} /\ x.had = reader.had /\ x.alive = reader.alive
      /\ x.out = reader.out \cup Read(kind, p)
  <2>1. DOMAIN reader = {"pc", "alive", "todo", "had", "out"} /\ reader.pc = "read"
    BY <1>1 DEF ReaderType
  <2> QED  BY <2>1
<1>3. x \in [pc : {"read"}, alive : SUBSET Panes, todo : SUBSET ({"bundle", "live"} \X Panes),
             had : SUBSET Letters, out : {x.out}]
  <2>1. reader.todo \ {<<kind, p>>} \in SUBSET ({"bundle", "live"} \X Panes)
    BY <1>1 DEF ReaderType
  <2> QED  BY <1>1, <1>2, <2>1 DEF ReaderType
<1> HIDE DEF x
<1>4. reader' \in ReaderType'
  BY <1>1, <1>3 DEF ReaderType
<1>5. kind = "bundle" => bundle[p] # None
  BY <1>1 DEF ReaderInv
<1>6. \A id : SeenTurn(id)' <=> (SeenTurn(id) \/ \E turn \in Read(kind, p) : turn.id = id)
  BY <1>1, <1>2 DEF SeenTurn
<1>7. /\ \A turn \in x.out : Attributed(turn)
      /\ \A turn, other \in x.out : turn.id = other.id => turn = other
  <2>1. \A turn \in reader.out : SeenTurn(turn.id)
    BY DEF SeenTurn
  <2> QED  BY <1>2, <1>5, <2>1, ReadIs DEF ReaderInv
<1>8. ASSUME NEW id \in reader.had
      PROVE  \/ SeenTurn(id)'
             \/ \E q \in Panes : <<"bundle", q>> \in x.todo /\ InBundle(q, id)
             \/ \E q \in Panes : <<"live", q>> \in x.todo /\ InScript(q, id)
  <2>1. CASE SeenTurn(id)
    BY <1>6, <2>1
  <2>2. ASSUME NEW q \in Panes, <<"bundle", q>> \in reader.todo, InBundle(q, id)
        PROVE  SeenTurn(id)' \/ <<"bundle", q>> \in x.todo
    <3>1. CASE <<"bundle", q>> = <<kind, p>>
      BY <1>5, <1>6, <2>2, <3>1, ReadIs
    <3>2. CASE <<"bundle", q>> # <<kind, p>>
      BY <1>2, <2>2, <3>2
    <3> QED  BY <3>1, <3>2
  <2>3. ASSUME NEW q \in Panes, <<"live", q>> \in reader.todo, InScript(q, id)
        PROVE  SeenTurn(id)' \/ <<"live", q>> \in x.todo
    <3>1. CASE <<"live", q>> = <<kind, p>>
      BY <1>5, <1>6, <2>3, <3>1, ReadIs
    <3>2. CASE <<"live", q>> # <<kind, p>>
      BY <1>2, <2>3, <3>2
    <3> QED  BY <3>1, <3>2
  <2> QED  BY <1>1, <1>8, <2>1, <2>2, <2>3 DEF ReaderInv
<1>9. \A q \in Panes : <<"bundle", q>> \in x.todo => bundle[q] # None
  BY <1>2 DEF ReaderInv
<1> QED  BY <1>1, <1>2, <1>4, <1>7, <1>8, <1>9, ReaderMoves DEF ReaderInv

LEMMA FeedReadReader == DeskInv /\ ReaderInv /\ FeedRead => ReaderInv'
<1> SUFFICES ASSUME DeskInv, ReaderInv, FeedRead PROVE ReaderInv'
  OBVIOUS
<1> DEFINE x == [reader EXCEPT !.pc = "idle", !.alive = {}, !.had = {}, !.out = {}]
<1>1. reader' = x /\ reader \in ReaderType /\ reader.todo = {} /\ UNCHANGED <<letter, box, pane, script, bundle>>
  BY DEF FeedRead, ReaderInv
<1>2. x.pc = "idle" /\ x.alive = {} /\ x.out = {} /\ x.todo = {}
  <2>1. DOMAIN reader = {"pc", "alive", "todo", "had", "out"}
    BY <1>1 DEF ReaderType
  <2> QED  BY <1>1, <2>1
<1>3. x \in [pc : {"idle"}, alive : {{}}, todo : {{}}, had : {{}}, out : {{}}]
  BY <1>1 DEF ReaderType
<1> HIDE DEF x
<1>4. reader' \in ReaderType'
  BY <1>1, <1>2, <1>3 DEF ReaderType
<1> QED  BY <1>1, <1>2, <1>4, ReaderMoves

----------------------------------------------------------------------------
LEMMA InitFeedInv == FeedInit => DeskInv /\ ReaderInv
<1> SUFFICES ASSUME FeedInit PROVE DeskInv /\ ReaderInv
  OBVIOUS
<1>1. /\ letter \in [Letters -> [pc: {"new"}, by: Channel, to: {None}]]
      /\ box = [p \in Panes |-> <<>>] /\ script = [p \in Panes |-> <<>>]
      /\ bundle = [p \in Panes |-> None] /\ reader = Idle0
      /\ pane \in [Panes -> {"none", "live"}]
  BY DEF FeedInit
<1>2. \A p : Typing(p) = {}
  BY <1>1 DEF Typing
<1>3. DeskType
  <2>1. <<>> \in Seq(Letters) /\ <<>> \in Seq(Turn)
    OBVIOUS
  <2>2. letter \in [Letters -> LetterType] /\ \A m \in Letters : letter[m].pc = "new"
    BY <1>1 DEF LetterType
  <2> QED  BY <1>1, <2>1, <2>2 DEF DeskType
<1>4. ASSUME NEW p \in Panes PROVE BoxFits(p) /\ TurnsFit(p)
  <2>1. box[p] = <<>> /\ script[p] = <<>> /\ Len(<<>>) = 0
    BY <1>1
  <2> QED  BY <1>2, <2>1 DEF BoxFits, TurnsFit
<1>5. DeskInv
  BY <1>1, <1>2, <1>3, <1>4 DEF DeskInv
<1>6. ReaderInv
  BY <1>1 DEF ReaderInv, ReaderType, Idle0
<1> QED  BY <1>5, <1>6

LEMMA StepFeedInv ==
  OneTypist => (DeskInv /\ ReaderInv /\ [FeedNext]_feedVars => DeskInv' /\ ReaderInv')
<1> SUFFICES ASSUME OneTypist, DeskInv, ReaderInv, [FeedNext]_feedVars PROVE DeskInv' /\ ReaderInv'
  OBVIOUS
<1>1. CASE UNCHANGED feedVars
  <2>1. UNCHANGED <<letter, box, pane, script, bundle>> /\ reader' = reader
    BY <1>1 DEF feedVars
  <2>2. reader' \in ReaderType' /\ \A id : SeenTurn(id)' = SeenTurn(id)
    BY <2>1 DEF ReaderInv, ReaderType, SeenTurn
  <2> QED  BY <2>1, <2>2, StillDesk, ReaderMoves DEF ReaderInv
<1>2. ASSUME NEW m \in Letters, EnterLetter(m) \/ LoseLetter(m) \/ \E p \in Panes : TypeLetter(m, p)
      PROVE  DeskInv' /\ ReaderInv'
  <2>1. UNCHANGED reader
    BY <1>2 DEF EnterLetter, LoseLetter, TypeLetter
  <2> QED  BY <1>2, <2>1, EnterLetterDesk, LoseLetterDesk, TypeLetterDesk, KeepsReaderInv
<1>3. ASSUME NEW p \in Panes, EndPane(p) \/ RemovePane(p) \/ Mirror(p) \/ \E q \in Panes : CopyChat(p, q)
      PROVE  DeskInv' /\ ReaderInv'
  <2>1. UNCHANGED reader
    BY <1>3 DEF EndPane, RemovePane, Mirror, CopyChat
  <2> QED  BY <1>3, <2>1, PaneDesk, KeepsReaderInv
<1>4. ASSUME NEW p \in Panes, NEW kind \in {"bundle", "live"}, ReadSource(kind, p) PROVE DeskInv' /\ ReaderInv'
  BY <1>4, ReadSourceReader, StillDesk DEF ReadSource
<1>5. CASE ReadStore \/ ListSources \/ FeedRead
  <2>1. UNCHANGED <<letter, box, pane, script, bundle>>
    BY <1>5 DEF ReadStore, ListSources, FeedRead
  <2> QED  BY <1>5, <2>1, StillDesk, ReadStoreReader, ListSourcesReader, FeedReadReader
<1> QED  BY <1>1, <1>2, <1>3, <1>4, <1>5 DEF FeedNext

LEMMA FeedInvImplies == DeskInv /\ ReaderInv => MessagesArrive
<1> SUFFICES ASSUME DeskInv, ReaderInv PROVE MessagesArrive
  OBVIOUS
<1>1. ArrivesAlone
  <2> SUFFICES ASSUME NEW m \in Letters, NEW p \in Panes, NEW i \in DOMAIN script[p], m \in Range(script[p][i].text)
               PROVE  script[p][i].text = <<m>>
    BY DEF ArrivesAlone
  <2>1. i \in 1..Len(script[p])
    BY SourceIs
  <2>2. script[p][i].text = <<script[p][i].id>>
    BY <2>1 DEF DeskInv, TurnsFit
  <2>3. m = script[p][i].id
    BY <2>2 DEF Range
  <2> QED  BY <2>2, <2>3
<1>2. FeedCompleteOnce
  <2> SUFFICES ASSUME FeedDone
               PROVE  /\ reader.had \subseteq {turn.id : turn \in reader.out}
                      /\ \A turn, other \in reader.out : turn.id = other.id => turn = other
    BY DEF FeedCompleteOnce
  <2>1. \A id \in reader.had : SeenTurn(id)
    BY DEF ReaderInv, FeedDone
  <2> QED  BY <2>1 DEF SeenTurn, ReaderInv
<1>3. FeedAttributes
  BY DEF FeedAttributes, ReaderInv, Attributed
<1> QED  BY <1>1, <1>2, <1>3 DEF MessagesArrive

\* Where one types into a pane at a time, every message that is entered arrives as a turn
\* of its own, and what was in scope when a collection began is collected once and under
\* its sender, for any number of panes and messages and however sessions are forked,
\* mirrored, ended and removed meanwhile (service.py:549-552, messages.py:9-14).
THEOREM MessagesAlwaysArrive == ASSUME OneTypist PROVE FeedSpec => []MessagesArrive
<1>1. DeskInv /\ ReaderInv /\ [FeedNext]_feedVars => DeskInv' /\ ReaderInv'
  BY StepFeedInv
<1> QED  BY <1>1, InitFeedInv, FeedInvImplies, PTL DEF FeedSpec

----------------------------------------------------------------------------
(***************************************************************************)
(* The thread on the phone (ThreadPages) is in order and without a gap, and *)
(* its card is about the call that waits, for any transcript and any sizes  *)
(* of tails, windows and pages.  Three steps: the turns of a tail are what  *)
(* is said in it, in order (DialogueIsSaid, by induction over the entries); *)
(* a feed has the entries of LatestTurns, which only slide forward          *)
(* (ThreadIsWindow, WindowSlides); PageInv says of the older turns, and of  *)
(* a page on its way, that they end before the boundary the window has      *)
(* reached, and that they miss nothing while the transcript stands still.   *)
(***************************************************************************)

AnyTurns == [who: {"you", "agent", "tools"}, ts: Nat]
Entries == [kind: {"you", "agent", "use", "result"}, call: CallIds \cup {None}]

\* The types, without their bounds.
PageTyped ==
  /\ dialogue \in Seq(Entries)
  /\ thread \in [turns: Seq(AnyTurns), blocked: CallIds \cup {None}, upto: Nat]
  /\ older \in [open: BOOLEAN, turns: Seq(AnyTurns), more: BOOLEAN, boundary: Nat]
  /\ fetch \in [pc: {"idle", "sent", "answered"}, before: Nat, page: Seq(AnyTurns),
                more: BOOLEAN, grown: BOOLEAN]

\* What a feed of these entries shows: what is said in the tail, if fewer turns than
\* it has room for come after it.
LatestTurns(entries) ==
  {i \in Said(entries) : /\ i > TailStart(entries, InboxTail)
                         /\ Len(DialogueTurns(entries, i)) < ThreadTurns}

\* Every call has one use, before its results.
CallsSound ==
  /\ \A i, j \in DOMAIN dialogue :
       dialogue[i].kind = "use" /\ dialogue[j].kind = "use" /\ dialogue[i].call = dialogue[j].call
         => i = j
  /\ \A j \in DOMAIN dialogue : dialogue[j].kind = "result" =>
       \E i \in 1..(j - 1) : dialogue[i].kind = "use" /\ dialogue[i].call = dialogue[j].call
  /\ \A i \in DOMAIN dialogue : dialogue[i].kind = "use" => dialogue[i].call # None

\* The thread is the feed of the transcript as it was.
ThreadSound ==
  /\ thread.upto <= Len(dialogue)
  /\ thread = NoThread \/ thread = ThreadOf(SubSeq(dialogue, 1, thread.upto))

\* Older turns are in order and end before the window as it is.
OlderSound ==
  /\ ~older.open => older = NoOlder /\ fetch.pc = "idle"
  /\ InOrder(older.turns)
  /\ older.open =>
      /\ \A d \in Dated(older.turns) : d < older.boundary
      /\ older.boundary <= Len(dialogue)
      /\ older.boundary = 0 => ~older.more /\ older.turns = <<>>
      /\ \A i \in LatestTurns(dialogue) : i >= older.boundary
      /\ \A d \in Dated(thread.turns) : d >= older.boundary

\* A page on its way ends before what the page has.
FetchSound ==
  /\ fetch.pc # "idle" => older.open /\ older.more /\ fetch.before = BeforeThePage(older)
  /\ fetch.pc = "answered" => InOrder(fetch.page) /\ \A d \in Dated(fetch.page) : d < fetch.before

\* All that was said from one of these times up to a limit is among them.
NoGap(times, limit) == \A d \in times, i \in Said(dialogue) : d <= i /\ i < limit => i \in times
ReachesBack(times, limit) ==
  \A i \in Said(dialogue) : i > TailStart(dialogue, DeepTail) /\ i < limit => i \in times

\* While the transcript stands still, pages miss nothing.
StillSound ==
  older.open /\ ~fetch.grown =>
    /\ thread = ThreadOf(dialogue)
    /\ older.boundary = FirstTs(thread.turns)
    /\ NoGap(Dated(older.turns), older.boundary)
    /\ ~older.more => ReachesBack(Dated(older.turns), older.boundary)
    /\ fetch.pc = "answered" =>
         /\ NoGap(Dated(fetch.page), fetch.before)
         /\ ~fetch.more \/ fetch.page = <<>> => ReachesBack(Dated(fetch.page), fetch.before)

PageInv == PageTyped /\ CallsSound /\ ThreadSound /\ OlderSound /\ FetchSound /\ StillSound
----------------------------------------------------------------------------
(* The turns of a transcript, read entry by entry.                          *)

NothingYet == [turns |-> <<>>, pending |-> FALSE]
Readings == [turns: Seq(AnyTurns), pending: BOOLEAN]

\* read is what is read after each of these entries.
IsReading(read, entries, start, n) ==
  /\ read[start] = NothingYet
  /\ \A k \in (start + 1)..n : read[k] = ReadEntry(read[k - 1], k, entries[k])

\* As the function that DialogueTurns chooses.
IsRead(read, entries, start, n) ==
  read = [k \in start..n |-> IF k = start THEN NothingYet ELSE ReadEntry(read[k - 1], k, entries[k])]

LEMMA ReadingExists ==
  ASSUME NEW entries, NEW start \in Nat, NEW m \in Nat
  PROVE  \E read : IsRead(read, entries, start, start + m)
<1> DEFINE Is(read, n) == IsRead(read, entries, start, start + n)
           S == {n \in Nat : \E read : Is(read, n)}
<1>1. 0 \in S
  <2> DEFINE g == [k \in start..(start + 0) |-> NothingYet]
  <2>1. Is(g, 0)
    BY DEF IsRead
  <2> QED  BY <2>1
<1>2. ASSUME NEW n \in Nat, n \in S PROVE n + 1 \in S
  <2>1. PICK f : Is(f, n)
    BY <1>2
  <2> DEFINE last == start + n + 1
             g == [k \in start..(start + (n + 1)) |->
                     IF k = last THEN ReadEntry(f[last - 1], last, entries[last]) ELSE f[k]]
  <2>2. \A k \in start..(start + n) : g[k] = f[k]
    OBVIOUS
  <2>3. g[last] = ReadEntry(f[last - 1], last, entries[last])
    OBVIOUS
  <2>4. \A k \in start..(start + n) :
          f[k] = IF k = start THEN NothingYet ELSE ReadEntry(f[k - 1], k, entries[k])
    BY <2>1 DEF IsRead
  <2>5. g = [k \in start..(start + (n + 1)) |-> g[k]]
    OBVIOUS
  <2> HIDE DEF g
  <2>6. ASSUME NEW k \in start..(start + (n + 1))
        PROVE  g[k] = IF k = start THEN NothingYet ELSE ReadEntry(g[k - 1], k, entries[k])
    <3>1. CASE k = last
      <4>1. last - 1 \in start..(start + n) /\ k # start
        BY <3>1
      <4>2. g[last - 1] = f[last - 1]
        BY <2>2, <4>1
      <4> QED  BY <2>3, <3>1, <4>1, <4>2
    <3>2. CASE k \in start..(start + n) /\ k # start
      <4>1. k - 1 \in start..(start + n)
        BY <3>2
      <4>2. g[k] = f[k] /\ g[k - 1] = f[k - 1]
        BY <2>2, <3>2, <4>1
      <4> QED  BY <2>4, <3>2, <4>2
    <3>3. CASE k = start
      <4>1. start \in start..(start + n)
        OBVIOUS
      <4> QED  BY <2>2, <2>4, <3>3, <4>1
    <3> QED  BY <3>1, <3>2, <3>3
  <2>7. Is(g, n + 1)
    BY <2>5, <2>6 DEF IsRead
  <2> QED  BY <2>7
<1> HIDE DEF S
<1>3. m \in S
  BY <1>1, <1>2, SetInduction
<1> QED  BY <1>3 DEF S

\* The turns are those of such a reading.
LEMMA TurnsAreRead ==
  ASSUME NEW entries \in Seq(Entries), NEW start \in 0..Len(entries)
  PROVE  \E read : /\ IsReading(read, entries, start, Len(entries))
                   /\ DialogueTurns(entries, start) = Flushed(read[Len(entries)])
<1> DEFINE n == Len(entries)
           g == CHOOSE read : IsRead(read, entries, start, n)
<1>1. n \in Nat /\ start \in Nat /\ start <= n
  OBVIOUS
<1>2. IsRead(g, entries, start, n)
  <2> DEFINE m == n - start
  <2>1. m \in Nat /\ start + m = n
    BY <1>1
  <2> HIDE DEF n, m
  <2>2. \E read : IsRead(read, entries, start, n)
    BY <1>1, <2>1, ReadingExists
  <2> QED  BY <2>2
<1>3. DialogueTurns(entries, start) = Flushed(g[n])
  BY DEF DialogueTurns, IsRead, NothingYet
<1> HIDE DEF g, n
<1>4. \A k \in start..n : g[k] = IF k = start THEN NothingYet ELSE ReadEntry(g[k - 1], k, entries[k])
  BY <1>2 DEF IsRead
<1>5. start \in start..n /\ \A k \in (start + 1)..n : k \in start..n /\ k # start
  BY <1>1
<1>6. IsReading(g, entries, start, n)
  BY <1>4, <1>5 DEF IsReading
<1> QED  BY <1>3, <1>6 DEF n

\* And of any other.
LEMMA ReadingIsUnique ==
  ASSUME NEW entries, NEW start \in Nat, NEW n \in Nat, start <= n, NEW read, NEW other,
         IsReading(read, entries, start, n), IsReading(other, entries, start, n)
  PROVE  read[n] = other[n]
<1> DEFINE S == {m \in Nat : start + m <= n => read[start + m] = other[start + m]}
<1>1. 0 \in S
  <2>1. read[start] = other[start] /\ start + 0 = start
    BY DEF IsReading
  <2> QED  BY <2>1
<1>2. ASSUME NEW m \in Nat, m \in S PROVE m + 1 \in S
  <2> SUFFICES ASSUME start + (m + 1) <= n PROVE read[start + (m + 1)] = other[start + (m + 1)]
    OBVIOUS
  <2> DEFINE k == start + (m + 1)
  <2>1. k \in (start + 1)..n /\ k - 1 = start + m /\ start + m <= n
    OBVIOUS
  <2>2. read[k - 1] = other[k - 1]
    BY <1>2, <2>1
  <2> HIDE DEF k
  <2>3. read[k] = ReadEntry(read[k - 1], k, entries[k])
    BY <2>1 DEF IsReading
  <2>4. other[k] = ReadEntry(other[k - 1], k, entries[k])
    BY <2>1 DEF IsReading
  <2>5. read[k] = other[k]
    BY <2>2, <2>3, <2>4
  <2> QED  BY <2>5 DEF k
<1> HIDE DEF S
<1>3. n - start \in S
  <2>1. n - start \in Nat
    OBVIOUS
  <2> QED  BY <1>1, <1>2, <2>1, SetInduction
<1>4. start + (n - start) = n
  OBVIOUS
<1> QED  BY <1>3, <1>4 DEF S

\* These are what was said up to an entry, each once and in order.
TurnsSound(turns, entries, start, k) ==
  /\ turns \in Seq(AnyTurns) /\ InOrder(turns)
  /\ Dated(turns) = {i \in Said(entries) : start < i /\ i <= k}

LEMMA SeparatorSound ==
  ASSUME NEW entries, NEW start, NEW k, NEW turns, TurnsSound(turns, entries, start, k)
  PROVE  TurnsSound(Append(turns, [who |-> "tools", ts |-> 0]), entries, start, k)
<1> DEFINE t == [who |-> "tools", ts |-> 0]
           all == Append(turns, t)
<1>1. turns \in Seq(AnyTurns) /\ Len(turns) \in Nat /\ DOMAIN turns = 1..Len(turns) /\ t \in AnyTurns /\ t.ts = 0
  BY DEF TurnsSound, AnyTurns
<1>2. /\ all \in Seq(AnyTurns) /\ DOMAIN all = 1..(Len(turns) + 1)
      /\ \A i \in DOMAIN turns : all[i] = turns[i]
      /\ all[Len(turns) + 1] = t
  BY <1>1
<1> HIDE DEF all, t
<1>3. \A i \in DOMAIN all : all[i].ts # 0 => i \in DOMAIN turns
  BY <1>1, <1>2
<1>4. InOrder(all)
  BY <1>2, <1>3 DEF TurnsSound, InOrder
<1>5. Dated(all) = Dated(turns)
  <2>1. Dated(all) \subseteq Dated(turns)
    BY <1>2, <1>3 DEF Dated
  <2>2. Dated(turns) \subseteq Dated(all)
    <3>1. \A i \in DOMAIN turns : i \in DOMAIN all
      BY <1>1, <1>2
    <3> QED  BY <1>2, <3>1 DEF Dated
  <2> QED  BY <2>1, <2>2
<1> QED  BY <1>2, <1>4, <1>5 DEF TurnsSound, all, t

LEMMA SaidSound ==
  ASSUME NEW entries \in Seq(Entries), NEW start \in Nat, NEW k \in Said(entries), start < k,
         NEW turns, TurnsSound(turns, entries, start, k - 1)
  PROVE  TurnsSound(Append(turns, [who |-> entries[k].kind, ts |-> k]), entries, start, k)
<1> DEFINE t == [who |-> entries[k].kind, ts |-> k]
           all == Append(turns, t)
<1>1. k \in DOMAIN entries /\ k \in Nat /\ k # 0 /\ \A i \in Said(entries) : i \in Nat
  BY DEF Said
<1>2. turns \in Seq(AnyTurns) /\ Len(turns) \in Nat /\ DOMAIN turns = 1..Len(turns) /\ t \in AnyTurns /\ t.ts = k
  BY <1>1 DEF TurnsSound, AnyTurns, Said
<1>3. /\ all \in Seq(AnyTurns) /\ DOMAIN all = 1..(Len(turns) + 1)
      /\ \A i \in DOMAIN turns : all[i] = turns[i]
      /\ all[Len(turns) + 1] = t
  BY <1>2
<1> HIDE DEF all, t
<1>4. \A i \in DOMAIN turns : turns[i].ts # 0 => turns[i].ts \in Nat /\ turns[i].ts < k
  <2>1. \A d \in Dated(turns) : d \in Nat /\ d < k
    BY <1>1 DEF TurnsSound
  <2> QED  BY <2>1 DEF Dated
<1>5. InOrder(all)
  <2> SUFFICES ASSUME NEW i \in DOMAIN all, NEW j \in DOMAIN all, i < j, all[i].ts # 0, all[j].ts # 0
               PROVE  all[i].ts < all[j].ts
    BY DEF InOrder
  <2>1. i \in DOMAIN turns
    BY <1>2, <1>3
  <2>2. CASE j \in DOMAIN turns
    BY <1>3, <2>1, <2>2 DEF TurnsSound, InOrder
  <2>3. CASE j = Len(turns) + 1
    BY <1>2, <1>3, <1>4, <2>1, <2>3
  <2> QED  BY <1>2, <1>3, <2>2, <2>3
<1>6. Dated(all) = Dated(turns) \cup {k}
  <2>1. Dated(all) \subseteq Dated(turns) \cup {k}
    <3> SUFFICES ASSUME NEW i \in DOMAIN all, all[i].ts # 0 PROVE all[i].ts \in Dated(turns) \cup {k}
      BY DEF Dated
    <3>1. CASE i \in DOMAIN turns
      BY <1>3, <3>1 DEF Dated
    <3>2. CASE i = Len(turns) + 1
      BY <1>2, <1>3, <3>2
    <3> QED  BY <1>2, <1>3, <3>1, <3>2
  <2>2. Dated(turns) \subseteq Dated(all)
    <3>1. \A i \in DOMAIN turns : i \in DOMAIN all
      BY <1>2, <1>3
    <3> QED  BY <1>3, <3>1 DEF Dated
  <2>3. k \in Dated(all)
    <3>1. Len(turns) + 1 \in DOMAIN all
      BY <1>2, <1>3
    <3> QED  BY <1>1, <1>2, <1>3, <3>1 DEF Dated
  <2> QED  BY <2>1, <2>2, <2>3
<1>7. {i \in Said(entries) : start < i /\ i <= k} = {i \in Said(entries) : start < i /\ i <= k - 1} \cup {k}
  BY <1>1
<1> QED  BY <1>3, <1>5, <1>6, <1>7 DEF TurnsSound, all, t

LEMMA ReadingSound ==
  ASSUME NEW entries \in Seq(Entries), NEW start \in Nat, NEW n \in Nat, n <= Len(entries),
         NEW read, IsReading(read, entries, start, n), NEW k \in start..n
  PROVE  read[k] \in Readings /\ TurnsSound(read[k].turns, entries, start, k)
<1> DEFINE S == {m \in Nat : start + m <= n =>
                   /\ read[start + m] \in Readings
                   /\ TurnsSound(read[start + m].turns, entries, start, start + m)}
<1>0. \A i \in Said(entries) : i \in Nat
  BY DEF Said
<1>1. 0 \in S
  <2>1. read[start] = NothingYet /\ start + 0 = start
    BY DEF IsReading
  <2>2. NothingYet \in Readings /\ NothingYet.turns = <<>>
    BY DEF NothingYet, Readings
  <2>3. InOrder(<<>>) /\ Dated(<<>>) = {} /\ <<>> \in Seq(AnyTurns)
    BY DEF InOrder, Dated
  <2>4. {i \in Said(entries) : start < i /\ i <= start} = {}
    BY <1>0
  <2>5. TurnsSound(<<>>, entries, start, start)
    BY <2>3, <2>4 DEF TurnsSound
  <2> QED  BY <2>1, <2>2, <2>5
<1>2. ASSUME NEW m \in Nat, m \in S PROVE m + 1 \in S
  <2> SUFFICES ASSUME start + (m + 1) <= n
               PROVE  /\ read[start + (m + 1)] \in Readings
                      /\ TurnsSound(read[start + (m + 1)].turns, entries, start, start + (m + 1))
    OBVIOUS
  <2> DEFINE j == start + (m + 1)
  <2>1. j \in (start + 1)..n /\ j - 1 = start + m /\ start + m <= n /\ j \in Nat /\ start < j /\ j \in DOMAIN entries
    OBVIOUS
  <2>2. read[j - 1] \in Readings /\ TurnsSound(read[j - 1].turns, entries, start, j - 1)
    BY <1>2, <2>1
  <2> HIDE DEF j, S
  <2>3. read[j] = ReadEntry(read[j - 1], j, entries[j])
    BY <2>1 DEF IsReading
  <2>4. entries[j].kind \in {"you", "agent", "use", "result"}
    <3>1. entries[j] \in Entries
      BY <2>1
    <3> QED  BY <3>1 DEF Entries
  <2>5. CASE entries[j].kind \in {"use", "result"}
    <3>1. j \notin Said(entries)
      BY <2>5 DEF Said
    <3>2. {i \in Said(entries) : start < i /\ i <= j} = {i \in Said(entries) : start < i /\ i <= j - 1}
      BY <1>0, <2>1, <3>1
    <3>3. read[j].turns = read[j - 1].turns /\ read[j] \in Readings
      BY <2>2, <2>3, <2>5 DEF ReadEntry, Readings
    <3>4. TurnsSound(read[j].turns, entries, start, j)
      BY <2>2, <3>2, <3>3 DEF TurnsSound
    <3> QED  BY <3>3, <3>4 DEF j
  <2>6. CASE entries[j].kind \in {"you", "agent"}
    <3>1. j \in Said(entries)
      BY <2>1, <2>6 DEF Said
    <3>2. TurnsSound(Flushed(read[j - 1]), entries, start, j - 1)
      BY <2>2, SeparatorSound DEF Flushed
    <3>3. TurnsSound(Append(Flushed(read[j - 1]), [who |-> entries[j].kind, ts |-> j]), entries, start, j)
      BY <2>1, <3>1, <3>2, SaidSound
    <3>4. read[j] = [turns |-> Append(Flushed(read[j - 1]), [who |-> entries[j].kind, ts |-> j]), pending |-> FALSE]
      BY <2>3, <2>6 DEF ReadEntry
    <3>5. TurnsSound(read[j].turns, entries, start, j)
      BY <3>3, <3>4
    <3>6. read[j] \in Readings
      BY <3>4, <3>5 DEF Readings, TurnsSound
    <3> QED  BY <3>5, <3>6 DEF j
  <2> QED  BY <2>4, <2>5, <2>6
<1> HIDE DEF S
<1>3. k - start \in S
  <2>1. k - start \in Nat
    OBVIOUS
  <2> QED  BY <1>1, <1>2, <2>1, SetInduction
<1>4. start + (k - start) = k /\ k <= n
  OBVIOUS
<1> QED  BY <1>3, <1>4 DEF S

\* The turns are what was said after the start, each once and in order.
LEMMA DialogueIsSaid ==
  ASSUME NEW entries \in Seq(Entries), NEW start \in 0..Len(entries)
  PROVE  TurnsSound(DialogueTurns(entries, start), entries, start, Len(entries))
<1>1. Len(entries) \in Nat /\ start \in Nat /\ Len(entries) \in start..Len(entries)
  OBVIOUS
<1>2. PICK read : /\ IsReading(read, entries, start, Len(entries))
                  /\ DialogueTurns(entries, start) = Flushed(read[Len(entries)])
  BY TurnsAreRead
<1>3. TurnsSound(read[Len(entries)].turns, entries, start, Len(entries))
  BY <1>1, <1>2, ReadingSound
<1> QED  BY <1>2, <1>3, SeparatorSound DEF Flushed

LEMMA AppendKeeps ==
  ASSUME NEW T, NEW s \in Seq(T), NEW x \in T
  PROVE  /\ Append(s, x) \in Seq(T) /\ Len(Append(s, x)) = Len(s) + 1 /\ Len(s) \in Nat
         /\ \A p \in 1..Len(s) : Append(s, x)[p] = s[p]
         /\ Append(s, x)[Len(s) + 1] = x
OBVIOUS

\* What is read later is no shorter.
LEMMA TurnsGrow ==
  ASSUME NEW entries \in Seq(Entries), NEW start \in Nat, NEW n \in Nat, n <= Len(entries),
         NEW read, IsReading(read, entries, start, n), NEW k \in start..n
  PROVE  Len(Flushed(read[k])) <= Len(Flushed(read[n]))
<1> DEFINE S == {m \in Nat : k + m <= n => Len(Flushed(read[k])) <= Len(Flushed(read[k + m]))}
<1>1. \A j \in start..n : /\ read[j] \in Readings /\ read[j].turns \in Seq(AnyTurns)
                          /\ Flushed(read[j]) \in Seq(AnyTurns)
                          /\ Len(read[j].turns) \in Nat /\ Len(Flushed(read[j])) \in Nat
                          /\ Len(read[j].turns) <= Len(Flushed(read[j]))
                          /\ Len(Flushed(read[j])) <= Len(read[j].turns) + 1
                          /\ Len(Append(read[j].turns, [who |-> "tools", ts |-> 0])) = Len(read[j].turns) + 1
  <2> TAKE j \in start..n
  <2>1. read[j] \in Readings /\ read[j].turns \in Seq(AnyTurns)
    BY ReadingSound DEF TurnsSound
  <2>2. [who |-> "tools", ts |-> 0] \in AnyTurns
    BY DEF AnyTurns
  <2> QED  BY <2>1, <2>2 DEF Flushed
<1>2. 0 \in S
  <2>1. k + 0 = k
    OBVIOUS
  <2> QED  BY <1>1, <2>1
<1>3. ASSUME NEW m \in Nat, m \in S PROVE m + 1 \in S
  <2> SUFFICES ASSUME k + (m + 1) <= n PROVE Len(Flushed(read[k])) <= Len(Flushed(read[k + (m + 1)]))
    OBVIOUS
  <2> DEFINE j == k + (m + 1)
  <2>1. /\ j \in (start + 1)..n /\ j - 1 = k + m /\ k + m <= n /\ j \in start..n /\ j - 1 \in start..n
        /\ k \in start..n /\ j \in DOMAIN entries
    OBVIOUS
  <2>2. Len(Flushed(read[k])) <= Len(Flushed(read[j - 1]))
    BY <1>3, <2>1
  <2> HIDE DEF j, S
  <2>3. read[j] = ReadEntry(read[j - 1], j, entries[j])
    BY <2>1 DEF IsReading
  <2>4. Len(Flushed(read[j - 1])) <= Len(Flushed(read[j]))
    <3>1. CASE entries[j].kind = "result"
      BY <1>1, <2>1, <2>3, <3>1 DEF ReadEntry
    <3>2. CASE entries[j].kind = "use"
      <4>1. read[j].turns = read[j - 1].turns /\ read[j].pending
        BY <1>1, <2>1, <2>3, <3>2 DEF ReadEntry, Readings
      <4>2. Flushed(read[j]) = Append(read[j - 1].turns, [who |-> "tools", ts |-> 0])
        BY <4>1 DEF Flushed
      <4> QED  BY <1>1, <2>1, <4>2
    <3>3. CASE entries[j].kind \notin {"use", "result"}
      <4>1. read[j] = [turns |-> Append(Flushed(read[j - 1]), [who |-> entries[j].kind, ts |-> j]), pending |-> FALSE]
        BY <2>3, <3>3 DEF ReadEntry
      <4>2. /\ read[j].turns = Append(Flushed(read[j - 1]), [who |-> entries[j].kind, ts |-> j])
            /\ ~read[j].pending
        BY <4>1
      <4>3. Flushed(read[j]) = Append(Flushed(read[j - 1]), [who |-> entries[j].kind, ts |-> j])
        BY <4>2 DEF Flushed
      <4>4. entries[j] \in Entries /\ j \in Nat
        BY <2>1
      <4>5. [who |-> entries[j].kind, ts |-> j] \in AnyTurns
        BY <3>3, <4>4 DEF Entries, AnyTurns
      <4> QED  BY <1>1, <2>1, <4>3, <4>5, AppendKeeps
    <3> QED  BY <3>1, <3>2, <3>3
  <2>5. Len(Flushed(read[k])) <= Len(Flushed(read[j]))
    BY <1>1, <2>1, <2>2, <2>4
  <2> QED  BY <2>5 DEF j
<1> HIDE DEF S
<1>4. n - k \in S
  <2>1. n - k \in Nat
    OBVIOUS
  <2> QED  BY <1>2, <1>3, <2>1, SetInduction
<1>5. k + (n - k) = n
  OBVIOUS
<1> QED  BY <1>4, <1>5 DEF S

\* What was read before something was said is as long, whatever is said after.
LEMMA SaidSplits ==
  ASSUME NEW entries \in Seq(Entries), NEW start \in Nat, NEW i \in Said(entries), start < i,
         NEW n \in i..Len(entries), NEW read, NEW later,
         IsReading(read, entries, start, n), IsReading(later, entries, i, n)
  PROVE  \E p \in Nat \ {0} :
           /\ Len(read[n].turns) = p + Len(later[n].turns) /\ read[n].pending = later[n].pending
           /\ read[n].turns[p].ts = i
<1> DEFINE p == Len(read[i].turns)
           Apart(k) == /\ Len(read[k].turns) = p + Len(later[k].turns) /\ read[k].pending = later[k].pending
                       /\ read[k].turns[p].ts = i
           S == {m \in Nat : i + m <= n => Apart(i + m)}
<1>0. i \in Nat /\ i \in DOMAIN entries /\ n \in Nat /\ n <= Len(entries) /\ i <= n
  BY DEF Said
<1>1. /\ \A k \in start..n : read[k] \in Readings /\ read[k].turns \in Seq(AnyTurns)
      /\ \A k \in i..n : later[k] \in Readings /\ later[k].turns \in Seq(AnyTurns)
  BY <1>0, ReadingSound DEF TurnsSound
<1>2. \A k \in start..n : Flushed(read[k]) \in Seq(AnyTurns)
  <2>1. [who |-> "tools", ts |-> 0] \in AnyTurns
    BY DEF AnyTurns
  <2> QED  BY <1>1, <2>1 DEF Flushed
<1>3. /\ p \in Nat \ {0} /\ read[i].turns[p].ts = i /\ ~read[i].pending
  <2>1. i - 1 \in start..n /\ i \in (start + 1)..n
    BY <1>0
  <2>2. entries[i].kind \in {"you", "agent"}
    BY DEF Said
  <2>3. read[i] = [turns |-> Append(Flushed(read[i - 1]), [who |-> entries[i].kind, ts |-> i]), pending |-> FALSE]
    BY <2>1, <2>2 DEF IsReading, ReadEntry
  <2>4. read[i].turns = Append(Flushed(read[i - 1]), [who |-> entries[i].kind, ts |-> i]) /\ ~read[i].pending
    BY <2>3
  <2> DEFINE t == [who |-> entries[i].kind, ts |-> i]
  <2>5. t \in AnyTurns /\ t.ts = i
    BY <1>0, <2>2 DEF AnyTurns
  <2>6. Flushed(read[i - 1]) \in Seq(AnyTurns)
    BY <1>2, <2>1
  <2> HIDE DEF t
  <2>7. p = Len(Flushed(read[i - 1])) + 1 /\ Len(Flushed(read[i - 1])) \in Nat
    BY <2>4, <2>5, <2>6, AppendKeeps DEF t
  <2>8. read[i].turns[Len(Flushed(read[i - 1])) + 1] = t
    BY <2>4, <2>5, <2>6, AppendKeeps DEF t
  <2>9. read[i].turns[p] = t
    BY <2>7, <2>8
  <2> QED  BY <2>4, <2>5, <2>7, <2>9
<1>4. 0 \in S
  <2>1. later[i] = NothingYet /\ i + 0 = i
    BY <1>0 DEF IsReading
  <2>2. Len(later[i].turns) = 0 /\ later[i].pending = FALSE
    BY <2>1 DEF NothingYet
  <2>3. read[i].pending = FALSE
    BY <1>0, <1>1, <1>3 DEF Readings
  <2>4. Len(read[i].turns) = p + Len(later[i].turns)
    BY <1>3, <2>2
  <2>5. Apart(i)
    BY <1>3, <2>2, <2>3, <2>4
  <2> QED  BY <2>1, <2>5
<1>5. ASSUME NEW m \in Nat, m \in S PROVE m + 1 \in S
  <2>0. m + 1 \in Nat
    OBVIOUS
  <2> SUFFICES ASSUME i + (m + 1) <= n PROVE Apart(i + (m + 1))
    BY <2>0, Zenon
  <2> DEFINE j == i + (m + 1)
  <2>1. /\ j \in (start + 1)..n /\ j \in (i + 1)..n /\ j - 1 = i + m /\ i + m <= n
        /\ j \in start..n /\ j - 1 \in start..n /\ j \in i..n /\ j - 1 \in i..n /\ j \in Nat
    BY <1>0
  <2>2. Apart(j - 1)
    BY <1>5, <2>1
  <2> HIDE DEF j, S, p
  <2>3. read[j] = ReadEntry(read[j - 1], j, entries[j]) /\ later[j] = ReadEntry(later[j - 1], j, entries[j])
    BY <2>1 DEF IsReading
  <2>4. /\ read[j - 1].turns \in Seq(AnyTurns) /\ later[j - 1].turns \in Seq(AnyTurns)
        /\ read[j - 1] \in Readings /\ later[j - 1] \in Readings
        /\ Len(later[j - 1].turns) \in Nat /\ p <= Len(read[j - 1].turns)
    <3> DEFINE k == j - 1
    <3>1. k \in start..n /\ k \in i..n /\ Len(read[k].turns) = p + Len(later[k].turns)
      BY <2>1, <2>2
    <3> HIDE DEF k
    <3>2. read[k] \in Readings /\ later[k] \in Readings
      BY <1>1, <3>1
    <3>3. read[k].turns \in Seq(AnyTurns) /\ later[k].turns \in Seq(AnyTurns)
      BY <3>2 DEF Readings
    <3>4. Len(later[k].turns) \in Nat /\ p \in Nat
      BY <1>3, <3>3
    <3>5. p <= Len(read[k].turns)
      BY <3>1, <3>4
    <3> QED  BY <3>2, <3>3, <3>4, <3>5 DEF k
  <2>5. CASE entries[j].kind = "result"
    <3>1. Apart(j)
      BY <2>2, <2>3, <2>5 DEF ReadEntry
    <3> QED  BY <3>1 DEF j
  <2>6. CASE entries[j].kind = "use"
    <3>1. read[j].turns = read[j - 1].turns /\ later[j].turns = later[j - 1].turns
      BY <2>3, <2>4, <2>6 DEF ReadEntry, Readings
    <3>2. read[j].pending = TRUE /\ later[j].pending = TRUE
      BY <2>3, <2>4, <2>6 DEF ReadEntry, Readings
    <3>3. Apart(j)
      BY <2>2, <3>1, <3>2
    <3> QED  BY <3>3 DEF j
  <2>7. CASE entries[j].kind \notin {"use", "result"}
    <3> DEFINE t == [who |-> entries[j].kind, ts |-> j]
               s == [who |-> "tools", ts |-> 0]
    <3>1. /\ read[j] = [turns |-> Append(Flushed(read[j - 1]), t), pending |-> FALSE]
          /\ later[j] = [turns |-> Append(Flushed(later[j - 1]), t), pending |-> FALSE]
      BY <2>3, <2>7 DEF ReadEntry
    <3>2. /\ read[j].turns = Append(Flushed(read[j - 1]), t) /\ read[j].pending = FALSE
          /\ later[j].turns = Append(Flushed(later[j - 1]), t) /\ later[j].pending = FALSE
      BY <3>1
    <3>3. s \in AnyTurns
      BY DEF AnyTurns
    <3> HIDE DEF t, s
    <3>4. /\ Flushed(read[j - 1]) \in Seq(AnyTurns) /\ Flushed(later[j - 1]) \in Seq(AnyTurns)
          /\ Len(Flushed(read[j - 1])) = p + Len(Flushed(later[j - 1]))
          /\ Flushed(read[j - 1])[p].ts = i /\ p <= Len(Flushed(read[j - 1]))
      <4>1. CASE read[j - 1].pending
        <5>1. Flushed(read[j - 1]) = Append(read[j - 1].turns, s) /\ Flushed(later[j - 1]) = Append(later[j - 1].turns, s)
          BY <2>2, <4>1 DEF Flushed, s
        <5>2. /\ Flushed(read[j - 1]) \in Seq(AnyTurns) /\ Flushed(later[j - 1]) \in Seq(AnyTurns)
              /\ Len(Flushed(read[j - 1])) = Len(read[j - 1].turns) + 1
              /\ Len(Flushed(later[j - 1])) = Len(later[j - 1].turns) + 1
          BY <2>4, <3>3, <5>1, AppendKeeps
        <5>3. p \in 1..Len(read[j - 1].turns)
          BY <1>3, <2>4
        <5>4. Flushed(read[j - 1])[p] = read[j - 1].turns[p]
          BY <2>4, <3>3, <5>1, <5>3, AppendKeeps
        <5>5. Len(Flushed(read[j - 1])) = p + Len(Flushed(later[j - 1])) /\ p <= Len(Flushed(read[j - 1]))
          <6> HIDE DEF j
          <6>1. Len(read[j - 1].turns) = p + Len(later[j - 1].turns)
            BY <2>2
          <6>2. Len(read[j - 1].turns) \in Nat /\ Len(later[j - 1].turns) \in Nat
            BY <2>4
          <6> QED  BY <5>2, <5>3, <6>1, <6>2
        <5>6. Flushed(read[j - 1])[p].ts = i
          BY <2>2, <5>4
        <5> QED  BY <5>2, <5>5, <5>6
      <4>2. CASE ~read[j - 1].pending
        <5>1. Flushed(read[j - 1]) = read[j - 1].turns /\ Flushed(later[j - 1]) = later[j - 1].turns
          BY <2>2, <4>2 DEF Flushed
        <5> QED  BY <2>2, <2>4, <5>1
      <4> QED  BY <4>1, <4>2
    <3>5. t \in AnyTurns
      <4>1. entries[j] \in Entries
        BY <1>0, <2>1
      <4> QED  BY <2>1, <2>7, <4>1 DEF Entries, AnyTurns, t
    <3>6. /\ Len(read[j].turns) = Len(Flushed(read[j - 1])) + 1
          /\ Len(later[j].turns) = Len(Flushed(later[j - 1])) + 1
          /\ Len(Flushed(later[j - 1])) \in Nat /\ Len(Flushed(read[j - 1])) \in Nat
      BY <3>2, <3>4, <3>5, AppendKeeps
    <3>7. read[j].turns[p] = Flushed(read[j - 1])[p]
      <4>1. p \in 1..Len(Flushed(read[j - 1]))
        BY <1>3, <3>4, <3>6
      <4> QED  BY <3>2, <3>4, <3>5, <4>1, AppendKeeps
    <3>8. Len(read[j].turns) = p + Len(later[j].turns)
      BY <1>3, <3>4, <3>6
    <3>9. Apart(j)
      BY <3>2, <3>4, <3>7, <3>8
    <3> QED  BY <3>9 DEF j
  <2> QED  BY <2>5, <2>6, <2>7
<1> HIDE DEF S, p
<1>6. n - i \in S
  <2>1. n - i \in Nat
    BY <1>0
  <2> QED  BY <1>4, <1>5, <2>1, SetInduction
<1>7. i + (n - i) = n
  BY <1>0
<1>8. Apart(n)
  BY <1>0, <1>6, <1>7 DEF S
<1> QED  BY <1>3, <1>8

\* What was said has, in the turns, as many after it as there are turns from there on.
LEMMA TurnsAfter ==
  ASSUME NEW entries \in Seq(Entries), NEW start \in Nat, NEW i \in Said(entries), start < i
  PROVE  \E p \in DOMAIN DialogueTurns(entries, start) :
           /\ DialogueTurns(entries, start)[p].ts = i
           /\ Len(DialogueTurns(entries, start)) = p + Len(DialogueTurns(entries, i))
<1> DEFINE n == Len(entries)
<1>1. n \in Nat /\ start \in 0..n /\ i \in 0..n /\ n \in i..n /\ n \in start..n /\ i \in Nat
  BY DEF Said
<1>2. PICK read : IsReading(read, entries, start, n) /\ DialogueTurns(entries, start) = Flushed(read[n])
  BY <1>1, TurnsAreRead
<1>3. PICK later : IsReading(later, entries, i, n) /\ DialogueTurns(entries, i) = Flushed(later[n])
  BY <1>1, TurnsAreRead
<1>4. read[n].turns \in Seq(AnyTurns) /\ later[n].turns \in Seq(AnyTurns)
  BY <1>1, <1>2, <1>3, ReadingSound DEF TurnsSound
<1> HIDE DEF n
<1>5. PICK p \in Nat \ {0} :
        /\ Len(read[n].turns) = p + Len(later[n].turns) /\ read[n].pending = later[n].pending
        /\ read[n].turns[p].ts = i
  BY <1>1, <1>2, <1>3, SaidSplits DEF n
<1> DEFINE s == [who |-> "tools", ts |-> 0]
<1>6. CASE read[n].pending
  <2>1. s \in AnyTurns
    BY DEF AnyTurns
  <2>2. DialogueTurns(entries, start) = Append(read[n].turns, s) /\ DialogueTurns(entries, i) = Append(later[n].turns, s)
    BY <1>2, <1>3, <1>5, <1>6 DEF Flushed
  <2> HIDE DEF s
  <2>3. /\ Len(DialogueTurns(entries, start)) = Len(read[n].turns) + 1
        /\ Len(DialogueTurns(entries, i)) = Len(later[n].turns) + 1
        /\ Len(later[n].turns) \in Nat /\ DialogueTurns(entries, start) \in Seq(AnyTurns)
    BY <1>4, <2>1, <2>2, AppendKeeps
  <2>4. p \in 1..Len(read[n].turns)
    BY <1>4, <1>5, <2>3
  <2>5. DialogueTurns(entries, start)[p] = read[n].turns[p]
    BY <1>4, <2>1, <2>2, <2>4, AppendKeeps
  <2>6. p \in DOMAIN DialogueTurns(entries, start)
    BY <1>4, <2>3, <2>4
  <2>7. Len(DialogueTurns(entries, start)) = p + Len(DialogueTurns(entries, i))
    BY <1>5, <2>3
  <2>8. DialogueTurns(entries, start)[p].ts = i
    BY <1>5, <2>5, Zenon
  <2> QED  BY <2>6, <2>7, <2>8, Zenon
<1>7. CASE ~read[n].pending
  <2>1. DialogueTurns(entries, start) = read[n].turns /\ DialogueTurns(entries, i) = later[n].turns
    BY <1>2, <1>3, <1>5, <1>7 DEF Flushed
  <2> HIDE DEF s
  <2>2. Len(DialogueTurns(entries, start)) = p + Len(DialogueTurns(entries, i))
    BY <1>5, <2>1
  <2>3. DialogueTurns(entries, start)[p].ts = i
    BY <1>5, <2>1
  <2>4. Len(read[n].turns) \in Nat /\ Len(later[n].turns) \in Nat /\ DOMAIN read[n].turns = 1..Len(read[n].turns)
    BY <1>4
  <2>5. p \in DOMAIN DialogueTurns(entries, start)
    BY <1>5, <2>1, <2>4
  <2> QED  BY <2>2, <2>3, <2>5, Zenon
<1> QED  BY <1>6, <1>7

\* Some turns in a row, as good as all of them.
LEMMA SliceInOrder ==
  ASSUME NEW turns \in Seq(AnyTurns), InOrder(turns), NEW first \in 0..Len(turns), NEW last \in 0..Len(turns)
  PROVE  /\ SubSeq(turns, first + 1, last) \in Seq(AnyTurns) /\ InOrder(SubSeq(turns, first + 1, last))
         /\ \A d : d \in Dated(SubSeq(turns, first + 1, last)) <=>
                     d # 0 /\ \E i \in (first + 1)..last : turns[i].ts = d
<1> DEFINE slice == SubSeq(turns, first + 1, last)
           n == IF first < last THEN last - first ELSE 0
<1>0. Len(turns) \in Nat /\ DOMAIN turns = 1..Len(turns)
  OBVIOUS
<1>1. /\ slice \in Seq(AnyTurns) /\ DOMAIN slice = 1..n
      /\ \A i \in 1..n : slice[i] = turns[first + i] /\ first + i \in DOMAIN turns
  <2>1. n \in Nat /\ \A i \in 1..n : first + i \in 1..Len(turns)
    BY <1>0
  <2>2. slice = [i \in 1..n |-> turns[first + i]]
    <3>1. (first + 1) + n - 1 = first + n /\ n = IF first + 1 <= last THEN last - (first + 1) + 1 ELSE 0
      BY <1>0
    <3>2. slice = [i \in 1..(last - (first + 1) + 1) |-> turns[first + 1 + i - 1]]
      OBVIOUS
    <3> QED  BY <1>0, <3>1, <3>2
  <2>3. \A i \in 1..n : turns[first + i] \in AnyTurns
    BY <1>0, <2>1
  <2> HIDE DEF n
  <2>4. [i \in 1..n |-> turns[first + i]] \in Seq(AnyTurns)
    BY <2>1, <2>3
  <2> QED  BY <1>0, <2>1, <2>2, <2>4
<1>2. \A i \in (first + 1)..last : i - first \in 1..n /\ slice[i - first] = turns[i]
  <2> TAKE i \in (first + 1)..last
  <2>1. i - first \in 1..n /\ first + (i - first) = i
    BY <1>0
  <2> HIDE DEF slice, n
  <2> QED  BY <1>1, <2>1
<1>3. n \in Nat /\ \A i \in 1..n : first + i \in (first + 1)..last
  BY <1>0
<1> HIDE DEF slice, n
<1>4. InOrder(slice)
  <2> SUFFICES ASSUME NEW i \in 1..n, NEW j \in 1..n, i < j, slice[i].ts # 0, slice[j].ts # 0
               PROVE  slice[i].ts < slice[j].ts
    BY <1>1 DEF InOrder
  <2>1. first + i < first + j /\ first + i \in DOMAIN turns /\ first + j \in DOMAIN turns
    BY <1>0, <1>1, <1>3
  <2> QED  BY <1>1, <2>1 DEF InOrder
<1>5. ASSUME NEW d PROVE d \in Dated(slice) <=> d # 0 /\ \E i \in (first + 1)..last : turns[i].ts = d
  <2>1. ASSUME d \in Dated(slice) PROVE d # 0 /\ \E i \in (first + 1)..last : turns[i].ts = d
    <3>1. PICK i \in 1..n : d = slice[i].ts
      BY <1>1, <2>1 DEF Dated
    <3> QED  BY <1>1, <1>3, <2>1, <3>1 DEF Dated
  <2>2. ASSUME d # 0, NEW i \in (first + 1)..last, turns[i].ts = d PROVE d \in Dated(slice)
    BY <1>1, <1>2, <2>2 DEF Dated
  <2> QED  BY <2>1, <2>2
<1> QED  BY <1>1, <1>4, <1>5 DEF slice

\* What was said is one turn.
LEMMA OneTurnEach ==
  ASSUME NEW turns \in Seq(AnyTurns), InOrder(turns), NEW i \in DOMAIN turns, NEW j \in DOMAIN turns,
         turns[i].ts = turns[j].ts, turns[i].ts # 0
  PROVE  i = j
<1>1. i \in Nat /\ j \in Nat /\ turns[i].ts \in Nat
  <2>1. turns[i] \in AnyTurns /\ i \in Nat /\ j \in Nat
    OBVIOUS
  <2> QED  BY <2>1 DEF AnyTurns
<1>2. ~(i < j) /\ ~(j < i)
  BY <1>1 DEF InOrder
<1> QED  BY <1>1, <1>2

LEMMA StartIs ==
  ASSUME NEW entries \in Seq(Entries), NEW most \in Nat
  PROVE  TailStart(entries, most) \in 0..Len(entries)
BY DEF TailStart

\* The last turns of the tail are what the window has.
LEMMA ThreadIsWindow ==
  ASSUME NEW entries \in Seq(Entries)
  PROVE  /\ ThreadOf(entries).turns \in Seq(AnyTurns) /\ InOrder(ThreadOf(entries).turns)
         /\ Dated(ThreadOf(entries).turns) = LatestTurns(entries)
<1> DEFINE start == TailStart(entries, InboxTail)
           turns == DialogueTurns(entries, start)
           length == Len(turns)
           drop == IF length > ThreadTurns THEN length - ThreadTurns ELSE 0
<1> USE PagesAssumption
<1>1. start \in 0..Len(entries) /\ Len(entries) \in Nat /\ \A i \in Said(entries) : i \in 1..Len(entries)
  <2>1. start \in 0..Len(entries)
    BY StartIs
  <2>2. Len(entries) \in Nat /\ DOMAIN entries = 1..Len(entries)
    OBVIOUS
  <2>3. \A i \in Said(entries) : i \in 1..Len(entries)
    BY <2>2, Zenon DEF Said
  <2> QED  BY <2>1, <2>2, <2>3
<1> HIDE DEF start
<1>2. turns \in Seq(AnyTurns) /\ InOrder(turns) /\ Dated(turns) = {i \in Said(entries) : start < i /\ i <= Len(entries)}
  BY <1>1, DialogueIsSaid DEF TurnsSound
<1>3. ThreadOf(entries).turns = LastTurns(turns, ThreadTurns)
  BY DEF ThreadOf, start
<1> HIDE DEF turns
<1>4. length \in Nat /\ drop \in 0..length /\ length \in 0..length /\ DOMAIN turns = 1..length
  BY <1>2
<1>5. ThreadOf(entries).turns = SubSeq(turns, drop + 1, length)
  <2>1. CASE length > ThreadTurns
    BY <1>3, <2>1 DEF LastTurns
  <2>2. CASE ~(length > ThreadTurns)
    <3>1. SubSeq(turns, 1, length) = turns
      BY <1>2
    <3>2. drop + 1 = 1 /\ LastTurns(turns, ThreadTurns) = turns
      BY <2>2 DEF LastTurns
    <3> QED  BY <1>3, <3>1, <3>2
  <2> QED  BY <2>1, <2>2
<1> HIDE DEF drop
<1>6. ASSUME NEW d PROVE d \in Dated(ThreadOf(entries).turns) <=> d # 0 /\ \E i \in (drop + 1)..length : turns[i].ts = d
  <2> HIDE DEF length
  <2>1. drop \in 0..Len(turns) /\ length \in 0..Len(turns)
    BY <1>4 DEF length
  <2>2. \A e : e \in Dated(SubSeq(turns, drop + 1, length)) <=>
                 e # 0 /\ \E i \in (drop + 1)..length : turns[i].ts = e
    BY <1>2, <2>1, SliceInOrder
  <2> QED  BY <1>5, <2>2
<1>7. ASSUME NEW i \in Said(entries), start < i
      PROVE  i \in Dated(ThreadOf(entries).turns) <=> Len(DialogueTurns(entries, i)) < ThreadTurns
  <2>1. PICK p \in DOMAIN turns : turns[p].ts = i /\ length = p + Len(DialogueTurns(entries, i))
    <3>1. \E p \in DOMAIN DialogueTurns(entries, start) :
            /\ DialogueTurns(entries, start)[p].ts = i
            /\ Len(DialogueTurns(entries, start)) = p + Len(DialogueTurns(entries, i))
      BY <1>1, <1>7, TurnsAfter
    <3> QED  BY <3>1 DEF turns, length
  <2>2. i # 0 /\ i \in Nat /\ p \in 1..length
    BY <1>1, <1>4
  <2>3. DialogueTurns(entries, i) \in Seq(AnyTurns)
    <3>1. i \in 0..Len(entries)
      BY <1>1
    <3> QED  BY <3>1, DialogueIsSaid DEF TurnsSound
  <2>4. Len(DialogueTurns(entries, i)) \in Nat
    BY <2>3
  <2>5. p > drop <=> Len(DialogueTurns(entries, i)) < ThreadTurns
    BY <1>4, <2>1, <2>2, <2>4 DEF drop
  <2>6. ASSUME i \in Dated(ThreadOf(entries).turns) PROVE p > drop
    <3>1. PICK q \in (drop + 1)..length : turns[q].ts = i
      BY <1>6, <2>6
    <3>2. q \in DOMAIN turns /\ q > drop
      BY <1>4
    <3>3. q = p
      BY <1>2, <2>1, <2>2, <3>1, <3>2, OneTurnEach
    <3> QED  BY <3>2, <3>3
  <2>7. ASSUME p > drop PROVE i \in Dated(ThreadOf(entries).turns)
    <3>1. p \in (drop + 1)..length
      BY <1>4, <2>2, <2>7
    <3> QED  BY <1>6, <2>1, <2>2, <3>1
  <2> QED  BY <2>5, <2>6, <2>7
<1>8. \A d \in Dated(ThreadOf(entries).turns) : d \in Said(entries) /\ start < d
  <2> TAKE d \in Dated(ThreadOf(entries).turns)
  <2>1. PICK i \in (drop + 1)..length : d # 0 /\ turns[i].ts = d
    BY <1>6
  <2>2. i \in DOMAIN turns
    BY <1>4
  <2>3. d \in Dated(turns)
    BY <2>1, <2>2 DEF Dated
  <2> QED  BY <1>2, <2>3
<1>9. Dated(ThreadOf(entries).turns) = LatestTurns(entries)
  BY <1>7, <1>8 DEF LatestTurns, start
<1>10. ThreadOf(entries).turns \in Seq(AnyTurns) /\ InOrder(ThreadOf(entries).turns)
  BY <1>2, <1>4, <1>5, SliceInOrder
<1> QED  BY <1>9, <1>10

\* The window only slides forward.
LEMMA WindowSlides ==
  ASSUME NEW entries \in Seq(Entries), NEW n \in 0..Len(entries), NEW i \in LatestTurns(entries), i <= n
  PROVE  i \in LatestTurns(SubSeq(entries, 1, n))
<1> DEFINE before == SubSeq(entries, 1, n)
<1> USE PagesAssumption
<1>1. /\ Len(entries) \in Nat /\ n \in Nat /\ i \in 1..Len(entries) /\ i \in Said(entries)
      /\ i > TailStart(entries, InboxTail) /\ Len(DialogueTurns(entries, i)) < ThreadTurns
  BY DEF LatestTurns, Said
<1>2. before \in Seq(Entries) /\ Len(before) = n /\ DOMAIN before = 1..n /\ \A k \in 1..n : before[k] = entries[k]
  BY <1>1
<1> HIDE DEF before
<1>3. i \in Said(before)
  BY <1>1, <1>2 DEF Said
<1>4. i > TailStart(before, InboxTail)
  BY <1>1, <1>2 DEF TailStart
<1>5. PICK read : /\ IsReading(read, entries, i, Len(entries))
                  /\ DialogueTurns(entries, i) = Flushed(read[Len(entries)])
  <2>1. i \in 0..Len(entries)
    BY <1>1
  <2> QED  BY <2>1, TurnsAreRead
<1>6. PICK other : /\ IsReading(other, before, i, n)
                   /\ DialogueTurns(before, i) = Flushed(other[n])
  <2>1. i \in 0..Len(before)
    BY <1>1, <1>2
  <2> QED  BY <1>2, <2>1, TurnsAreRead
<1>7. IsReading(read, before, i, n)
  <2>1. \A k \in (i + 1)..n : k \in (i + 1)..Len(entries) /\ k \in 1..n
    BY <1>1
  <2> QED  BY <1>2, <1>5, <2>1 DEF IsReading
<1>8. read[n] = other[n]
  BY <1>1, <1>6, <1>7, ReadingIsUnique
<1>9. Len(Flushed(read[n])) <= Len(Flushed(read[Len(entries)]))
  <2>1. n \in i..Len(entries)
    BY <1>1
  <2> QED  BY <1>1, <1>5, <2>1, TurnsGrow
<1>10. Len(DialogueTurns(before, i)) \in Nat /\ Len(DialogueTurns(entries, i)) \in Nat
  <2>1. i \in 0..Len(before) /\ i \in 0..Len(entries)
    BY <1>1, <1>2
  <2>2. DialogueTurns(before, i) \in Seq(AnyTurns) /\ DialogueTurns(entries, i) \in Seq(AnyTurns)
    BY <1>2, <2>1, DialogueIsSaid DEF TurnsSound
  <2> QED  BY <2>2
<1>11. Len(DialogueTurns(before, i)) < ThreadTurns
  BY <1>1, <1>5, <1>6, <1>8, <1>9, <1>10
<1> QED  BY <1>3, <1>4, <1>11 DEF LatestTurns, before

\* It has all that was said after the first it has.
LEMMA WindowIsWhole ==
  ASSUME NEW entries \in Seq(Entries), NEW i \in LatestTurns(entries), NEW j \in Said(entries), i <= j
  PROVE  j \in LatestTurns(entries)
<1> USE PagesAssumption
<1>1. /\ i \in 1..Len(entries) /\ j \in 1..Len(entries) /\ i \in Said(entries) /\ Len(entries) \in Nat
      /\ i > TailStart(entries, InboxTail) /\ Len(DialogueTurns(entries, i)) < ThreadTurns
  BY DEF LatestTurns, Said
<1>2. TailStart(entries, InboxTail) \in Nat
  BY StartIs
<1>3. CASE i = j
  BY <1>3
<1>4. CASE i < j
  <2>1. i \in 0..Len(entries) /\ j \in 0..Len(entries)
    BY <1>1
  <2>2. DialogueTurns(entries, i) \in Seq(AnyTurns) /\ DialogueTurns(entries, j) \in Seq(AnyTurns)
    BY <2>1, DialogueIsSaid DEF TurnsSound
  <2>3. PICK p \in DOMAIN DialogueTurns(entries, i) :
          /\ DialogueTurns(entries, i)[p].ts = j
          /\ Len(DialogueTurns(entries, i)) = p + Len(DialogueTurns(entries, j))
    <3>1. i \in Nat /\ i < j
      BY <1>1, <1>4
    <3> HIDE DEF Said
    <3>2. \A x \in Nat, y \in Said(entries) : x < y =>
            \E q \in DOMAIN DialogueTurns(entries, x) :
              /\ DialogueTurns(entries, x)[q].ts = y
              /\ Len(DialogueTurns(entries, x)) = q + Len(DialogueTurns(entries, y))
      BY TurnsAfter
    <3> QED  BY <3>1, <3>2
  <2>4. p \in Nat /\ Len(DialogueTurns(entries, i)) \in Nat /\ Len(DialogueTurns(entries, j)) \in Nat
    BY <2>2
  <2>5. Len(DialogueTurns(entries, j)) < ThreadTurns /\ j > TailStart(entries, InboxTail)
    BY <1>1, <1>2, <1>4, <2>3, <2>4
  <2> QED  BY <2>5 DEF LatestTurns
<1> QED  BY <1>1, <1>3, <1>4

LEMMA FirstIs ==
  ASSUME NEW turns \in Seq(AnyTurns), InOrder(turns)
  PROVE  \/ FirstTs(turns) = 0 /\ Dated(turns) = {}
         \/ /\ FirstTs(turns) \in Dated(turns) /\ FirstTs(turns) \in Nat \ {0}
            /\ \A d \in Dated(turns) : FirstTs(turns) <= d
<1> DEFINE at == {i \in DOMAIN turns : turns[i].ts # 0}
<1>1. Len(turns) \in Nat /\ DOMAIN turns = 1..Len(turns) /\ \A i \in DOMAIN turns : turns[i].ts \in Nat
  <2>1. Len(turns) \in Nat /\ DOMAIN turns = 1..Len(turns) /\ \A i \in DOMAIN turns : turns[i] \in AnyTurns
    OBVIOUS
  <2> QED  BY <2>1 DEF AnyTurns
<1>2. FirstTs(turns) = IF at = {} THEN 0 ELSE turns[Min(at)].ts
  BY DEF FirstTs
<1>3. CASE at = {}
  BY <1>2, <1>3 DEF Dated
<1>4. CASE at # {}
  <2>1. PICK i \in at : \A j \in at : i <= j
    <3>1. at \in SUBSET (1..Len(turns))
      BY <1>1
    <3> HIDE DEF at
    <3> QED  BY <1>1, <1>4, <3>1, LeastExists
  <2>2. Min(at) \in at /\ \A j \in at : Min(at) <= j
    <3>1. \E x \in at : \A y \in at : x <= y
      BY <2>1
    <3> HIDE DEF at
    <3> QED  BY <3>1 DEF Min
  <2> DEFINE m == Min(at)
  <2>3. m \in DOMAIN turns /\ turns[m].ts # 0 /\ FirstTs(turns) = turns[m].ts
    BY <1>2, <1>4, <2>2
  <2>4. \A j \in at : m <= j
    BY <2>2
  <2> HIDE DEF m
  <2>5. ASSUME NEW d \in Dated(turns) PROVE turns[m].ts <= d
    <3>1. PICK j \in DOMAIN turns : d = turns[j].ts /\ d # 0
      BY DEF Dated
    <3>2. m <= j
      BY <2>4, <3>1
    <3> QED  BY <1>1, <2>3, <3>1, <3>2 DEF InOrder
  <2>6. FirstTs(turns) \in Dated(turns) /\ FirstTs(turns) \in Nat \ {0}
    BY <1>1, <2>3 DEF Dated
  <2> QED  BY <2>3, <2>5, <2>6
<1> QED  BY <1>3, <1>4

LEMMA ThreadIs ==
  ASSUME NEW entries \in Seq(Entries)
  PROVE  /\ ThreadOf(entries) \in [turns: Seq(AnyTurns), blocked: CallIds \cup {None}, upto: Nat]
         /\ ThreadOf(entries).upto = Len(entries)
<1> DEFINE start == TailStart(entries, InboxTail)
           uses == Places(entries, start, "use")
<1> USE PagesAssumption
<1>1. start \in 0..Len(entries) /\ Len(entries) \in Nat
  BY StartIs
<1> HIDE DEF start
<1>2. BlockedOn(entries, start) \in CallIds \cup {None}
  <2>1. CASE uses = {}
    BY <2>1 DEF BlockedOn
  <2>2. CASE uses # {}
    <3>1. uses \in SUBSET (1..Len(entries))
      BY <1>1 DEF Places
    <3> HIDE DEF uses
    <3>2. PICK i \in uses : \A j \in uses : j <= i
      BY <1>1, <2>2, <3>1, GreatestExists
    <3>3. \E x \in uses : \A y \in uses : x >= y
      BY <3>1, <3>2
    <3>4. Max(uses) \in uses
      BY <3>3 DEF Max
    <3>5. \A k \in uses : entries[k] \in Entries
      BY <3>1
    <3>6. entries[Max(uses)].call \in CallIds \cup {None}
      BY <3>4, <3>5 DEF Entries
    <3> QED  BY <3>6 DEF BlockedOn, uses
  <2> QED  BY <2>1, <2>2
<1>3. ThreadOf(entries) = [turns |-> ThreadOf(entries).turns, blocked |-> BlockedOn(entries, start), upto |-> Len(entries)]
  BY DEF ThreadOf, start
<1>4. ThreadOf(entries).turns \in Seq(AnyTurns)
  BY ThreadIsWindow
<1> QED  BY <1>1, <1>2, <1>3, <1>4

LEMMA InitPageInv == PageInit => PageInv
<1> SUFFICES ASSUME PageInit PROVE PageInv
  OBVIOUS
<1> USE DEF PageInit
<1>1. <<>> \in Seq(Entries) /\ <<>> \in Seq(AnyTurns) /\ Len(<<>>) = 0
  OBVIOUS
<1>2. PageTyped
  BY <1>1 DEF PageTyped, NoThread, NoOlder, NoFetch
<1>3. CallsSound /\ ThreadSound
  BY <1>1 DEF CallsSound, ThreadSound, NoThread
<1>4. older.open = FALSE /\ older.turns = <<>> /\ fetch.pc = "idle" /\ older = NoOlder
  BY DEF NoOlder, NoFetch
<1>5. OlderSound /\ FetchSound /\ StillSound
  BY <1>4 DEF OlderSound, FetchSound, StillSound, InOrder
<1> QED  BY <1>2, <1>3, <1>5 DEF PageInv

LEMMA WritesKeepPages ==
  ASSUME PageInv, NEW kind \in {"you", "agent", "use", "result"}, NEW call \in CallIds \cup {None},
         AgentWrites(kind, call)
  PROVE  PageInv'
<1> DEFINE e == [kind |-> kind, call |-> call]
           n == Len(dialogue)
<1> USE PagesAssumption
<1>1. /\ dialogue' = Append(dialogue, e) /\ thread' = thread /\ older' = older
      /\ fetch' = [fetch EXCEPT !.grown = older.open] /\ e \in Entries
  BY DEF AgentWrites, Entries
<1>2. dialogue \in Seq(Entries) /\ n \in Nat /\ DOMAIN dialogue = 1..n
  BY DEF PageInv, PageTyped
<1>3. /\ dialogue' \in Seq(Entries) /\ Len(dialogue') = n + 1 /\ DOMAIN dialogue' = 1..(n + 1)
      /\ dialogue'[n + 1] = e /\ \A i \in 1..n : dialogue'[i] = dialogue[i]
  BY <1>1, <1>2
<1>4. /\ fetch'.pc = fetch.pc /\ fetch'.before = fetch.before /\ fetch'.page = fetch.page
      /\ fetch'.more = fetch.more /\ fetch'.grown = older.open
      /\ older.open \in BOOLEAN /\ fetch' \in [pc: {"idle", "sent", "answered"}, before: Nat, page: Seq(AnyTurns),
                more: BOOLEAN, grown: BOOLEAN]
  BY <1>1 DEF PageInv, PageTyped
<1>5. PageTyped'
  BY <1>1, <1>3, <1>4 DEF PageInv, PageTyped
<1>6. CallsSound'
  <2>1. /\ \A i, j \in 1..n :
             dialogue[i].kind = "use" /\ dialogue[j].kind = "use" /\ dialogue[i].call = dialogue[j].call => i = j
        /\ \A j \in 1..n : dialogue[j].kind = "result" =>
             \E i \in 1..(j - 1) : dialogue[i].kind = "use" /\ dialogue[i].call = dialogue[j].call
        /\ \A i \in 1..n : dialogue[i].kind = "use" => dialogue[i].call # None
    BY <1>2 DEF PageInv, CallsSound
  <2>2. e.kind = kind /\ e.call = call
    OBVIOUS
  <2>3. kind = "use" => call \in Unused
    BY DEF AgentWrites
  <2>4. kind = "use" => call # None /\ \A i \in 1..n : dialogue[i].call # call
    BY <1>2, <2>3 DEF Unused
  <2>5. kind = "result" => call \in Outstanding
    BY DEF AgentWrites
  <2>6. kind = "result" => \E i \in 1..n : dialogue[i].kind = "use" /\ dialogue[i].call = call
    <3> SUFFICES ASSUME kind = "result" PROVE \E i \in 1..n : dialogue[i].kind = "use" /\ dialogue[i].call = call
      OBVIOUS
    <3>1. PICK i \in 1..n : dialogue[i] = [kind |-> "use", call |-> call]
      BY <1>2, <2>5 DEF Outstanding
    <3> QED  BY <3>1
  <2> HIDE DEF e, n
  <2>7. \A i, j \in 1..(n + 1) :
          dialogue'[i].kind = "use" /\ dialogue'[j].kind = "use" /\ dialogue'[i].call = dialogue'[j].call => i = j
    <3> SUFFICES ASSUME NEW i \in 1..(n + 1), NEW j \in 1..(n + 1), dialogue'[i].kind = "use",
                        dialogue'[j].kind = "use", dialogue'[i].call = dialogue'[j].call
                 PROVE  i = j
      OBVIOUS
    <3>1. CASE i \in 1..n /\ j \in 1..n
      BY <1>3, <2>1, <3>1
    <3>2. CASE i \in 1..n /\ j = n + 1
      BY <1>3, <2>2, <2>4, <3>2
    <3>3. CASE i = n + 1 /\ j \in 1..n
      BY <1>3, <2>2, <2>4, <3>3
    <3> QED  BY <1>2, <3>1, <3>2, <3>3 DEF n
  <2>8. \A j \in 1..(n + 1) : dialogue'[j].kind = "result" =>
          \E i \in 1..(j - 1) : dialogue'[i].kind = "use" /\ dialogue'[i].call = dialogue'[j].call
    <3> SUFFICES ASSUME NEW j \in 1..(n + 1), dialogue'[j].kind = "result"
                 PROVE  \E i \in 1..(j - 1) : dialogue'[i].kind = "use" /\ dialogue'[i].call = dialogue'[j].call
      OBVIOUS
    <3>1. CASE j \in 1..n
      <4>1. PICK i \in 1..(j - 1) : dialogue[i].kind = "use" /\ dialogue[i].call = dialogue[j].call
        BY <1>3, <2>1, <3>1
      <4>2. i \in 1..n
        BY <1>2, <3>1 DEF n
      <4> QED  BY <1>3, <3>1, <4>1, <4>2
    <3>2. CASE j = n + 1
      <4>1. PICK i \in 1..n : dialogue[i].kind = "use" /\ dialogue[i].call = call
        BY <1>3, <2>2, <2>6, <3>2
      <4>2. i \in 1..(j - 1)
        BY <1>2, <3>2 DEF n
      <4> QED  BY <1>3, <2>2, <3>2, <4>1, <4>2
    <3> QED  BY <1>2, <3>1, <3>2 DEF n
  <2>9. \A i \in 1..(n + 1) : dialogue'[i].kind = "use" => dialogue'[i].call # None
    <3> TAKE i \in 1..(n + 1)
    <3>1. CASE i \in 1..n
      BY <1>3, <2>1, <3>1
    <3>2. CASE i = n + 1
      BY <1>3, <2>2, <2>4, <3>2
    <3> QED  BY <1>2, <3>1, <3>2 DEF n
  <2> QED  BY <1>3, <2>7, <2>8, <2>9 DEF CallsSound
<1>7. \A m \in 0..n : SubSeq(dialogue', 1, m) = SubSeq(dialogue, 1, m)
  BY <1>1, <1>2
<1>8. ThreadSound'
  <2>1. thread.upto \in Nat /\ thread.upto <= n
    BY DEF PageInv, PageTyped, ThreadSound
  <2>2. SubSeq(dialogue', 1, thread.upto) = SubSeq(dialogue, 1, thread.upto)
    BY <1>2, <1>7, <2>1
  <2> HIDE DEF n
  <2>3. thread'.upto <= Len(dialogue')
    BY <1>1, <1>2, <1>3, <2>1
  <2>4. SubSeq(dialogue', 1, thread'.upto) = SubSeq(dialogue, 1, thread.upto)
    BY <1>1, <2>2
  <2>5. thread = NoThread \/ thread = ThreadOf(SubSeq(dialogue, 1, thread.upto))
    BY DEF PageInv, ThreadSound
  <2>6. thread' = NoThread \/ thread' = ThreadOf(SubSeq(dialogue', 1, thread'.upto))
    BY <1>1, <2>4, <2>5, Zenon
  <2> QED  BY <2>3, <2>6 DEF ThreadSound
<1>9. ASSUME older.open, NEW i \in LatestTurns(dialogue') PROVE i >= older.boundary
  <2>1. older.boundary \in Nat /\ older.boundary <= n /\ \A j \in LatestTurns(dialogue) : j >= older.boundary
    BY <1>9 DEF PageInv, PageTyped, OlderSound
  <2>2. i \in 1..(n + 1)
    BY <1>3, <1>9 DEF LatestTurns, Said
  <2>3. CASE i \in 1..n
    <3>1. n \in 0..Len(dialogue') /\ i <= n
      BY <1>2, <1>3, <2>3
    <3>2. i \in LatestTurns(SubSeq(dialogue', 1, n))
      BY <1>3, <1>9, <3>1, WindowSlides
    <3>3. SubSeq(dialogue', 1, n) = dialogue
      BY <1>2, <1>7
    <3> QED  BY <2>1, <3>2, <3>3
  <2>4. CASE i = n + 1
    BY <1>2, <2>1, <2>4
  <2> QED  BY <1>2, <2>2, <2>3, <2>4
<1>10. OlderSound'
  <2> HIDE DEF n, e
  <2>1. older.open => older.boundary <= n + 1
    BY <1>2 DEF PageInv, PageTyped, OlderSound, n
  <2> QED  BY <1>1, <1>3, <1>4, <1>9, <2>1 DEF PageInv, OlderSound
<1>11. FetchSound'
  BY <1>1, <1>4 DEF PageInv, FetchSound
<1>12. StillSound'
  BY <1>1, <1>4 DEF StillSound
<1> QED  BY <1>5, <1>6, <1>8, <1>10, <1>11, <1>12 DEF PageInv

LEMMA PushKeepsPages == PageInv /\ PushThread => PageInv'
<1> SUFFICES ASSUME PageInv, PushThread PROVE PageInv'
  OBVIOUS
<1>1. thread' = ThreadOf(dialogue) /\ thread' # thread /\ dialogue' = dialogue /\ older' = older /\ fetch' = fetch
  BY DEF PushThread
<1>2. dialogue \in Seq(Entries) /\ Len(dialogue) \in Nat
  BY DEF PageInv, PageTyped
<1>3. PageTyped'
  BY <1>1, <1>2, ThreadIs DEF PageInv, PageTyped
<1>4. CallsSound' /\ FetchSound'
  BY <1>1 DEF PageInv, CallsSound, FetchSound
<1>5. ThreadSound'
  <2>1. thread'.upto = Len(dialogue) /\ SubSeq(dialogue, 1, Len(dialogue)) = dialogue
    BY <1>1, <1>2, ThreadIs
  <2>2. SubSeq(dialogue', 1, thread'.upto) = dialogue
    BY <1>1, <2>1
  <2>3. thread' = ThreadOf(SubSeq(dialogue', 1, thread'.upto))
    BY <1>1, <2>2, Zenon
  <2>4. thread'.upto <= Len(dialogue')
    BY <1>1, <1>2, <2>1
  <2> QED  BY <2>3, <2>4 DEF ThreadSound
<1>6. OlderSound'
  <2>1. Dated(thread'.turns) = LatestTurns(dialogue)
    BY <1>1, <1>2, ThreadIsWindow
  <2> QED  BY <1>1, <2>1 DEF PageInv, OlderSound
<1>7. StillSound'
  BY <1>1 DEF PageInv, StillSound
<1> QED  BY <1>3, <1>4, <1>5, <1>6, <1>7 DEF PageInv

LEMMA ServeKeepsPages == PageInv /\ ServeHistory => PageInv'
<1> SUFFICES ASSUME PageInv, ServeHistory PROVE PageInv'
  OBVIOUS
<1> DEFINE start == TailStart(dialogue, DeepTail)
           turns == DialogueTurns(dialogue, start)
           at == CutAt(turns, fetch.before)
           cut == IF at = {} THEN Len(turns) ELSE Min(at) - 1
           first == IF cut > PageTurns THEN cut - PageTurns ELSE 0
           page == SubSeq(turns, first + 1, cut)
<1> USE PagesAssumption
<1>1. /\ dialogue' = dialogue /\ thread' = thread /\ older' = older /\ fetch.pc = "sent"
      /\ fetch' = [fetch EXCEPT !.pc = "answered", !.page = page, !.more = first > 0]
  BY DEF ServeHistory
<1>2. dialogue \in Seq(Entries) /\ start \in 0..Len(dialogue) /\ Len(dialogue) \in Nat
  <2>1. dialogue \in Seq(Entries) /\ DeepTail \in Nat
    BY DEF PageInv, PageTyped
  <2>2. start \in 0..Len(dialogue)
    BY <2>1, StartIs
  <2> QED  BY <2>1, <2>2
<1>3. /\ fetch \in [pc: {"idle", "sent", "answered"}, before: Nat, page: Seq(AnyTurns), more: BOOLEAN, grown: BOOLEAN]
      /\ fetch.before \in Nat
  BY DEF PageInv, PageTyped
<1> HIDE DEF start
<1>4. /\ turns \in Seq(AnyTurns) /\ InOrder(turns)
      /\ Dated(turns) = {i \in Said(dialogue) : start < i /\ i <= Len(dialogue)}
  BY <1>2, DialogueIsSaid DEF TurnsSound
<1> HIDE DEF turns
<1>5. /\ Len(turns) \in Nat /\ DOMAIN turns = 1..Len(turns)
      /\ \A i \in DOMAIN turns : turns[i] \in AnyTurns
  BY <1>4
<1>6. \A i \in DOMAIN turns : turns[i].ts \in Nat
  BY <1>5 DEF AnyTurns
<1>7. /\ cut \in 0..Len(turns)
      /\ \A i \in DOMAIN turns : i > cut => \E j \in at : j <= i
      /\ \A i \in at : i > cut
  <2>1. at \in SUBSET (1..Len(turns))
    BY <1>5 DEF CutAt
  <2>2. CASE at = {}
    BY <1>5, <2>2
  <2>3. CASE at # {}
    <3> HIDE DEF at
    <3>1. PICK i \in at : \A j \in at : i <= j
      BY <1>5, <2>1, <2>3, LeastExists
    <3>2. \E x \in at : \A y \in at : x <= y
      BY <3>1
    <3>3. Min(at) \in at /\ \A j \in at : Min(at) <= j
      BY <3>2 DEF Min
    <3> DEFINE m == Min(at)
    <3>4. m \in at /\ (\A j \in at : m <= j) /\ cut = m - 1
      BY <2>3, <3>3
    <3> HIDE DEF m, cut
    <3> QED  BY <1>5, <2>1, <3>4
  <2> QED  BY <2>2, <2>3
<1>8. \A i \in DOMAIN turns : i \in at <=> turns[i].ts # 0 /\ turns[i].ts >= fetch.before
  BY DEF CutAt
<1> HIDE DEF at, cut
<1>9. first \in 0..Len(turns) /\ first <= cut /\ (first > 0) \in BOOLEAN /\ (first = cut => cut = 0)
  BY <1>5, <1>7
<1> HIDE DEF first
<1>10. /\ page \in Seq(AnyTurns) /\ InOrder(page)
       /\ \A d : d \in Dated(page) <=> d # 0 /\ \E i \in (first + 1)..cut : turns[i].ts = d
  BY <1>4, <1>7, <1>9, SliceInOrder
<1> HIDE DEF page
<1>11. /\ fetch'.pc = "answered" /\ fetch'.page = page /\ fetch'.more = (first > 0)
       /\ fetch'.before = fetch.before /\ fetch'.grown = fetch.grown
       /\ fetch' \in [pc: {"idle", "sent", "answered"}, before: Nat, page: Seq(AnyTurns), more: BOOLEAN, grown: BOOLEAN]
  BY <1>1, <1>3, <1>9, <1>10
<1>12. PageTyped'
  BY <1>1, <1>11 DEF PageInv, PageTyped
<1>13. CallsSound' /\ ThreadSound'
  BY <1>1 DEF PageInv, CallsSound, ThreadSound
<1>14. OlderSound'
  BY <1>1 DEF PageInv, OlderSound
<1>15. ASSUME NEW i \in (first + 1)..cut, turns[i].ts # 0 PROVE turns[i].ts < fetch.before
  <2>1. i \in DOMAIN turns /\ i \notin at
    BY <1>5, <1>7, <1>9
  <2> QED  BY <1>3, <1>6, <1>8, <1>15, <2>1
<1>16. FetchSound'
  <2>1. \A d \in Dated(page) : d < fetch.before
    BY <1>10, <1>15
  <2>2. older.open /\ older.more /\ fetch.before = BeforeThePage(older)
    BY <1>1 DEF PageInv, FetchSound
  <2> QED  BY <1>1, <1>10, <1>11, <2>1, <2>2 DEF FetchSound
\* What was said in the tail before the page is above the cut.
<1>17. ASSUME NEW i \in Said(dialogue), i > start, i < fetch.before
       PROVE  \E p \in 1..cut : turns[p].ts = i
  <2>1. i \in Dated(turns) /\ i \in Nat
    BY <1>2, <1>4, <1>17 DEF Said
  <2>2. PICK p \in DOMAIN turns : turns[p].ts = i /\ i # 0
    BY <2>1 DEF Dated
  <2>3. ASSUME p > cut PROVE FALSE
    <3>1. PICK j \in at : j <= p
      BY <1>7, <2>3
    <3>2. j \in DOMAIN turns
      BY DEF at, CutAt
    <3>3. turns[j].ts # 0 /\ turns[j].ts >= fetch.before
      BY <1>8, <3>2
    <3>4. CASE j = p
      BY <1>3, <1>17, <2>1, <2>2, <3>3, <3>4
    <3>5. CASE j < p
      <4>1. turns[j].ts < turns[p].ts
        BY <1>4, <2>2, <3>2, <3>3, <3>5 DEF InOrder
      <4> QED  BY <1>3, <1>6, <1>17, <2>1, <2>2, <3>2, <3>3, <4>1
    <3> QED  BY <1>5, <3>1, <3>2, <3>4, <3>5
  <2>4. p \in 1..cut
    BY <1>5, <1>7, <2>3
  <2> QED  BY <2>2, <2>4
<1>18. NoGap(Dated(page), fetch.before)
  <2> SUFFICES ASSUME NEW d \in Dated(page), NEW i \in Said(dialogue), d <= i, i < fetch.before
               PROVE  i \in Dated(page)
    BY DEF NoGap
  <2>1. PICK q \in (first + 1)..cut : turns[q].ts = d /\ d # 0
    BY <1>10
  <2>2. q \in DOMAIN turns /\ d \in Nat /\ i \in Nat
    <3>1. q \in DOMAIN turns
      BY <1>5, <1>7, <1>9
    <3>2. d \in Nat
      BY <1>6, <2>1, <3>1
    <3>3. i \in Nat
      BY <1>2 DEF Said
    <3> QED  BY <3>1, <3>2, <3>3
  <2>3. d \in Dated(turns)
    BY <2>1, <2>2 DEF Dated
  <2>4. i > start /\ i # 0
    BY <1>2, <1>4, <2>2, <2>3
  <2>5. PICK p \in 1..cut : turns[p].ts = i
    BY <1>17, <2>4
  <2>6. p \in DOMAIN turns
    BY <1>5, <1>7
  <2>7. ~(p < q)
    <3> SUFFICES ASSUME p < q PROVE FALSE
      OBVIOUS
    <3>1. turns[p].ts < turns[q].ts
      BY <1>4, <2>1, <2>2, <2>4, <2>5, <2>6 DEF InOrder
    <3> QED  BY <2>1, <2>2, <2>5, <3>1
  <2>8. p \in (first + 1)..cut
    BY <1>7, <1>9, <2>2, <2>6, <2>7
  <2> QED  BY <1>10, <2>4, <2>5, <2>8
<1>19. ASSUME ~(first > 0) \/ page = <<>> PROVE ReachesBack(Dated(page), fetch.before)
  <2>1. first = 0
    <3> SUFFICES ASSUME page = <<>> PROVE first = 0
      BY <1>9, <1>19
    <3>1. Len(page) = 0
      OBVIOUS
    <3>2. ~(first < cut)
      <4> SUFFICES ASSUME first < cut PROVE FALSE
        OBVIOUS
      <4>1. Len(SubSeq(turns, first + 1, cut)) = cut - first
        BY <1>4, <1>5, <1>7, <1>9
      <4> QED  BY <1>5, <1>7, <1>9, <3>1, <4>1 DEF page
    <3> QED  BY <1>5, <1>7, <1>9, <3>2
  <2> SUFFICES ASSUME NEW i \in Said(dialogue), i > start, i < fetch.before PROVE i \in Dated(page)
    BY DEF ReachesBack, start
  <2>2. PICK p \in 1..cut : turns[p].ts = i
    BY <1>17
  <2>3. i # 0 /\ p \in (first + 1)..cut
    BY <1>7, <2>1, <1>2 DEF Said
  <2> QED  BY <1>10, <2>2, <2>3
<1>20. StillSound'
  <2> SUFFICES ASSUME older.open, ~fetch.grown
               PROVE  /\ thread = ThreadOf(dialogue)
                      /\ older.boundary = FirstTs(thread.turns)
                      /\ NoGap(Dated(older.turns), older.boundary)
                      /\ ~older.more => ReachesBack(Dated(older.turns), older.boundary)
                      /\ NoGap(Dated(page), fetch.before)
                      /\ ~(first > 0) \/ page = <<>> => ReachesBack(Dated(page), fetch.before)
    BY <1>1, <1>11 DEF StillSound, NoGap, ReachesBack
  <2> QED  BY <1>18, <1>19 DEF PageInv, StillSound
<1> QED  BY <1>12, <1>13, <1>14, <1>16, <1>20 DEF PageInv

LEMMA LoadKeepsPages == PageInv /\ LoadOlder => PageInv'
<1> SUFFICES ASSUME PageInv, LoadOlder PROVE PageInv'
  OBVIOUS
<1>1. dialogue' = dialogue /\ thread' = thread /\ fetch.pc = "idle" /\ thread # NoThread
  BY DEF LoadOlder
<1>2. /\ dialogue \in Seq(Entries) /\ Len(dialogue) \in Nat
      /\ thread \in [turns: Seq(AnyTurns), blocked: CallIds \cup {None}, upto: Nat] /\ thread.upto \in Nat
      /\ older \in [open: BOOLEAN, turns: Seq(AnyTurns), more: BOOLEAN, boundary: Nat]
      /\ fetch \in [pc: {"idle", "sent", "answered"}, before: Nat, page: Seq(AnyTurns), more: BOOLEAN, grown: BOOLEAN]
  BY DEF PageInv, PageTyped
<1>3. CallsSound' /\ ThreadSound'
  BY <1>1 DEF PageInv, CallsSound, ThreadSound
<1>4. CASE older.open
  <2>1. older.more /\ older' = older
        /\ fetch' = [fetch EXCEPT !.pc = "sent", !.before = BeforeThePage(older), !.grown = fetch.grown]
    BY <1>4 DEF LoadOlder
  <2>2. BeforeThePage(older) \in Nat
    <3>1. older.turns \in Seq(AnyTurns) /\ older.boundary \in Nat /\ InOrder(older.turns)
      BY <1>2 DEF PageInv, OlderSound
    <3>2. FirstTs(older.turns) \in Nat
      BY <3>1, FirstIs
    <3> QED  BY <3>1, <3>2 DEF BeforeThePage
  <2>3. /\ fetch'.pc = "sent" /\ fetch'.before = BeforeThePage(older) /\ fetch'.grown = fetch.grown
        /\ fetch' \in [pc: {"idle", "sent", "answered"}, before: Nat, page: Seq(AnyTurns), more: BOOLEAN, grown: BOOLEAN]
    BY <1>2, <2>1, <2>2
  <2>4. PageTyped'
    BY <1>1, <1>2, <2>1, <2>3 DEF PageTyped
  <2>5. OlderSound'
    BY <1>1, <1>4, <2>1 DEF PageInv, OlderSound
  <2>6. FetchSound'
    BY <1>4, <2>1, <2>3 DEF FetchSound
  <2>7. StillSound'
    BY <1>1, <1>4, <2>1, <2>3 DEF PageInv, StillSound, NoGap, ReachesBack
  <2> QED  BY <1>3, <2>4, <2>5, <2>6, <2>7 DEF PageInv
<1>5. CASE ~older.open
  <2> DEFINE b == FirstTs(thread.turns)
             old == [NoOlder EXCEPT !.open = TRUE, !.boundary = b, !.more = b # 0]
  <2>1. /\ older' = old
        /\ fetch' = [fetch EXCEPT !.pc = IF old.more THEN "sent" ELSE "idle", !.before = BeforeThePage(old),
                        !.grown = thread.upto # Len(dialogue)]
    BY <1>5 DEF LoadOlder
  <2>2. thread = ThreadOf(SubSeq(dialogue, 1, thread.upto)) /\ thread.upto <= Len(dialogue)
    BY <1>1 DEF PageInv, ThreadSound
  <2> DEFINE prefix == SubSeq(dialogue, 1, thread.upto)
  <2>3. prefix \in Seq(Entries) /\ Len(prefix) = thread.upto /\ thread.upto \in 0..Len(dialogue)
    BY <1>2, <2>2
  <2>4. thread.turns \in Seq(AnyTurns) /\ InOrder(thread.turns) /\ Dated(thread.turns) = LatestTurns(prefix)
    <3> HIDE DEF prefix
    <3>1. thread = ThreadOf(prefix)
      BY <2>2 DEF prefix
    <3> QED  BY <2>3, <3>1, ThreadIsWindow
  <2>5. \/ b = 0 /\ Dated(thread.turns) = {}
        \/ b \in Dated(thread.turns) /\ b \in Nat \ {0} /\ \A d \in Dated(thread.turns) : b <= d
    BY <2>4, FirstIs
  <2> HIDE DEF b
  <2>6. b \in Nat /\ (b # 0) \in BOOLEAN
    BY <2>5
  <2>7. old \in [open: BOOLEAN, turns: Seq(AnyTurns), more: BOOLEAN, boundary: Nat]
    <3> DEFINE more == b # 0
    <3>1. NoOlder \in [open: BOOLEAN, turns: Seq(AnyTurns), more: BOOLEAN, boundary: Nat]
      BY DEF NoOlder
    <3>2. more \in BOOLEAN
      OBVIOUS
    <3> HIDE DEF more
    <3>3. [NoOlder EXCEPT !.open = TRUE, !.boundary = b, !.more = more]
            \in [open: BOOLEAN, turns: Seq(AnyTurns), more: BOOLEAN, boundary: Nat]
      BY <2>6, <3>1, <3>2
    <3> QED  BY <3>3 DEF more
  <2>8. old.open = TRUE /\ old.turns = <<>> /\ old.more = (b # 0) /\ old.boundary = b
    BY DEF NoOlder
  <2>10. FirstTs(<<>>) = 0 /\ Dated(<<>>) = {} /\ InOrder(<<>>)
    BY DEF FirstTs, Dated, InOrder
  <2>11. BeforeThePage(old) = b
    BY <2>8, <2>10 DEF BeforeThePage
  <2> HIDE DEF old
  <2>12. /\ fetch'.pc = (IF b # 0 THEN "sent" ELSE "idle") /\ fetch'.before = b
         /\ fetch'.grown = (thread.upto # Len(dialogue))
         /\ fetch' \in [pc: {"idle", "sent", "answered"}, before: Nat, page: Seq(AnyTurns), more: BOOLEAN, grown: BOOLEAN]
    BY <1>2, <2>1, <2>6, <2>8, <2>11
  <2>13. PageTyped'
    BY <1>1, <1>2, <2>1, <2>7, <2>12 DEF PageTyped
  <2>14. b <= Len(dialogue)
    <3>1. \A d \in LatestTurns(prefix) : d \in 1..thread.upto
      <4> HIDE DEF prefix
      <4>1. DOMAIN prefix = 1..thread.upto
        BY <2>3
      <4> QED  BY <4>1 DEF LatestTurns, Said
    <3> QED  BY <1>2, <2>2, <2>4, <2>5, <3>1
  <2>15. ASSUME NEW i \in LatestTurns(dialogue) PROVE i >= b
    <3>1. i \in Nat
      BY DEF LatestTurns, Said
    <3>2. CASE i <= thread.upto
      <4>1. i \in LatestTurns(prefix)
        BY <1>2, <2>3, <2>15, <3>2, WindowSlides
      <4> QED  BY <2>4, <2>5, <3>1, <4>1
    <3>3. CASE i > thread.upto
      <4>1. \A d \in LatestTurns(prefix) : d \in 1..thread.upto
        <5> HIDE DEF prefix
        <5>1. DOMAIN prefix = 1..thread.upto
          BY <2>3
        <5> QED  BY <5>1 DEF LatestTurns, Said
      <4> QED  BY <1>2, <2>4, <2>5, <3>1, <3>3, <4>1
    <3> QED  BY <1>2, <3>1, <3>2, <3>3
  <2>16. \A d \in Dated(thread.turns) : d >= b
    BY <2>4, <2>5, <2>6
  <2>17. OlderSound'
    BY <1>1, <2>1, <2>8, <2>10, <2>14, <2>15, <2>16 DEF OlderSound
  <2>18. FetchSound'
    BY <2>1, <2>8, <2>11, <2>12 DEF FetchSound
  <2>19. StillSound'
    <3> SUFFICES ASSUME thread.upto = Len(dialogue)
                 PROVE  /\ thread = ThreadOf(dialogue)
                        /\ NoGap({}, b) /\ (b = 0 => ReachesBack({}, b))
      BY <1>1, <2>1, <2>8, <2>10, <2>12 DEF StillSound, NoGap, ReachesBack, b
    <3>1. SubSeq(dialogue, 1, thread.upto) = dialogue
      BY <1>2
    <3>2. thread = ThreadOf(dialogue)
      BY <2>2, <3>1
    <3>3. \A i \in Said(dialogue) : i \in Nat
      BY DEF Said
    <3> QED  BY <3>2, <3>3 DEF NoGap, ReachesBack
  <2> QED  BY <1>3, <2>13, <2>17, <2>18, <2>19 DEF PageInv
<1> QED  BY <1>4, <1>5

\* Two parts of the page, one before the other.
LEMMA JoinIs ==
  ASSUME NEW a \in Seq(AnyTurns), NEW b \in Seq(AnyTurns)
  PROVE  /\ a \o b \in Seq(AnyTurns)
         /\ Dated(a \o b) = Dated(a) \cup Dated(b)
         /\ InOrder(a) /\ InOrder(b) /\ (\A x \in Dated(a), y \in Dated(b) : x < y) => InOrder(a \o b)
<1> DEFINE both == a \o b
           m == Len(a)
           n == Len(b)
<1>1. /\ m \in Nat /\ n \in Nat /\ DOMAIN a = 1..m /\ DOMAIN b = 1..n
      /\ both \in Seq(AnyTurns) /\ DOMAIN both = 1..(m + n)
      /\ \A i \in 1..m : both[i] = a[i]
      /\ \A i \in 1..n : both[m + i] = b[i]
  OBVIOUS
<1>2. /\ \A i \in 1..m : a[i] \in AnyTurns
      /\ \A i \in 1..n : b[i] \in AnyTurns
  BY <1>1
<1> HIDE DEF both, m, n
<1>3. \A i \in 1..(m + n) : i \in 1..m \/ \E k \in 1..n : i = m + k
  <2> TAKE i \in 1..(m + n)
  <2>1. i \in 1..m \/ (i - m \in 1..n /\ i = m + (i - m))
    BY <1>1
  <2> QED  BY <2>1
<1>4. \A k \in 1..n : m + k \in 1..(m + n)
  BY <1>1
<1>5. \A i \in 1..m : i \in 1..(m + n)
  BY <1>1
<1>6. Dated(both) = Dated(a) \cup Dated(b)
  <2>1. ASSUME NEW d \in Dated(both) PROVE d \in Dated(a) \cup Dated(b)
    <3>1. PICK i \in 1..(m + n) : both[i].ts = d /\ d # 0
      BY <1>1, <2>1 DEF Dated
    <3>2. CASE i \in 1..m
      BY <1>1, <3>1, <3>2 DEF Dated
    <3>3. CASE \E k \in 1..n : i = m + k
      <4>1. PICK k \in 1..n : i = m + k
        BY <3>3
      <4>2. b[k].ts = d
        BY <1>1, <3>1, <4>1
      <4> QED  BY <1>1, <3>1, <4>2 DEF Dated
    <3> QED  BY <1>3, <3>2, <3>3
  <2>2. ASSUME NEW d \in Dated(a) PROVE d \in Dated(both)
    <3>1. PICK i \in 1..m : a[i].ts = d /\ d # 0
      BY <1>1, <2>2 DEF Dated
    <3>2. i \in DOMAIN both /\ both[i].ts = d
      BY <1>1, <1>5, <3>1
    <3> QED  BY <3>1, <3>2 DEF Dated
  <2>3. ASSUME NEW d \in Dated(b) PROVE d \in Dated(both)
    <3>1. PICK i \in 1..n : b[i].ts = d /\ d # 0
      BY <1>1, <2>3 DEF Dated
    <3>2. m + i \in DOMAIN both /\ both[m + i].ts = d
      BY <1>1, <1>4, <3>1
    <3> QED  BY <3>1, <3>2 DEF Dated
  <2> QED  BY <2>1, <2>2, <2>3
<1>7. ASSUME InOrder(a), InOrder(b), \A x \in Dated(a), y \in Dated(b) : x < y PROVE InOrder(both)
  <2> SUFFICES ASSUME NEW i \in 1..(m + n), NEW j \in 1..(m + n), i < j, both[i].ts # 0, both[j].ts # 0
               PROVE  both[i].ts < both[j].ts
    BY <1>1 DEF InOrder
  <2>1. CASE j \in 1..m
    <3>1. i \in 1..m
      BY <1>1, <2>1
    <3>2. both[i] = a[i] /\ both[j] = a[j] /\ i \in DOMAIN a /\ j \in DOMAIN a
      BY <1>1, <2>1, <3>1
    <3>3. a[i].ts < a[j].ts
      BY <1>7, <3>2 DEF InOrder
    <3> QED  BY <3>2, <3>3
  <2>2. CASE \E k \in 1..n : j = m + k
    <3>1. PICK k \in 1..n : j = m + k
      BY <2>2
    <3>2. both[j] = b[k] /\ k \in DOMAIN b
      BY <1>1, <3>1
    <3>3. CASE i \in 1..m
      <4>1. both[i] = a[i] /\ i \in DOMAIN a
        BY <1>1, <3>3
      <4>2. both[i].ts \in Dated(a) /\ both[j].ts \in Dated(b)
        BY <3>2, <4>1 DEF Dated
      <4> QED  BY <1>7, <4>2
    <3>4. CASE \E l \in 1..n : i = m + l
      <4>1. PICK l \in 1..n : i = m + l
        BY <3>4
      <4>2. both[i] = b[l] /\ l \in DOMAIN b /\ l < k
        BY <1>1, <3>1, <4>1
      <4>3. b[l].ts < b[k].ts
        BY <1>7, <3>2, <4>2 DEF InOrder
      <4> QED  BY <3>2, <4>2, <4>3
    <3> QED  BY <1>3, <3>3, <3>4
  <2> QED  BY <1>3, <2>1, <2>2
<1> QED  BY <1>1, <1>6, <1>7 DEF both

LEMMA NothingDated == FirstTs(<<>>) = 0 /\ Dated(<<>>) = {} /\ InOrder(<<>>) /\ <<>> \in Seq(AnyTurns)
BY DEF FirstTs, Dated, InOrder

\* The thread is in order.
LEMMA ThreadInOrder == PageInv => thread.turns \in Seq(AnyTurns) /\ InOrder(thread.turns)
<1> SUFFICES ASSUME PageInv PROVE thread.turns \in Seq(AnyTurns) /\ InOrder(thread.turns)
  OBVIOUS
<1>1. CASE thread = NoThread
  BY <1>1, NothingDated DEF NoThread
<1>2. CASE thread # NoThread
  <2> DEFINE prefix == SubSeq(dialogue, 1, thread.upto)
  <2>1. dialogue \in Seq(Entries) /\ thread.upto \in Nat /\ thread.upto <= Len(dialogue)
    BY DEF PageInv, PageTyped, ThreadSound
  <2>2. prefix \in Seq(Entries)
    BY <2>1
  <2>3. thread = ThreadOf(prefix)
    BY <1>2 DEF PageInv, ThreadSound
  <2> HIDE DEF prefix
  <2> QED  BY <2>2, <2>3, ThreadIsWindow
<1> QED  BY <1>1, <1>2

\* Where the next page ends.
LEMMA BeforeIs ==
  ASSUME PageInv
  PROVE  /\ BeforeThePage(older) \in Nat
         /\ \/ Dated(older.turns) = {} /\ BeforeThePage(older) = older.boundary
            \/ /\ BeforeThePage(older) \in Dated(older.turns)
               /\ \A d \in Dated(older.turns) : BeforeThePage(older) <= d
<1>1. older.turns \in Seq(AnyTurns) /\ older.boundary \in Nat /\ InOrder(older.turns)
  BY DEF PageInv, PageTyped, OlderSound
<1>2. \/ FirstTs(older.turns) = 0 /\ Dated(older.turns) = {}
      \/ /\ FirstTs(older.turns) \in Dated(older.turns) /\ FirstTs(older.turns) \in Nat \ {0}
         /\ \A d \in Dated(older.turns) : FirstTs(older.turns) <= d
  BY <1>1, FirstIs
<1> QED  BY <1>1, <1>2 DEF BeforeThePage

LEMMA IdleAgain ==
  ASSUME PageInv, fetch' = [NoFetch EXCEPT !.grown = fetch.grown]
  PROVE  /\ fetch' \in [pc: {"idle", "sent", "answered"}, before: Nat, page: Seq(AnyTurns), more: BOOLEAN, grown: BOOLEAN]
         /\ fetch'.pc = "idle" /\ fetch'.grown = fetch.grown
<1>1. fetch.grown \in BOOLEAN
  BY DEF PageInv, PageTyped
<1>2. NoFetch \in [pc: {"idle", "sent", "answered"}, before: Nat, page: Seq(AnyTurns), more: BOOLEAN, grown: BOOLEAN]
  BY DEF NoFetch
<1> QED  BY <1>1, <1>2 DEF NoFetch

LEMMA ArriveKeepsPages == PageInv /\ PageArrives => PageInv'
<1> SUFFICES ASSUME PageInv, PageArrives PROVE PageInv'
  OBVIOUS
<1> DEFINE page == fetch.page
           old == older.turns
           before == BeforeThePage(older)
           all == page \o old
           more == fetch.more /\ page # <<>>
<1>1. /\ fetch.pc = "answered" /\ dialogue' = dialogue /\ thread' = thread
      /\ older' = [older EXCEPT !.turns = all, !.more = more]
      /\ fetch' = [NoFetch EXCEPT !.grown = fetch.grown]
  BY DEF PageArrives
<1>2. /\ fetch' \in [pc: {"idle", "sent", "answered"}, before: Nat, page: Seq(AnyTurns), more: BOOLEAN, grown: BOOLEAN]
      /\ fetch'.pc = "idle" /\ fetch'.grown = fetch.grown
  BY <1>1, IdleAgain
<1>3. /\ older \in [open: BOOLEAN, turns: Seq(AnyTurns), more: BOOLEAN, boundary: Nat]
      /\ page \in Seq(AnyTurns) /\ old \in Seq(AnyTurns) /\ older.boundary \in Nat
  BY DEF PageInv, PageTyped
<1>4. /\ older.open /\ older.more /\ fetch.before = before
      /\ InOrder(page) /\ \A d \in Dated(page) : d < before
  BY <1>1 DEF PageInv, FetchSound
<1>5. /\ InOrder(old) /\ \A d \in Dated(old) : d < older.boundary
      /\ older.boundary # 0 /\ older.boundary <= Len(dialogue)
      /\ \A i \in LatestTurns(dialogue) : i >= older.boundary
      /\ \A d \in Dated(thread.turns) : d >= older.boundary
  BY <1>4 DEF PageInv, OlderSound
<1>6. /\ before \in Nat
      /\ \/ Dated(old) = {} /\ before = older.boundary
         \/ before \in Dated(old) /\ \A d \in Dated(old) : before <= d
  BY BeforeIs
<1>7. more \in BOOLEAN
  OBVIOUS
<1> HIDE DEF before, more
<1>8. \A s \in {page, old} : \A d \in Dated(s) : d \in Nat
  <2> SUFFICES ASSUME NEW s \in {page, old}, NEW d \in Dated(s) PROVE d \in Nat
    OBVIOUS
  <2>1. PICK i \in DOMAIN s : s[i].ts = d
    BY DEF Dated
  <2>2. s[i] \in AnyTurns
    BY <1>3
  <2> QED  BY <2>1, <2>2 DEF AnyTurns
<1>9. all \in Seq(AnyTurns) /\ Dated(all) = Dated(page) \cup Dated(old) /\ InOrder(all)
  <2>1. \A x \in Dated(page), y \in Dated(old) : x < y
    BY <1>4, <1>6, <1>8
  <2> HIDE DEF page, old
  <2> QED  BY <1>3, <1>4, <1>5, <2>1, JoinIs
<1>10. \A d \in Dated(all) : d < older.boundary
  BY <1>3, <1>4, <1>5, <1>6, <1>8, <1>9
<1> HIDE DEF all
<1>11. /\ older' \in [open: BOOLEAN, turns: Seq(AnyTurns), more: BOOLEAN, boundary: Nat]
       /\ older'.open = older.open /\ older'.turns = all /\ older'.more = more /\ older'.boundary = older.boundary
  BY <1>1, <1>3, <1>7, <1>9
<1>12. PageTyped'
  BY <1>1, <1>2, <1>11 DEF PageInv, PageTyped
<1>13. CallsSound' /\ ThreadSound'
  BY <1>1 DEF PageInv, CallsSound, ThreadSound
<1>14. OlderSound'
  BY <1>1, <1>4, <1>5, <1>9, <1>10, <1>11 DEF OlderSound
<1>15. FetchSound'
  BY <1>2 DEF FetchSound
<1>16. ASSUME older.open, ~fetch.grown
       PROVE  /\ thread = ThreadOf(dialogue) /\ older.boundary = FirstTs(thread.turns)
              /\ NoGap(Dated(old), older.boundary) /\ NoGap(Dated(page), before)
              /\ ~fetch.more \/ page = <<>> => ReachesBack(Dated(page), before)
  BY <1>1, <1>4, <1>16 DEF PageInv, StillSound
<1>17. \A i \in Said(dialogue) : i \in Nat
  <2>1. dialogue \in Seq(Entries)
    BY DEF PageInv, PageTyped
  <2> QED  BY <2>1 DEF Said
\* What is said between the page that arrives and the window is on the page.
<1>18. ASSUME older.open, ~fetch.grown, NEW i \in Said(dialogue), before <= i, i < older.boundary
       PROVE  i \in Dated(old)
  <2>1. before \in Dated(old)
    BY <1>3, <1>6, <1>17, <1>18
  <2> QED  BY <1>16, <1>18, <2>1 DEF NoGap
<1>19. StillSound'
  <2> SUFFICES ASSUME older.open, ~fetch.grown
               PROVE  /\ NoGap(Dated(all), older.boundary)
                      /\ ~more => ReachesBack(Dated(all), older.boundary)
    BY <1>1, <1>2, <1>11, <1>16 DEF StillSound, NoGap, ReachesBack
  <2>1. NoGap(Dated(all), older.boundary)
    <3> SUFFICES ASSUME NEW d \in Dated(all), NEW i \in Said(dialogue), d <= i, i < older.boundary
                 PROVE  i \in Dated(page) \cup Dated(old)
      BY <1>9 DEF NoGap
    <3>1. CASE before <= i
      BY <1>18, <3>1
    <3>2. CASE i < before
      <4>1. CASE d \in Dated(page)
        BY <1>16, <3>2, <4>1 DEF NoGap
      <4>2. CASE d \in Dated(old)
        BY <1>16, <4>2 DEF NoGap
      <4> QED  BY <1>9, <4>1, <4>2
    <3> QED  BY <1>6, <1>17, <3>1, <3>2
  <2>2. ASSUME ~more PROVE ReachesBack(Dated(all), older.boundary)
    <3>1. ReachesBack(Dated(page), before)
      BY <1>16, <2>2 DEF more
    <3> SUFFICES ASSUME NEW i \in Said(dialogue), i > TailStart(dialogue, DeepTail), i < older.boundary
                 PROVE  i \in Dated(page) \cup Dated(old)
      BY <1>9 DEF ReachesBack
    <3>2. CASE before <= i
      BY <1>18, <3>2
    <3>3. CASE i < before
      BY <3>1, <3>3 DEF ReachesBack
    <3> QED  BY <1>6, <1>17, <3>2, <3>3
  <2> QED  BY <2>1, <2>2
<1> QED  BY <1>12, <1>13, <1>14, <1>15, <1>19 DEF PageInv

LEMMA FailKeepsPages == PageInv /\ FetchFails => PageInv'
<1> SUFFICES ASSUME PageInv, FetchFails PROVE PageInv'
  OBVIOUS
<1>1. /\ fetch.pc # "idle" /\ dialogue' = dialogue /\ thread' = thread /\ older' = older
      /\ fetch' = [NoFetch EXCEPT !.grown = fetch.grown]
  BY DEF FetchFails
<1>2. /\ fetch' \in [pc: {"idle", "sent", "answered"}, before: Nat, page: Seq(AnyTurns), more: BOOLEAN, grown: BOOLEAN]
      /\ fetch'.pc = "idle" /\ fetch'.grown = fetch.grown
  BY <1>1, IdleAgain
<1>3. PageTyped'
  BY <1>1, <1>2 DEF PageInv, PageTyped
<1>4. CallsSound' /\ ThreadSound'
  BY <1>1 DEF PageInv, CallsSound, ThreadSound
<1>5. OlderSound'
  BY <1>1, <1>2 DEF PageInv, OlderSound
<1>6. FetchSound'
  BY <1>2 DEF FetchSound
<1>7. StillSound'
  BY <1>1, <1>2 DEF PageInv, StillSound, NoGap, ReachesBack
<1> QED  BY <1>3, <1>4, <1>5, <1>6, <1>7 DEF PageInv

LEMMA OtherKeepsPages == PageInv /\ OpenOther => PageInv'
<1> SUFFICES ASSUME PageInv, OpenOther PROVE PageInv'
  OBVIOUS
<1>1. dialogue' = dialogue /\ thread' = thread /\ older' = NoOlder /\ fetch' = NoFetch
  BY DEF OpenOther
<1>2. /\ NoOlder \in [open: BOOLEAN, turns: Seq(AnyTurns), more: BOOLEAN, boundary: Nat]
      /\ NoOlder.open = FALSE /\ NoOlder.turns = <<>>
  BY DEF NoOlder
<1>3. /\ NoFetch \in [pc: {"idle", "sent", "answered"}, before: Nat, page: Seq(AnyTurns), more: BOOLEAN, grown: BOOLEAN]
      /\ NoFetch.pc = "idle"
  BY DEF NoFetch
<1>4. PageTyped'
  BY <1>1, <1>2, <1>3 DEF PageInv, PageTyped
<1>5. CallsSound' /\ ThreadSound'
  BY <1>1 DEF PageInv, CallsSound, ThreadSound
<1>6. OlderSound' /\ FetchSound' /\ StillSound'
  BY <1>1, <1>2, <1>3, NothingDated DEF OlderSound, FetchSound, StillSound
<1> QED  BY <1>4, <1>5, <1>6 DEF PageInv

LEMMA StepKeepsPages == PageInv /\ [PageNext]_pgVars => PageInv'
<1> SUFFICES ASSUME PageInv, [PageNext]_pgVars PROVE PageInv'
  OBVIOUS
<1>1. ASSUME NEW kind \in {"you", "agent", "use", "result"}, NEW call \in CallIds \cup {None},
             AgentWrites(kind, call)
      PROVE  PageInv'
  BY <1>1, WritesKeepPages
<1>2. ASSUME UNCHANGED pgVars PROVE PageInv'
  BY <1>2 DEF pgVars, PageInv, PageTyped, CallsSound, ThreadSound, OlderSound, FetchSound, StillSound, NoGap,
              ReachesBack
<1> QED  BY <1>1, <1>2, PushKeepsPages, ServeKeepsPages, LoadKeepsPages, ArriveKeepsPages, FailKeepsPages,
            OtherKeepsPages DEF PageNext

LEMMA OrderShown == PageInv => ShownInOrder
<1> SUFFICES ASSUME PageInv PROVE InOrder(older.turns \o thread.turns)
  BY DEF ShownInOrder, OnPage
<1>1. thread.turns \in Seq(AnyTurns) /\ InOrder(thread.turns)
  BY ThreadInOrder
<1>2. older.turns \in Seq(AnyTurns) /\ InOrder(older.turns) /\ older.boundary \in Nat
  BY DEF PageInv, PageTyped, OlderSound
<1>3. \A x \in Dated(older.turns), y \in Dated(thread.turns) : x < y
  <2>1. CASE ~older.open
    <3>1. older.turns = <<>>
      BY <2>1 DEF PageInv, OlderSound, NoOlder
    <3> QED  BY <3>1, NothingDated
  <2>2. CASE older.open
    <3> SUFFICES ASSUME NEW x \in Dated(older.turns), NEW y \in Dated(thread.turns) PROVE x < y
      OBVIOUS
    <3>1. x < older.boundary /\ y >= older.boundary
      BY <2>2 DEF PageInv, OlderSound
    <3>2. PICK i \in DOMAIN older.turns : older.turns[i].ts = x
      BY DEF Dated
    <3>3. PICK j \in DOMAIN thread.turns : thread.turns[j].ts = y
      BY DEF Dated
    <3>4. older.turns[i] \in AnyTurns /\ thread.turns[j] \in AnyTurns
      BY <1>1, <1>2
    <3>5. x \in Nat /\ y \in Nat
      BY <3>2, <3>3, <3>4 DEF AnyTurns
    <3> QED  BY <1>2, <3>1, <3>5
  <2> QED  BY <2>1, <2>2
<1> QED  BY <1>1, <1>2, <1>3, JoinIs

LEMMA NothingIsSkipped == PageInv => NothingSkipped
<1> SUFFICES ASSUME PageInv, older.open, ~fetch.grown,
                    NEW i \in Said(dialogue), i \notin Dated(OnPage), NEW last \in Dated(OnPage), i <= last
             PROVE  /\ \A first \in Dated(OnPage) : i < first
                    /\ older.more \/ i <= Len(dialogue) - DeepTail
  BY DEF NothingSkipped
<1> DEFINE b == older.boundary
           old == older.turns
           live == thread.turns
<1>1. dialogue \in Seq(Entries) /\ Len(dialogue) \in Nat /\ old \in Seq(AnyTurns) /\ b \in Nat
  BY DEF PageInv, PageTyped
<1>2. live \in Seq(AnyTurns) /\ InOrder(live)
  BY ThreadInOrder
<1>3. Dated(OnPage) = Dated(old) \cup Dated(live)
  BY <1>1, <1>2, JoinIs DEF OnPage
<1>4. /\ b = FirstTs(live) /\ NoGap(Dated(old), b)
      /\ ~older.more => ReachesBack(Dated(old), b)
      /\ thread = ThreadOf(dialogue)
  BY DEF PageInv, StillSound
<1>5. Dated(live) = LatestTurns(dialogue)
  BY <1>1, <1>4, ThreadIsWindow
<1>6. /\ b = 0 => old = <<>>
      /\ \A d \in Dated(live) : d >= b
  BY DEF PageInv, OlderSound
<1>7. b \in Dated(live)
  <2> SUFFICES ASSUME b \notin Dated(live) PROVE FALSE
    OBVIOUS
  <2>1. b = 0 /\ Dated(live) = {}
    BY <1>2, <1>4, FirstIs
  <2>2. Dated(old) = {}
    BY <1>6, <2>1, NothingDated
  <2> QED  BY <1>3, <2>1, <2>2
<1>8. i \in Nat /\ i # 0 /\ \A d \in Dated(OnPage) : d \in Nat
  <2>1. i \in Nat /\ i # 0
    BY <1>1 DEF Said
  <2>2. ASSUME NEW s \in {old, live}, NEW d \in Dated(s) PROVE d \in Nat
    <3>1. PICK p \in DOMAIN s : s[p].ts = d
      BY DEF Dated
    <3>2. s[p] \in AnyTurns
      BY <1>1, <1>2
    <3> QED  BY <3>1, <3>2 DEF AnyTurns
  <2> QED  BY <1>3, <2>1, <2>2
<1>9. i < b
  <2> SUFFICES ASSUME b <= i PROVE FALSE
    BY <1>1, <1>8
  <2>1. i \in LatestTurns(dialogue)
    BY <1>1, <1>5, <1>7, WindowIsWhole
  <2> QED  BY <1>3, <1>5, <2>1
<1>10. ASSUME NEW first \in Dated(OnPage), ~(i < first) PROVE FALSE
  <2>1. first \in Nat /\ first <= i
    BY <1>8, <1>10
  <2>2. first \in Dated(old)
    BY <1>1, <1>3, <1>6, <1>8, <1>9, <2>1
  <2>3. i \in Dated(old)
    BY <1>4, <1>9, <2>1, <2>2 DEF NoGap
  <2> QED  BY <1>3, <2>3
<1>11. ASSUME ~older.more PROVE i <= Len(dialogue) - DeepTail
  <2>1. ~(i > TailStart(dialogue, DeepTail))
    BY <1>3, <1>4, <1>9, <1>11 DEF ReachesBack
  <2> QED  BY <1>1, <1>8, <2>1, PagesAssumption DEF TailStart
<1> QED  BY <1>10, <1>11

LEMMA NoGhosts == PageInv => NoGhostCall
<1> DEFINE upto == thread.upto
           prefix == SubSeq(dialogue, 1, upto)
           start == TailStart(prefix, InboxTail)
           uses == Places(prefix, start, "use")
           m == Max(uses)
<1> SUFFICES ASSUME PageInv, thread.blocked # None
             PROVE  LET at == CHOOSE i \in DOMAIN dialogue : dialogue[i] = [kind |-> "use", call |-> thread.blocked]
                    IN  \A j \in 1..upto :
                          /\ dialogue[j] # [kind |-> "result", call |-> thread.blocked]
                          /\ dialogue[j].kind = "use" => j <= at
  BY DEF NoGhostCall
<1>1. /\ dialogue \in Seq(Entries) /\ Len(dialogue) \in Nat /\ upto \in 0..Len(dialogue)
      /\ thread.blocked \in CallIds \cup {None}
  BY DEF PageInv, PageTyped, ThreadSound
<1>2. thread = ThreadOf(prefix)
  <2>1. thread # NoThread
    BY DEF NoThread
  <2> QED  BY <2>1 DEF PageInv, ThreadSound
<1>3. /\ prefix \in Seq(Entries) /\ Len(prefix) = upto /\ DOMAIN prefix = 1..upto
      /\ \A i \in 1..upto : prefix[i] = dialogue[i] /\ i \in DOMAIN dialogue /\ dialogue[i] \in Entries
  BY <1>1
<1> HIDE DEF prefix
<1>4. start \in 0..upto
  BY <1>3, StartIs, PagesAssumption
<1> HIDE DEF start
<1>5. uses # {} /\ prefix[m].call \notin AnsweredCalls(prefix, start) /\ thread.blocked = prefix[m].call
  BY <1>2 DEF ThreadOf, BlockedOn, start
<1>6. \A i \in 1..upto : i > start => (i \in uses <=> dialogue[i].kind = "use")
  BY <1>1, <1>3, <1>4 DEF Places
<1>7. uses \in SUBSET (start + 1..upto)
  BY <1>3 DEF Places
<1> HIDE DEF uses
<1>8. m \in uses /\ \A j \in uses : j <= m
  <2>1. uses \in SUBSET (1..upto) /\ upto \in Nat
    BY <1>1, <1>4, <1>7
  <2>2. PICK i \in uses : \A j \in uses : j <= i
    BY <1>1, <1>5, <2>1, GreatestExists
  <2>3. \E x \in uses : \A y \in uses : y <= x
    BY <2>2
  <2>4. \A y \in uses : y \in Nat
    BY <2>1
  <2> QED  BY <2>3, <2>4 DEF Max
<1> HIDE DEF m
<1>9. m \in 1..upto /\ m > start /\ m \in DOMAIN dialogue
  BY <1>1, <1>3, <1>4, <1>7, <1>8
<1>10. dialogue[m] \in Entries /\ dialogue[m].kind = "use" /\ dialogue[m].call = thread.blocked
  BY <1>3, <1>5, <1>6, <1>8, <1>9
<1>11. dialogue[m] = [kind |-> "use", call |-> thread.blocked]
  BY <1>10 DEF Entries
<1>12. \A i, j \in DOMAIN dialogue :
         dialogue[i].kind = "use" /\ dialogue[j].kind = "use" /\ dialogue[i].call = dialogue[j].call => i = j
  BY DEF PageInv, CallsSound
<1> DEFINE at == CHOOSE i \in DOMAIN dialogue : dialogue[i] = [kind |-> "use", call |-> thread.blocked]
<1>13. at \in DOMAIN dialogue /\ dialogue[at] = [kind |-> "use", call |-> thread.blocked]
  BY <1>9, <1>11
<1> HIDE DEF at
<1>14. at = m
  <2>1. dialogue[at].kind = "use" /\ dialogue[at].call = thread.blocked
    BY <1>13
  <2> QED  BY <1>9, <1>10, <1>12, <1>13, <2>1
<1>15. ASSUME NEW j \in 1..upto, dialogue[j].kind = "use" PROVE j <= m
  <2>1. CASE j > start
    BY <1>6, <1>8, <1>15, <2>1
  <2>2. CASE ~(j > start)
    BY <1>1, <1>4, <1>9, <2>2
  <2> QED  BY <2>1, <2>2
<1>16. ASSUME NEW j \in 1..upto, dialogue[j] = [kind |-> "result", call |-> thread.blocked] PROVE FALSE
  <2>1. dialogue[j].kind = "result" /\ dialogue[j].call = thread.blocked /\ j \in DOMAIN dialogue
    BY <1>3, <1>16
  <2>2. CASE j > start
    <3>1. j \in Places(prefix, start, "result")
      BY <1>1, <1>3, <1>4, <2>1, <2>2 DEF Places
    <3>2. prefix[j].call \in AnsweredCalls(prefix, start)
      BY <3>1 DEF AnsweredCalls
    <3> QED  BY <1>3, <1>5, <2>1, <3>2
  <2>3. CASE ~(j > start)
    <3>1. PICK i \in 1..(j - 1) : dialogue[i].kind = "use" /\ dialogue[i].call = dialogue[j].call
      BY <2>1 DEF PageInv, CallsSound
    <3>2. i \in DOMAIN dialogue /\ i < j
      BY <1>1, <1>3
    <3>3. i = m
      BY <1>9, <1>10, <1>12, <2>1, <3>1, <3>2
    <3> QED  BY <1>1, <1>4, <1>9, <2>3, <3>2, <3>3
  <2> QED  BY <2>2, <2>3
<1> QED  BY <1>14, <1>15, <1>16 DEF at

\* However pages, pushes and new turns interleave: nothing that was said is shown twice
\* or out of order, nothing between what is shown is missing while the transcript stands
\* still, and the card is never about a call that had its result.
THEOREM ThreadsAreTrue == PageSpec => []ThreadIsTrue
<1>1. PageInv => ThreadIsTrue
  BY OrderShown, NothingIsSkipped, NoGhosts DEF ThreadIsTrue
<1> QED  BY <1>1, InitPageInv, StepKeepsPages, PTL DEF PageSpec

----------------------------------------------------------------------------
(***************************************************************************)
(* The lanes of the timeline.                                               *)
(***************************************************************************)

Chats(r) == ToSet(recs[r].chats)

\* A transcript is opened for one session; later ones have it as their first.
ChatsShared ==
  \A q, r \in DOMAIN recs : q < r => \A p \in Chats(q) \cap Chats(r) : p = recs[r].chats[1]

ChatsOpened == \A r \in DOMAIN recs : \A p \in Chats(r) : p <= paths

\* A resumed session begins with a transcript of the one it goes on with.
ResumesGoOn ==
  \A r \in DOMAIN recs : recs[r].of # 0 =>
    /\ recs[r].of \in DOMAIN recs /\ recs[r].of < r
    /\ recs[r].chats # <<>> /\ recs[r].chats[1] \in Chats(recs[r].of)

SpokenInTime ==
  /\ \A k \in DOMAIN spoken : spoken[k].t <= now
  /\ \A k, l \in DOMAIN spoken : k < l => spoken[k].t <= spoken[l].t

LaneInv == LanesTypeOK /\ ChatsShared /\ ChatsOpened /\ ResumesGoOn /\ SpokenInTime

RecType == [name: LaneNames, alive: BOOLEAN, chats: Seq(1..MaxPath), at: 0..MaxNow, of: 0..MaxRec]

\* Those after the step.
LaterChats(r) == ToSet(recs'[r].chats)

LEMMA RecIs ==
  ASSUME LanesTypeOK
  PROVE  /\ recs \in Seq(RecType) /\ Len(recs) \in Nat /\ DOMAIN recs = 1..Len(recs)
         /\ {MaxRec, MaxPath, MaxRow, MaxNow, paths, now} \subseteq Nat
         /\ \A r \in DOMAIN recs : recs[r] \in RecType /\ recs[r].chats \in Seq(1..MaxPath)
<1>1. recs \in Seq(RecType)
  BY DEF LanesTypeOK, RecType
<1>2. \A r \in DOMAIN recs : recs[r] \in RecType
  BY <1>1
<1>3. \A r \in DOMAIN recs : recs[r].chats \in Seq(1..MaxPath)
  BY <1>2 DEF RecType
<1>4. {MaxRec, MaxPath, MaxRow, MaxNow, paths, now} \subseteq Nat
  BY LanesAssumption DEF LanesTypeOK
<1> QED  BY <1>1, <1>2, <1>3, <1>4

LEMMA MembersAre ==
  ASSUME NEW T, NEW s \in Seq(T)
  PROVE  (\A i \in DOMAIN s : s[i] \in T) /\ (\A p \in ToSet(s) : p \in T)
BY DEF ToSet

LEMMA OneMore ==
  ASSUME NEW T, NEW s \in Seq(T), NEW x \in T
  PROVE  /\ Append(s, x) \in Seq(T) /\ Append(s, x) # <<>>
         /\ ToSet(Append(s, x)) = ToSet(s) \cup {x}
         /\ Append(s, x)[1] = IF s = <<>> THEN x ELSE s[1]
<1>1. /\ Append(s, x) \in Seq(T) /\ Len(Append(s, x)) = Len(s) + 1 /\ Len(s) \in Nat
      /\ DOMAIN Append(s, x) = 1..(Len(s) + 1) /\ DOMAIN s = 1..Len(s)
      /\ \A i \in 1..Len(s) : Append(s, x)[i] = s[i]
      /\ Append(s, x)[Len(s) + 1] = x
  OBVIOUS
<1>2. ASSUME NEW p \in ToSet(Append(s, x)) PROVE p \in ToSet(s) \cup {x}
  <2>1. PICK i \in 1..(Len(s) + 1) : Append(s, x)[i] = p
    BY <1>1 DEF ToSet
  <2>2. i \in 1..Len(s) \/ i = Len(s) + 1
    BY <1>1
  <2> QED  BY <1>1, <2>1, <2>2 DEF ToSet
<1>3. ASSUME NEW p \in ToSet(s) PROVE p \in ToSet(Append(s, x))
  <2>1. PICK i \in 1..Len(s) : s[i] = p
    BY <1>1 DEF ToSet
  <2>2. i \in 1..(Len(s) + 1) /\ Append(s, x)[i] = p
    BY <1>1, <2>1
  <2> QED  BY <1>1, <2>2 DEF ToSet
<1>4. x \in ToSet(Append(s, x))
  <2>1. Len(s) + 1 \in 1..(Len(s) + 1)
    BY <1>1
  <2> QED  BY <1>1, <2>1 DEF ToSet
<1>5. Append(s, x)[1] = IF s = <<>> THEN x ELSE s[1]
  <2>1. CASE s = <<>>
    BY <2>1
  <2>2. CASE s # <<>>
    <3>1. 1 \in 1..Len(s)
      BY <1>1, <2>2
    <3> QED  BY <1>1, <2>2, <3>1
  <2> QED  BY <2>1, <2>2
<1>6. Append(s, x) # <<>>
  <2>1. Len(<<>>) = 0 /\ Len(Append(s, x)) # 0
    BY <1>1
  <2> QED  BY <2>1, Zenon
<1> QED  BY <1>1, <1>2, <1>3, <1>4, <1>5, <1>6

\* The last transcript of a session is one of its own.
LEMMA LastIsOne ==
  ASSUME NEW T, NEW s \in Seq(T), s # <<>>
  PROVE  Last(s) \in ToSet(s) /\ Last(s) \in T
<1>1. Len(s) \in DOMAIN s
  OBVIOUS
<1> QED  BY <1>1 DEF Last, ToSet

LEMMA SameChats ==
  ASSUME LaneInv, DOMAIN recs' = DOMAIN recs, paths' = paths,
         \A r \in DOMAIN recs : recs'[r].chats = recs[r].chats /\ recs'[r].of = recs[r].of
  PROVE  ChatsShared' /\ ChatsOpened' /\ ResumesGoOn'
<1>1. \A r \in DOMAIN recs : LaterChats(r) = Chats(r)
  BY DEF Chats, LaterChats
<1>2. ChatsShared'
  BY <1>1, Zenon DEF LaneInv, ChatsShared, Chats, LaterChats
<1>3. ChatsOpened'
  BY <1>1, Zenon DEF LaneInv, ChatsOpened, Chats, LaterChats
<1>4. ResumesGoOn'
  <2> SUFFICES ASSUME NEW r \in DOMAIN recs, recs[r].of # 0
               PROVE  /\ recs[r].of \in DOMAIN recs /\ recs[r].of < r
                      /\ recs[r].chats # <<>> /\ recs[r].chats[1] \in LaterChats(recs[r].of)
    BY Zenon DEF ResumesGoOn, Chats, LaterChats
  <2> QED  BY <1>1, Zenon DEF LaneInv, ResumesGoOn
<1> QED  BY <1>2, <1>3, <1>4

LEMMA SameRows == ASSUME LaneInv, spoken' = spoken, now' = now PROVE SpokenInTime'
BY DEF LaneInv, SpokenInTime

\* A new record, of a resume or without a transcript.
LEMMA NewRecKeeps ==
  ASSUME LaneInv, NEW name \in LaneNames, NEW chats \in Seq(1..MaxPath), NEW of \in 0..MaxRec,
         Len(recs) < MaxRec, recs' = Append(recs, NewRec(name, chats, of)),
         UNCHANGED <<spoken, paths, now>>,
         \/ chats = <<>> /\ of = 0
         \/ of \in DOMAIN recs /\ chats # <<>> /\ ToSet(chats) = {chats[1]} /\ chats[1] \in Chats(of)
  PROVE  LaneInv'
<1> DEFINE new == NewRec(name, chats, of)
           n == Len(recs)
<1>1. /\ LanesTypeOK /\ recs \in Seq(RecType) /\ n \in Nat /\ DOMAIN recs = 1..n
      /\ now \in 0..MaxNow /\ paths \in Nat
  BY RecIs DEF LaneInv, LanesTypeOK
<1>2. new \in RecType /\ new.chats = chats /\ new.of = of
  BY <1>1 DEF NewRec, RecType
<1> HIDE DEF new
<1>3. /\ recs' \in Seq(RecType) /\ Len(recs') = n + 1 /\ DOMAIN recs' = 1..(n + 1)
      /\ \A r \in 1..n : recs'[r] = recs[r]
      /\ recs'[n + 1] = new
  BY <1>1, <1>2 DEF new
<1>4. LanesTypeOK'
  <2>1. Len(recs') <= MaxRec
    <3>1. MaxRec \in Nat
      BY LanesAssumption
    <3> QED  BY <1>1, <1>3, <3>1
  <2> QED  BY <1>1, <1>3, <2>1 DEF LanesTypeOK, RecType
<1> HIDE DEF n
<1>5. /\ \A r \in 1..n : LaterChats(r) = Chats(r)
      /\ LaterChats(n + 1) = ToSet(chats)
  <2>1. ASSUME NEW r \in 1..n PROVE LaterChats(r) = Chats(r)
    <3>1. recs'[r] = recs[r]
      BY <1>3
    <3> QED  BY <3>1, Zenon DEF Chats, LaterChats
  <2>2. recs'[n + 1].chats = chats
    BY <1>2, <1>3
  <2> QED  BY <2>1, <2>2, Zenon DEF Chats, LaterChats
<1>6. \A r \in 1..(n + 1) : r \in 1..n \/ r = n + 1
  BY <1>1
<1>7. /\ chats = <<>> => ToSet(chats) = {}
      /\ \A p \in ToSet(chats) : p = chats[1] /\ of \in 1..n /\ p \in Chats(of)
  <2>1. chats = <<>> => ToSet(chats) = {}
    BY DEF ToSet
  <2> QED  BY <1>1, <2>1
<1>s. \A q, r \in 1..n : q < r => \A p \in Chats(q) \cap Chats(r) : p = recs[r].chats[1]
  BY <1>1, Zenon DEF LaneInv, ChatsShared
<1>o. \A r \in 1..n : \A p \in Chats(r) : p <= paths
  BY <1>1, Zenon DEF LaneInv, ChatsOpened
<1>r. \A r \in 1..n : recs[r].of # 0 =>
        /\ recs[r].of \in 1..n /\ recs[r].of < r
        /\ recs[r].chats # <<>> /\ recs[r].chats[1] \in Chats(recs[r].of)
  BY <1>1, Zenon DEF LaneInv, ResumesGoOn
<1>8. ChatsShared'
  <2> SUFFICES ASSUME NEW q \in 1..(n + 1), NEW r \in 1..(n + 1), q < r, NEW p \in LaterChats(q) \cap LaterChats(r)
               PROVE  p = recs'[r].chats[1]
    BY <1>3 DEF ChatsShared, Chats, LaterChats
  <2>1. q \in 1..n
    BY <1>1, <1>6
  <2>2. CASE r \in 1..n
    <3>1. p \in Chats(q) \cap Chats(r) /\ recs'[r] = recs[r]
      BY <1>3, <1>5, <2>1, <2>2
    <3> QED  BY <1>s, <2>1, <2>2, <3>1
  <2>3. CASE r = n + 1
    <3>1. p \in ToSet(chats) /\ recs'[r].chats = chats
      BY <1>2, <1>3, <1>5, <2>3
    <3> QED  BY <1>7, <3>1
  <2> QED  BY <1>6, <2>2, <2>3
<1>9. ChatsOpened'
  <2> SUFFICES ASSUME NEW r \in 1..(n + 1), NEW p \in LaterChats(r) PROVE p <= paths
    BY <1>3 DEF ChatsOpened, Chats, LaterChats
  <2>1. CASE r \in 1..n
    BY <1>5, <1>o, <2>1
  <2>2. CASE r = n + 1
    <3>1. p \in ToSet(chats)
      BY <1>5, <2>2
    <3> QED  BY <1>7, <1>o, <3>1
  <2> QED  BY <1>6, <2>1, <2>2
<1>10. ResumesGoOn'
  <2> SUFFICES ASSUME NEW r \in 1..(n + 1), recs'[r].of # 0
               PROVE  /\ recs'[r].of \in 1..(n + 1) /\ recs'[r].of < r
                      /\ recs'[r].chats # <<>> /\ recs'[r].chats[1] \in LaterChats(recs'[r].of)
    BY <1>3, Zenon DEF ResumesGoOn, Chats, LaterChats
  <2>0. \A q \in 1..n : q \in 1..(n + 1) /\ q < n + 1
    BY <1>1
  <2>1. CASE r \in 1..n
    <3>1. recs'[r] = recs[r]
      BY <1>3, <2>1
    <3>2. /\ recs[r].of \in 1..n /\ recs[r].of < r
          /\ recs[r].chats # <<>> /\ recs[r].chats[1] \in Chats(recs[r].of)
      BY <1>r, <2>1, <3>1, Zenon
    <3>3. LaterChats(recs[r].of) = Chats(recs[r].of)
      BY <1>5, <3>2, Zenon
    <3>4. recs'[r].chats[1] \in LaterChats(recs'[r].of)
      <4>1. LaterChats(recs'[r].of) = LaterChats(recs[r].of)
        BY <3>1, Zenon DEF Chats, LaterChats
      <4> QED  BY <3>1, <3>2, <3>3, <4>1, Zenon
    <3> QED  BY <2>0, <3>1, <3>2, <3>4
  <2>2. CASE r = n + 1
    <3>1. recs'[r].of = of /\ recs'[r].chats = chats
      BY <1>2, <1>3, <2>2
    <3>2. of \in 1..n /\ chats # <<>> /\ chats[1] \in Chats(of)
      BY <1>1, <3>1
    <3>3. LaterChats(of) = Chats(of)
      BY <1>5, <3>2, Zenon
    <3>4. LaterChats(recs'[r].of) = LaterChats(of)
      BY <3>1, Zenon DEF Chats, LaterChats
    <3> QED  BY <2>0, <2>2, <3>1, <3>2, <3>3, <3>4
  <2> QED  BY <1>6, <2>1, <2>2
<1> QED  BY <1>4, <1>8, <1>9, <1>10, SameRows DEF LaneInv

LEMMA SpawnKeeps == ASSUME LaneInv, NEW name \in LaneNames, SpawnRec(name) PROVE LaneInv'
<1>1. <<>> \in Seq(1..MaxPath) /\ 0 \in 0..MaxRec
  BY RecIs DEF LaneInv
<1>2. Len(recs) < MaxRec /\ recs' = Append(recs, NewRec(name, <<>>, 0)) /\ UNCHANGED <<spoken, paths, now>>
  BY DEF SpawnRec
<1> QED  BY <1>1, <1>2, NewRecKeeps

LEMMA ResumeKeeps ==
  ASSUME LaneInv, NEW r \in DOMAIN recs, NEW name \in LaneNames, ResumeRec(r, name)
  PROVE  LaneInv'
<1> DEFINE chats == <<Last(recs[r].chats)>>
<1>1. recs[r].chats \in Seq(1..MaxPath) /\ recs[r].chats # <<>>
  BY RecIs DEF LaneInv, ResumeRec
<1>2. Last(recs[r].chats) \in Chats(r) /\ Last(recs[r].chats) \in 1..MaxPath
  BY <1>1, LastIsOne DEF Chats
<1>3. chats \in Seq(1..MaxPath) /\ chats # <<>> /\ chats[1] \in Chats(r)
  BY <1>2
<1>4. ToSet(chats) = {chats[1]}
  <2>1. DOMAIN chats = {1}
    OBVIOUS
  <2> HIDE DEF chats
  <2> QED  BY <2>1 DEF ToSet
<1>5. r \in 0..MaxRec
  <2>1. Len(recs) <= MaxRec /\ r \in 1..Len(recs) /\ MaxRec \in Nat /\ Len(recs) \in Nat
    BY RecIs DEF LaneInv, LanesTypeOK
  <2> QED  BY <2>1
<1>6. Len(recs) < MaxRec /\ recs' = Append(recs, NewRec(name, chats, r)) /\ UNCHANGED <<spoken, paths, now>>
  BY DEF ResumeRec
<1> HIDE DEF chats
<1> QED  BY <1>3, <1>4, <1>5, <1>6, NewRecKeeps

LEMMA OpenKeeps == ASSUME LaneInv, NEW r \in DOMAIN recs, OpenChat(r) PROVE LaneInv'
<1>1. /\ LanesTypeOK /\ recs \in Seq(RecType) /\ Len(recs) \in Nat /\ DOMAIN recs = 1..Len(recs)
      /\ now \in 0..MaxNow /\ paths \in Nat /\ MaxPath \in Nat
      /\ recs[r] \in RecType /\ recs[r].chats \in Seq(1..MaxPath)
  BY RecIs DEF LaneInv, LanesTypeOK
<1> DEFINE path == paths + 1
           chats == Append(recs[r].chats, path)
<1>2. /\ path \in 1..MaxPath /\ paths' = path /\ spoken' = spoken /\ now' = now
      /\ recs' = [recs EXCEPT ![r].chats = chats, ![r].at = now]
  BY <1>1 DEF OpenChat
<1>3. /\ chats \in Seq(1..MaxPath) /\ chats # <<>> /\ ToSet(chats) = Chats(r) \cup {path}
      /\ chats[1] = IF recs[r].chats = <<>> THEN path ELSE recs[r].chats[1]
  <2>1. recs[r].chats \in Seq(1..MaxPath) /\ path \in 1..MaxPath
    BY <1>1, <1>2
  <2> DEFINE had == recs[r].chats
             last == path
             T == 1..MaxPath
  <2> HIDE DEF had, last, T
  <2>2. had \in Seq(T) /\ last \in T
    BY <2>1 DEF had, last, T
  <2>3. Append(had, last) \in Seq(T) /\ Append(had, last) # <<>>
    BY <2>2, OneMore
  <2>4. ToSet(Append(had, last)) = ToSet(had) \cup {last}
    BY <2>2, OneMore
  <2>5. Append(had, last)[1] = IF had = <<>> THEN last ELSE had[1]
    BY <2>2, OneMore
  <2> QED  BY <2>3, <2>4, <2>5, Zenon DEF had, last, T, Chats
<1> HIDE DEF chats
<1>4. /\ DOMAIN recs' = DOMAIN recs /\ recs' \in Seq(RecType) /\ Len(recs') = Len(recs)
      /\ \A q \in DOMAIN recs \ {r} : recs'[q] = recs[q]
      /\ recs'[r].chats = chats /\ recs'[r].of = recs[r].of
  <2>1. [[recs[r] EXCEPT !.chats = chats] EXCEPT !.at = now] \in RecType
    BY <1>1, <1>3 DEF RecType
  <2>2. recs' = [recs EXCEPT ![r] = [[recs[r] EXCEPT !.chats = chats] EXCEPT !.at = now]]
    BY <1>1, <1>2
  <2> QED  BY <1>1, <2>1, <2>2 DEF RecType
<1>5. LanesTypeOK'
  <2>1. path \in 0..MaxPath
    BY <1>1, <1>2
  <2> QED  BY <1>1, <1>2, <1>4, <2>1 DEF LanesTypeOK, RecType
<1>6. /\ \A q \in DOMAIN recs \ {r} : LaterChats(q) = Chats(q)
      /\ LaterChats(r) = Chats(r) \cup {path}
      /\ \A q \in DOMAIN recs : path \notin Chats(q)
  <2>1. \A q \in DOMAIN recs : path \notin Chats(q)
    BY <1>1 DEF LaneInv, ChatsOpened
  <2> QED  BY <1>3, <1>4, <2>1 DEF Chats, LaterChats
<1>7. recs[r].chats = <<>> => Chats(r) = {}
  BY DEF Chats, ToSet
<1>8. ChatsShared'
  <2> SUFFICES ASSUME NEW q \in DOMAIN recs, NEW l \in DOMAIN recs, q < l, NEW p \in LaterChats(q) \cap LaterChats(l)
               PROVE  p = recs'[l].chats[1]
    BY <1>4 DEF ChatsShared, Chats, LaterChats
  <2>1. p \in Chats(q) \cap Chats(l)
    BY <1>1, <1>6
  <2>2. p = recs[l].chats[1]
    BY <2>1 DEF LaneInv, ChatsShared
  <2> QED  BY <1>3, <1>4, <1>7, <2>1, <2>2
<1>9. ChatsOpened'
  <2> SUFFICES ASSUME NEW q \in DOMAIN recs, NEW p \in LaterChats(q) PROVE p <= path
    BY <1>2, <1>4 DEF ChatsOpened, Chats, LaterChats
  <2>1. p = path \/ p \in Chats(q)
    BY <1>6
  <2>2. ASSUME p \in Chats(q) PROVE p \in Nat /\ p <= paths
    <3>1. recs[q].chats \in Seq(1..MaxPath)
      BY <1>1, RecIs
    <3>2. p \in 1..MaxPath
      BY <2>2, <3>1, MembersAre DEF Chats
    <3> QED  BY <1>1, <2>2, <3>2 DEF LaneInv, ChatsOpened
  <2> QED  BY <1>1, <2>1, <2>2
<1>10. ResumesGoOn'
  <2> SUFFICES ASSUME NEW q \in DOMAIN recs, recs'[q].of # 0
               PROVE  /\ recs'[q].of \in DOMAIN recs /\ recs'[q].of < q
                      /\ recs'[q].chats # <<>> /\ recs'[q].chats[1] \in LaterChats(recs'[q].of)
    BY <1>4, Zenon DEF ResumesGoOn, Chats, LaterChats
  <2>1. recs'[q].of = recs[q].of
    BY <1>4
  <2>2. /\ recs[q].of \in DOMAIN recs /\ recs[q].of < q
        /\ recs[q].chats # <<>> /\ recs[q].chats[1] \in Chats(recs[q].of)
    BY <2>1 DEF LaneInv, ResumesGoOn
  <2>3. recs[q].chats[1] \in LaterChats(recs[q].of)
    <3>1. PICK o \in DOMAIN recs : o = recs[q].of
      BY <2>2
    <3>2. recs[q].chats[1] \in LaterChats(o)
      BY <1>6, <2>2, <3>1
    <3> QED  BY <3>1, <3>2, Zenon
  <2>4. recs'[q].chats # <<>> /\ recs'[q].chats[1] = recs[q].chats[1]
    BY <1>3, <1>4, <2>2
  <2>5. LaterChats(recs'[q].of) = LaterChats(recs[q].of)
    BY <2>1, Zenon DEF Chats, LaterChats
  <2> QED  BY <2>1, <2>2, <2>3, <2>4, <2>5
<1> QED  BY <1>2, <1>5, <1>8, <1>9, <1>10, SameRows DEF LaneInv

LEMMA InitLaneInv == LanesInit => LaneInv
<1> SUFFICES ASSUME LanesInit PROVE LaneInv
  OBVIOUS
<1>1. recs = <<>> /\ spoken = <<>> /\ paths = 0 /\ now = 0
  BY DEF LanesInit
<1>2. LanesTypeOK
  BY <1>1, LanesAssumption DEF LanesTypeOK
<1> QED  BY <1>1, <1>2 DEF LaneInv, ChatsShared, ChatsOpened, ResumesGoOn, SpokenInTime

LEMMA StepLaneInv == LaneInv /\ [LanesNext]_laneVars => LaneInv'
<1> SUFFICES ASSUME LaneInv, [LanesNext]_laneVars PROVE LaneInv'
  OBVIOUS
<1>0. /\ LanesTypeOK /\ recs \in Seq(RecType) /\ Len(recs) \in Nat /\ DOMAIN recs = 1..Len(recs)
      /\ now \in 0..MaxNow /\ paths \in Nat /\ {MaxPath, MaxNow, MaxRow} \subseteq Nat
      /\ \A r \in DOMAIN recs : recs[r] \in RecType /\ recs[r].chats \in Seq(1..MaxPath)
  BY RecIs DEF LaneInv, LanesTypeOK
<1>1. ASSUME NEW r \in DOMAIN recs, NEW name \in LaneNames, RenameRec(r, name) PROVE LaneInv'
  <2>1. recs' = [recs EXCEPT ![r].name = name] /\ UNCHANGED <<spoken, paths, now>>
    BY <1>1 DEF RenameRec
  <2>2. /\ recs' \in Seq(RecType) /\ Len(recs') = Len(recs) /\ DOMAIN recs' = DOMAIN recs
        /\ \A q \in DOMAIN recs : recs'[q].chats = recs[q].chats /\ recs'[q].of = recs[q].of
    <3> DEFINE new == [recs[r] EXCEPT !.name = name]
    <3>1. new \in RecType /\ new.chats = recs[r].chats /\ new.of = recs[r].of
      BY <1>0 DEF RecType
    <3>2. recs' = [recs EXCEPT ![r] = new]
      BY <2>1
    <3> HIDE DEF new
    <3>3. recs' \in Seq(RecType) /\ Len(recs') = Len(recs) /\ DOMAIN recs' = DOMAIN recs
      BY <1>0, <3>1, <3>2
    <3> QED  BY <3>1, <3>2, <3>3
  <2>3. LanesTypeOK'
    BY <1>0, <2>1, <2>2 DEF LanesTypeOK, RecType
  <2> QED  BY <2>1, <2>2, <2>3, SameChats, SameRows DEF LaneInv
<1>2. ASSUME NEW r \in DOMAIN recs, EndRec(r) PROVE LaneInv'
  <2>1. recs' = [recs EXCEPT ![r].alive = FALSE] /\ UNCHANGED <<spoken, paths, now>>
    BY <1>2 DEF EndRec
  <2>2. /\ recs' \in Seq(RecType) /\ Len(recs') = Len(recs) /\ DOMAIN recs' = DOMAIN recs
        /\ \A q \in DOMAIN recs : recs'[q].chats = recs[q].chats /\ recs'[q].of = recs[q].of
    <3> DEFINE new == [recs[r] EXCEPT !.alive = FALSE]
    <3>1. new \in RecType /\ new.chats = recs[r].chats /\ new.of = recs[r].of
      BY <1>0 DEF RecType
    <3>2. recs' = [recs EXCEPT ![r] = new]
      BY <2>1
    <3> HIDE DEF new
    <3>3. recs' \in Seq(RecType) /\ Len(recs') = Len(recs) /\ DOMAIN recs' = DOMAIN recs
      BY <1>0, <3>1, <3>2
    <3> QED  BY <3>1, <3>2, <3>3
  <2>3. LanesTypeOK'
    BY <1>0, <2>1, <2>2 DEF LanesTypeOK, RecType
  <2> QED  BY <2>1, <2>2, <2>3, SameChats, SameRows DEF LaneInv
<1>3. ASSUME NEW r \in DOMAIN recs, Say(r) PROVE LaneInv'
  <2> DEFINE row == [path |-> Last(recs[r].chats), t |-> now]
             n == Len(spoken)
  <2>1. /\ recs' = [recs EXCEPT ![r].at = now] /\ UNCHANGED <<paths, now>>
        /\ spoken' = Append(spoken, row) /\ Len(spoken) < MaxRow /\ recs[r].chats # <<>>
    BY <1>3 DEF Say
  <2>2. /\ recs' \in Seq(RecType) /\ Len(recs') = Len(recs) /\ DOMAIN recs' = DOMAIN recs
        /\ \A q \in DOMAIN recs : recs'[q].chats = recs[q].chats /\ recs'[q].of = recs[q].of
    <3> DEFINE new == [recs[r] EXCEPT !.at = now]
    <3>1. new \in RecType /\ new.chats = recs[r].chats /\ new.of = recs[r].of
      BY <1>0 DEF RecType
    <3>2. recs' = [recs EXCEPT ![r] = new]
      BY <2>1
    <3> HIDE DEF new
    <3>3. recs' \in Seq(RecType) /\ Len(recs') = Len(recs) /\ DOMAIN recs' = DOMAIN recs
      BY <1>0, <3>1, <3>2
    <3> QED  BY <3>1, <3>2, <3>3
  <2>3. /\ spoken \in Seq([path: 1..MaxPath, t: 0..MaxNow]) /\ n \in Nat /\ row \in [path: 1..MaxPath, t: 0..MaxNow]
        /\ row.t = now
    <3>1. Last(recs[r].chats) \in 1..MaxPath
      BY <1>0, <2>1, LastIsOne
    <3> QED  BY <1>0, <3>1 DEF LanesTypeOK
  <2> HIDE DEF row
  <2>4. /\ spoken' \in Seq([path: 1..MaxPath, t: 0..MaxNow]) /\ Len(spoken') = n + 1 /\ DOMAIN spoken' = 1..(n + 1)
        /\ \A k \in 1..n : spoken'[k] = spoken[k] /\ k \in DOMAIN spoken
        /\ spoken'[n + 1].t = now
    BY <2>1, <2>3
  <2>5. LanesTypeOK'
    <3>1. Len(spoken') <= MaxRow
      BY <1>0, <2>1, <2>3, <2>4
    <3> QED  BY <1>0, <2>1, <2>2, <2>4, <3>1 DEF LanesTypeOK, RecType
  <2> HIDE DEF n
  <2>6. \A k \in 1..(n + 1) : k \in 1..n \/ k = n + 1
    BY <2>3
  <2>7. SpokenInTime'
    <3>1. ASSUME NEW k \in 1..(n + 1) PROVE spoken'[k].t <= now
      <4>1. CASE k \in 1..n
        BY <2>4, <4>1 DEF LaneInv, SpokenInTime
      <4>2. CASE k = n + 1
        BY <1>0, <2>4, <4>2
      <4> QED  BY <2>6, <4>1, <4>2
    <3>2. ASSUME NEW k \in 1..(n + 1), NEW l \in 1..(n + 1), k < l PROVE spoken'[k].t <= spoken'[l].t
      <4>1. CASE l \in 1..n
        <5>1. k \in 1..n
          BY <2>3, <3>2, <4>1
        <5> QED  BY <2>4, <3>2, <4>1, <5>1 DEF LaneInv, SpokenInTime
      <4>2. CASE l = n + 1
        BY <2>4, <3>1, <4>2
      <4> QED  BY <2>6, <4>1, <4>2
    <3> QED  BY <2>1, <2>4, <3>1, <3>2 DEF SpokenInTime
  <2> QED  BY <2>1, <2>2, <2>5, <2>7, SameChats DEF LaneInv
<1>4. ASSUME TimePasses PROVE LaneInv'
  <2>1. now' = now + 1 /\ now < MaxNow /\ UNCHANGED <<recs, spoken, paths>>
    BY <1>4 DEF TimePasses
  <2>2. LanesTypeOK'
    BY <1>0, <2>1 DEF LanesTypeOK
  <2>3. \A k \in DOMAIN spoken : spoken[k].t \in Nat
    <3>1. spoken \in Seq([path: 1..MaxPath, t: 0..MaxNow])
      BY DEF LaneInv, LanesTypeOK
    <3> SUFFICES ASSUME NEW k \in DOMAIN spoken PROVE spoken[k].t \in Nat
      OBVIOUS
    <3>2. spoken[k] \in [path: 1..MaxPath, t: 0..MaxNow]
      BY <3>1, MembersAre
    <3> QED  BY <1>0, <3>2
  <2>4. SpokenInTime'
    BY <1>0, <2>1, <2>3 DEF LaneInv, SpokenInTime
  <2> QED  BY <2>1, <2>2, <2>4, SameChats DEF LaneInv
<1>5. ASSUME UNCHANGED laneVars PROVE LaneInv'
  <2>1. LanesTypeOK' /\ UNCHANGED <<recs, spoken, paths, now>>
    BY <1>0, <1>5 DEF laneVars, LanesTypeOK
  <2> QED  BY <2>1, SameChats, SameRows DEF LaneInv
<1> QED  BY <1>1, <1>2, <1>3, <1>4, <1>5, SpawnKeeps, ResumeKeeps, OpenKeeps DEF LanesNext

\* What n steps make of z.
StepsIn(step, n, T) == \A k \in 1..n : \A x \in T : step[k][x] \in T
Iteration(g, z, step, n, T) == g \in [0..n -> T] /\ g[0] = z /\ \A k \in 1..n : g[k] = step[k][g[k - 1]]

LEMMA Iterates ==
  ASSUME NEW T, NEW z \in T, NEW n \in Nat, NEW step, StepsIn(step, n, T)
  PROVE  \E g : Iteration(g, z, step, n, T)
<1> DEFINE Good(g, k) == g \in [0..k -> T] /\ g[0] = z /\ \A j \in 1..k : g[j] = step[j][g[j - 1]]
           S == {k \in Nat : k <= n => \E g : Good(g, k)}
<1>1. 0 \in S
  <2> DEFINE g == [k \in 0..0 |-> z]
  <2>1. g \in [0..0 -> T] /\ g[0] = z /\ 1..0 = {}
    OBVIOUS
  <2> HIDE DEF g
  <2>2. Good(g, 0)
    BY <2>1
  <2> QED  BY <2>2
<1>2. ASSUME NEW k \in Nat, k \in S PROVE k + 1 \in S
  <2> SUFFICES ASSUME k + 1 <= n PROVE \E g : Good(g, k + 1)
    OBVIOUS
  <2>1. PICK f : Good(f, k)
    BY <1>2
  <2>2. f[k] \in T /\ k + 1 \in 1..n
    BY <2>1
  <2> DEFINE new == step[k + 1][f[k]]
             g == [j \in 0..(k + 1) |-> IF j = k + 1 THEN new ELSE f[j]]
  <2>3. new \in T
    BY <2>2 DEF StepsIn
  <2>4. \A j \in 0..k : g[j] = f[j] /\ f[j] \in T /\ j \in 0..(k + 1)
    BY <2>1
  <2>5. g[k + 1] = new
    OBVIOUS
  <2>6. \A j \in 0..(k + 1) : j \in 0..k \/ j = k + 1
    OBVIOUS
  <2>7. g \in [0..(k + 1) -> T]
    BY <2>3, <2>4, <2>6
  <2> HIDE DEF g
  <2>8. ASSUME NEW j \in 1..(k + 1) PROVE g[j] = step[j][g[j - 1]]
    <3>1. CASE j = k + 1
      <4>1. j - 1 = k /\ g[k] = f[k]
        BY <2>4, <3>1
      <4> QED  BY <2>5, <3>1, <4>1
    <3>2. CASE j \in 1..k
      <4>1. j - 1 \in 0..k /\ j \in 0..k
        BY <3>2
      <4>2. g[j] = f[j] /\ g[j - 1] = f[j - 1]
        BY <2>4, <4>1
      <4> QED  BY <2>1, <3>2, <4>2
    <3> QED  BY <3>1, <3>2
  <2>9. g[0] = z
    <3>1. 0 \in 0..k
      OBVIOUS
    <3> QED  BY <2>1, <2>4, <3>1
  <2> QED  BY <2>7, <2>8, <2>9
<1> HIDE DEF S
<1>3. n \in S
  BY <1>1, <1>2, SetInduction
<1>4. PICK g : Good(g, n)
  BY <1>3 DEF S
<1> QED  BY <1>4 DEF Iteration

LaneType == [name: LaneNames, recs: SUBSET DOMAIN recs, tpaths: SUBSET Nat]

ChatsNat(r) == Chats(r) \subseteq Nat

\* A record joins a lane, or begins one.
Joined(lanes, new, r, m) ==
  /\ m \in DOMAIN lanes /\ Joins(lanes[m], r) /\ DOMAIN new = DOMAIN lanes
  /\ new[m] = [name |-> lanes[m].name, recs |-> lanes[m].recs \cup {r}, tpaths |-> lanes[m].tpaths \cup Chats(r)]
  /\ \A i \in DOMAIN lanes \ {m} : new[i] = lanes[i]
Begun(lanes, new, r, m) ==
  /\ m = Len(lanes) + 1 /\ DOMAIN new = 1..m
  /\ \A i \in DOMAIN lanes : ~Joins(lanes[i], r)
  /\ new[m] = [name |-> recs[r].name, recs |-> {r}, tpaths |-> Chats(r)]
  /\ \A i \in DOMAIN lanes : new[i] = lanes[i]

LEMMA PlacedIs ==
  ASSUME LanesTypeOK, NEW r \in DOMAIN recs, NEW lanes \in Seq(LaneType)
  PROVE  /\ Placed(lanes, r) \in Seq(LaneType)
         /\ \E m : Joined(lanes, Placed(lanes, r), r, m) \/ Begun(lanes, Placed(lanes, r), r, m)
<1> DEFINE at == {i \in DOMAIN lanes : Joins(lanes[i], r)}
           m == Min(at)
           new == Placed(lanes, r)
<1>1. recs[r].name \in LaneNames /\ Chats(r) \subseteq Nat
  <2>1. recs[r] \in RecType /\ recs[r].chats \in Seq(1..MaxPath) /\ MaxPath \in Nat
    BY RecIs
  <2>2. \A p \in Chats(r) : p \in 1..MaxPath
    BY <2>1, MembersAre DEF Chats
  <2> QED  BY <2>1, <2>2 DEF RecType
<1>2. /\ Len(lanes) \in Nat /\ DOMAIN lanes = 1..Len(lanes)
      /\ \A i \in DOMAIN lanes : lanes[i] \in LaneType
  BY MembersAre
<1>3. CASE at = {}
  <2> DEFINE lane == [name |-> recs[r].name, recs |-> {r}, tpaths |-> Chats(r)]
  <2>1. lane \in LaneType
    BY <1>1 DEF LaneType
  <2>2. new = Append(lanes, lane)
    BY <1>3 DEF Placed, Chats
  <2> HIDE DEF lane, new
  <2>3. /\ new \in Seq(LaneType) /\ DOMAIN new = 1..(Len(lanes) + 1)
        /\ new[Len(lanes) + 1] = lane /\ \A i \in DOMAIN lanes : new[i] = lanes[i]
    BY <2>1, <2>2
  <2>4. Begun(lanes, new, r, Len(lanes) + 1)
    BY <1>3, <2>3 DEF Begun, lane
  <2> QED  BY <2>3, <2>4 DEF new
<1>4. CASE at # {}
  <2>1. m \in at
    <3>1. at \in SUBSET (1..Len(lanes))
      BY <1>2
    <3> HIDE DEF at
    <3>2. \E i \in at : \A j \in at : i <= j
      BY <1>2, <1>4, <3>1, LeastExists
    <3> QED  BY <3>2 DEF Min
  <2>2. new = [lanes EXCEPT ![m] = [name |-> @.name, recs |-> @.recs \cup {r},
                                    tpaths |-> @.tpaths \cup Chats(r)]]
    BY <1>4 DEF Placed, Chats
  <2>3. m \in DOMAIN lanes /\ Joins(lanes[m], r)
    BY <2>1
  <2> HIDE DEF m, at, new
  <2> DEFINE lane == [name |-> lanes[m].name, recs |-> lanes[m].recs \cup {r},
                      tpaths |-> lanes[m].tpaths \cup Chats(r)]
  <2>4. lanes[m] \in LaneType
    BY <1>2, <2>3
  <2>5. lane \in LaneType
    BY <1>1, <2>4 DEF LaneType
  <2>7. new = [lanes EXCEPT ![m] = lane]
    BY <2>2
  <2> HIDE DEF lane
  <2>8. /\ new \in Seq(LaneType) /\ DOMAIN new = DOMAIN lanes /\ new[m] = lane
        /\ \A i \in DOMAIN lanes \ {m} : new[i] = lanes[i]
    BY <1>2, <2>3, <2>5, <2>7
  <2>9. Joined(lanes, new, r, m)
    BY <2>3, <2>8 DEF Joined, lane
  <2> QED  BY <2>8, <2>9 DEF new
<1> QED  BY <1>3, <1>4

\* The lanes after each of the records.
LEMMA LanesBuilt ==
  ASSUME LanesTypeOK
  PROVE  \E g : /\ g[0] = <<>> /\ Lanes = g[Len(recs)]
                /\ \A r \in 1..Len(recs) :
                     g[r] = IF r \in InWindow THEN Placed(g[r - 1], r) ELSE g[r - 1]
<1> DEFINE T == Seq(LaneType)
           n == Len(recs)
           step == [r \in 1..n |-> [lanes \in T |-> IF r \in InWindow THEN Placed(lanes, r) ELSE lanes]]
           Build(g) == g = [r \in 0..n |-> IF r = 0 THEN <<>>
                                           ELSE IF r \in InWindow THEN Placed(g[r - 1], r) ELSE g[r - 1]]
<1>1. n \in Nat /\ DOMAIN recs = 1..n
  BY RecIs
<1>2. <<>> \in T
  OBVIOUS
<1>3. ASSUME NEW r \in 1..n, NEW lanes \in T
      PROVE  (IF r \in InWindow THEN Placed(lanes, r) ELSE lanes) \in T
  BY <1>1, PlacedIs
<1> HIDE DEF T
<1>5. \A r \in 1..n : \A lanes \in T : step[r][lanes] = IF r \in InWindow THEN Placed(lanes, r) ELSE lanes
  OBVIOUS
<1>4. StepsIn(step, n, T)
  BY <1>3, <1>5 DEF StepsIn
<1>n. n \in Nat
  BY <1>1
<1> DEFINE z == <<>>
<1>z. z \in T
  BY <1>2
<1> HIDE DEF step, n, z
<1>g. PICK g : Iteration(g, z, step, n, T)
  BY <1>n, <1>z, <1>4, Iterates
<1>6. g \in [0..n -> T] /\ g[0] = z /\ \A k \in 1..n : g[k] = step[k][g[k - 1]]
  BY <1>g DEF Iteration
<1>7. \A r \in 1..n : g[r] = IF r \in InWindow THEN Placed(g[r - 1], r) ELSE g[r - 1]
  <2> TAKE r \in 1..n
  <2>1. r - 1 \in 0..n
    BY <1>1
  <2>2. g[r - 1] \in T
    BY <1>6, <2>1
  <2> QED  BY <1>5, <1>6, <2>2
<1>8. Build(g)
  <2>1. \A r \in 0..n : r = 0 \/ r \in 1..n
    BY <1>1
  <2>2. \A r \in 0..n : g[r] = IF r = 0 THEN <<>>
                                 ELSE IF r \in InWindow THEN Placed(g[r - 1], r) ELSE g[r - 1]
    BY <1>6, <1>7, <2>1 DEF z
  <2> QED  BY <1>6, <2>2
<1> DEFINE upTo == CHOOSE h : Build(h)
<1>9. Lanes = upTo[n]
  BY DEF Lanes, n
<1>10. Build(upTo)
  BY <1>8
<1> HIDE DEF upTo
<1>11. 0 \in 0..n /\ n \in 0..n /\ \A r \in 1..n : r \in 0..n /\ r # 0
  BY <1>1
<1>12. upTo[0] = <<>> /\ \A r \in 1..n : upTo[r] = IF r \in InWindow THEN Placed(upTo[r - 1], r) ELSE upTo[r - 1]
  BY <1>10, <1>11
<1> QED  BY <1>9, <1>12 DEF n

\* The lanes of the first n records.
LanesSound(lanes, n) ==
  /\ lanes \in Seq(LaneType)
  /\ \A i \in DOMAIN lanes : /\ lanes[i].recs \subseteq InWindow
                             /\ \A q \in lanes[i].recs : q <= n
                             /\ lanes[i].tpaths = LanePaths(lanes[i])
  /\ \A r \in InWindow : r <= n => \E i \in DOMAIN lanes : r \in lanes[i].recs
  /\ \A i, j \in DOMAIN lanes : i # j /\ lanes[i].name = lanes[j].name => lanes[i].tpaths \cap lanes[j].tpaths = {}

LEMMA MorePaths ==
  ASSUME NEW lane, NEW new, NEW r, new.recs = lane.recs \cup {r}
  PROVE  LanePaths(new) = LanePaths(lane) \cup Chats(r)
BY Zenon DEF LanePaths, Chats

\* A record shares no transcript with two lanes of its name.
LEMMA SharesWithOne ==
  ASSUME LaneInv, NEW r \in InWindow, NEW lanes, LanesSound(lanes, r - 1),
         NEW i \in DOMAIN lanes, NEW j \in DOMAIN lanes, i # j,
         lanes[i].name = lanes[j].name,
         NEW p \in Chats(r) \cap lanes[i].tpaths, NEW u \in Chats(r) \cap lanes[j].tpaths
  PROVE  FALSE
<1>1. r \in DOMAIN recs /\ r \in Nat /\ DOMAIN recs \subseteq Nat
  BY RecIs DEF InWindow, LaneInv
<1>2. ASSUME NEW k \in DOMAIN lanes, NEW x \in Chats(r) \cap lanes[k].tpaths PROVE x = recs[r].chats[1]
  <2>1. PICK q \in lanes[k].recs : x \in Chats(q)
    <3>1. x \in LanePaths(lanes[k])
      BY <1>2 DEF LanesSound
    <3> QED  BY <3>1, Zenon DEF LanePaths, Chats
  <2>2. q \in DOMAIN recs /\ q <= r - 1
    BY Zenon DEF LanesSound, InWindow
  <2>3. q < r
    BY <1>1, <2>2
  <2> QED  BY <1>1, <1>2, <2>1, <2>2, <2>3 DEF LaneInv, ChatsShared
<1>3. p = u
  BY <1>2
<1> QED  BY <1>3 DEF LanesSound

LEMMA PlacedSound ==
  ASSUME LaneInv, NEW r \in InWindow, NEW lanes, LanesSound(lanes, r - 1)
  PROVE  LanesSound(Placed(lanes, r), r)
<1> DEFINE new == Placed(lanes, r)
<1>1. /\ r \in DOMAIN recs /\ r \in Nat /\ LanesTypeOK /\ lanes \in Seq(LaneType) /\ InWindow \subseteq Nat
      /\ \A i \in DOMAIN lanes : lanes[i] \in LaneType
  BY RecIs, MembersAre DEF InWindow, LaneInv, LanesSound
<1>2. /\ new \in Seq(LaneType)
      /\ \E m : Joined(lanes, new, r, m) \/ Begun(lanes, new, r, m)
  BY <1>1, PlacedIs
<1> HIDE DEF new
<1>3. \A q \in InWindow : q <= r => q <= r - 1 \/ q = r
  BY <1>1
<1>4. ASSUME NEW m, Joined(lanes, new, r, m) PROVE LanesSound(new, r)
  <2>1. /\ m \in DOMAIN lanes /\ DOMAIN new = DOMAIN lanes /\ lanes[m].name = recs[r].name
        /\ new[m].name = lanes[m].name /\ new[m].recs = lanes[m].recs \cup {r}
        /\ new[m].tpaths = lanes[m].tpaths \cup Chats(r)
        /\ \A i \in DOMAIN lanes : i # m => new[i] = lanes[i]
    BY <1>4 DEF Joined, Joins
  <2>2. ASSUME NEW i \in DOMAIN lanes
        PROVE  /\ new[i].recs \subseteq InWindow
               /\ \A q \in new[i].recs : q <= r
               /\ new[i].tpaths = LanePaths(new[i])
    <3>1. /\ lanes[i].recs \subseteq InWindow /\ (\A q \in lanes[i].recs : q <= r - 1)
          /\ lanes[i].tpaths = LanePaths(lanes[i])
      BY DEF LanesSound
    <3>2. \A q \in lanes[i].recs : q <= r
      BY <1>1, <3>1
    <3>3. CASE i = m
      <4>1. new[i].recs = lanes[i].recs \cup {r} /\ new[i].tpaths = lanes[i].tpaths \cup Chats(r)
        BY <2>1, <3>3
      <4>2. LanePaths(new[i]) = LanePaths(lanes[i]) \cup Chats(r)
        BY <4>1, MorePaths
      <4>3. r <= r
        BY <1>1
      <4> QED  BY <3>1, <3>2, <4>1, <4>2, <4>3
    <3>4. CASE i # m
      <4>1. new[i] = lanes[i]
        BY <2>1, <3>4
      <4> QED  BY <3>1, <3>2, <4>1
    <3> QED  BY <3>3, <3>4
  <2>3. ASSUME NEW q \in InWindow, q <= r PROVE \E i \in DOMAIN lanes : q \in new[i].recs
    <3>1. CASE q = r
      BY <2>1, <3>1
    <3>2. CASE q <= r - 1
      <4>1. PICK i \in DOMAIN lanes : q \in lanes[i].recs
        BY <3>2 DEF LanesSound
      <4>2. q \in new[i].recs
        BY <2>1, <4>1
      <4> QED  BY <4>2
    <3> QED  BY <1>3, <2>3, <3>1, <3>2
  <2>4. ASSUME NEW j \in DOMAIN lanes, j # m, lanes[j].name = lanes[m].name
        PROVE  lanes[j].tpaths \cap new[m].tpaths = {}
    <3>1. lanes[j].tpaths \cap lanes[m].tpaths = {}
      BY <2>1, <2>4 DEF LanesSound
    <3>2. ASSUME NEW u \in Chats(r) \cap lanes[j].tpaths PROVE FALSE
      <4>1. Chats(r) \cap lanes[m].tpaths # {}
        <5>1. recs[r].chats # <<>>
          <6>1. \A s : s = <<>> => ToSet(s) = {}
            BY DEF ToSet
          <6> QED  BY <3>2, <6>1 DEF Chats
        <5>2. Joins(lanes[m], r)
          BY <1>4 DEF Joined
        <5> QED  BY <5>1, <5>2 DEF Joins, Chats
      <4>2. PICK p : p \in Chats(r) \cap lanes[m].tpaths
        BY <4>1
      <4> QED  BY <2>1, <2>4, <3>2, <4>2, SharesWithOne
    <3> QED  BY <2>1, <3>1, <3>2
  <2>5. ASSUME NEW i \in DOMAIN lanes, NEW j \in DOMAIN lanes, i # j, new[i].name = new[j].name
        PROVE  new[i].tpaths \cap new[j].tpaths = {}
    <3>1. CASE i = m
      <4>1. new[j] = lanes[j]
        BY <2>1, <2>5, <3>1
      <4> QED  BY <2>1, <2>4, <2>5, <3>1, <4>1
    <3>2. CASE j = m
      <4>1. new[i] = lanes[i]
        BY <2>1, <2>5, <3>2
      <4> QED  BY <2>1, <2>4, <2>5, <3>2, <4>1
    <3>3. CASE i # m /\ j # m
      <4>1. new[i] = lanes[i] /\ new[j] = lanes[j]
        BY <2>1, <3>3
      <4> QED  BY <2>5, <4>1 DEF LanesSound
    <3> QED  BY <3>1, <3>2, <3>3
  <2> QED  BY <1>2, <2>1, <2>2, <2>3, <2>5 DEF LanesSound
<1>5. ASSUME NEW m, Begun(lanes, new, r, m) PROVE LanesSound(new, r)
  <2>1. /\ m = Len(lanes) + 1 /\ Len(lanes) \in Nat /\ DOMAIN lanes = 1..Len(lanes) /\ DOMAIN new = 1..m
        /\ new[m].name = recs[r].name /\ new[m].recs = {r} /\ new[m].tpaths = Chats(r)
        /\ \A i \in DOMAIN lanes : new[i] = lanes[i] /\ ~Joins(lanes[i], r)
    BY <1>1, <1>5 DEF Begun
  <2>2. /\ m \in DOMAIN new /\ \A i \in DOMAIN lanes : i \in DOMAIN new
        /\ \A i \in DOMAIN new : i = m \/ i \in DOMAIN lanes
    BY <2>1
  <2>3. ASSUME NEW i \in DOMAIN new
        PROVE  /\ new[i].recs \subseteq InWindow
               /\ \A q \in new[i].recs : q <= r
               /\ new[i].tpaths = LanePaths(new[i])
    <3>1. CASE i = m
      <4>1. LanePaths(new[m]) = Chats(r)
        BY <2>1, Zenon DEF LanePaths, Chats
      <4>2. r <= r
        BY <1>1
      <4> QED  BY <2>1, <3>1, <4>1, <4>2
    <3>2. CASE i \in DOMAIN lanes
      <4>1. /\ lanes[i].recs \subseteq InWindow /\ (\A q \in lanes[i].recs : q <= r - 1)
            /\ lanes[i].tpaths = LanePaths(lanes[i]) /\ new[i] = lanes[i]
        BY <2>1, <3>2 DEF LanesSound
      <4>2. \A q \in lanes[i].recs : q <= r
        BY <1>1, <4>1
      <4> QED  BY <4>1, <4>2
    <3> QED  BY <2>2, <3>1, <3>2
  <2>4. ASSUME NEW q \in InWindow, q <= r PROVE \E i \in DOMAIN new : q \in new[i].recs
    <3>1. CASE q = r
      BY <2>1, <2>2, <3>1
    <3>2. CASE q <= r - 1
      <4>1. PICK i \in DOMAIN lanes : q \in lanes[i].recs
        BY <3>2 DEF LanesSound
      <4>2. q \in new[i].recs
        BY <2>1, <4>1
      <4> QED  BY <2>2, <4>2
    <3> QED  BY <1>3, <2>4, <3>1, <3>2
  <2>5. ASSUME NEW j \in DOMAIN lanes, lanes[j].name = new[m].name
        PROVE  lanes[j].tpaths \cap new[m].tpaths = {}
    <3>1. lanes[j].name = recs[r].name /\ ~Joins(lanes[j], r)
      BY <2>1, <2>5
    <3>2. Chats(r) \cap lanes[j].tpaths = {}
      BY <3>1 DEF Joins, Chats
    <3> QED  BY <2>1, <3>2
  <2>6. ASSUME NEW i \in DOMAIN new, NEW j \in DOMAIN new, i # j, new[i].name = new[j].name
        PROVE  new[i].tpaths \cap new[j].tpaths = {}
    <3>1. CASE i = m
      <4>1. j \in DOMAIN lanes /\ new[j] = lanes[j]
        BY <2>1, <2>2, <2>6, <3>1
      <4>2. lanes[j].tpaths \cap new[m].tpaths = {}
        BY <2>5, <2>6, <3>1, <4>1
      <4> QED  BY <3>1, <4>1, <4>2
    <3>2. CASE j = m
      <4>1. i \in DOMAIN lanes /\ new[i] = lanes[i]
        BY <2>1, <2>2, <2>6, <3>2
      <4>2. lanes[i].tpaths \cap new[m].tpaths = {}
        BY <2>5, <2>6, <3>2, <4>1
      <4> QED  BY <3>2, <4>1, <4>2
    <3>3. CASE i # m /\ j # m
      <4>1. i \in DOMAIN lanes /\ j \in DOMAIN lanes /\ new[i] = lanes[i] /\ new[j] = lanes[j]
        BY <2>1, <2>2, <3>3
      <4> QED  BY <2>6, <4>1 DEF LanesSound
    <3> QED  BY <2>2, <3>1, <3>2, <3>3
  <2> QED  BY <1>2, <2>3, <2>4, <2>6 DEF LanesSound
<1> QED  BY <1>2, <1>4, <1>5 DEF new

\* The lanes of the timeline.
LEMMA LanesAreSound ==
  ASSUME LaneInv
  PROVE  LanesSound(Lanes, Len(recs))
<1>1. LanesTypeOK /\ Len(recs) \in Nat /\ DOMAIN recs = 1..Len(recs)
  BY RecIs DEF LaneInv
<1>2. PICK g : /\ g[0] = <<>> /\ Lanes = g[Len(recs)]
               /\ \A r \in 1..Len(recs) :
                    g[r] = IF r \in InWindow THEN Placed(g[r - 1], r) ELSE g[r - 1]
  BY <1>1, LanesBuilt
<1> DEFINE S == {n \in Nat : n <= Len(recs) => LanesSound(g[n], n)}
<1>3. 0 \in S
  <2>1. \A r \in InWindow : ~(r <= 0)
    BY <1>1 DEF InWindow
  <2>2. LanesSound(<<>>, 0)
    <3>1. <<>> \in Seq(LaneType) /\ DOMAIN <<>> = {}
      OBVIOUS
    <3> QED  BY <2>1, <3>1 DEF LanesSound
  <2> QED  BY <1>2, <2>2
<1>4. ASSUME NEW n \in Nat, n \in S PROVE n + 1 \in S
  <2> SUFFICES ASSUME n + 1 <= Len(recs) PROVE LanesSound(g[n + 1], n + 1)
    OBVIOUS
  <2>1. n + 1 \in 1..Len(recs) /\ (n + 1) - 1 = n /\ LanesSound(g[n], n)
    BY <1>1, <1>4
  <2>2. CASE n + 1 \in InWindow
    <3>1. g[n + 1] = Placed(g[n], n + 1)
      BY <1>2, <2>1, <2>2
    <3>2. LanesSound(g[n], (n + 1) - 1)
      BY <2>1, Zenon
    <3> QED  BY <2>2, <3>1, <3>2, PlacedSound
  <2>3. CASE n + 1 \notin InWindow
    <3>1. g[n + 1] = g[n]
      BY <1>2, <2>1, <2>3
    <3>2. \A q \in InWindow : q \in Nat
      BY <1>1 DEF InWindow
    <3>3. \A q \in InWindow : q <= n + 1 => q <= n
      BY <2>3, <3>2
    <3>4. \A q \in InWindow : q <= n => q <= n + 1
      BY <3>2
    <3> QED  BY <2>1, <3>1, <3>3, <3>4 DEF LanesSound
  <2> QED  BY <2>2, <2>3
<1> HIDE DEF S
<1>5. Len(recs) \in S
  BY <1>1, <1>3, <1>4, SetInduction
<1>6. Len(recs) <= Len(recs)
  BY <1>1
<1> QED  BY <1>2, <1>5, <1>6 DEF S

\* The rows of the first k that were spoken.
RowsUpTo(rows, k, lane) ==
  /\ rows \in Seq(1..k)
  /\ \A i, j \in DOMAIN rows : i < j => rows[i] < rows[j]
  /\ \A l \in 1..k : spoken[l].path \in LanePaths(lane) => \E i \in DOMAIN rows : rows[i] = l
  /\ \A i \in DOMAIN rows : spoken[rows[i]].path \in LanePaths(lane)

LEMMA RowsBuilt ==
  ASSUME NEW lane, LaneInv
  PROVE  \E g : /\ g[0] = <<>> /\ LaneRows(lane) = g[Len(spoken)]
                /\ \A k \in 1..Len(spoken) :
                     g[k] = IF spoken[k].path \in LanePaths(lane) THEN Append(g[k - 1], k) ELSE g[k - 1]
<1> DEFINE T == Seq(Nat)
           n == Len(spoken)
           step == [k \in 1..n |-> [rows \in T |-> IF spoken[k].path \in LanePaths(lane) THEN Append(rows, k) ELSE rows]]
           Build(g) == g = [k \in 0..n |-> IF k = 0 THEN <<>>
                                           ELSE IF spoken[k].path \in LanePaths(lane) THEN Append(g[k - 1], k) ELSE g[k - 1]]
<1>1. n \in Nat
  BY DEF LaneInv, LanesTypeOK
<1>2. <<>> \in T
  OBVIOUS
<1>3. ASSUME NEW k \in 1..n, NEW rows \in T
      PROVE  (IF spoken[k].path \in LanePaths(lane) THEN Append(rows, k) ELSE rows) \in T
  BY <1>1
<1> HIDE DEF T
<1>5. \A k \in 1..n : \A rows \in T :
        step[k][rows] = IF spoken[k].path \in LanePaths(lane) THEN Append(rows, k) ELSE rows
  OBVIOUS
<1>4. StepsIn(step, n, T)
  BY <1>3, <1>5 DEF StepsIn
<1> DEFINE z == <<>>
<1>z. z \in T
  BY <1>2
<1> HIDE DEF step, n, z
<1>g. PICK g : Iteration(g, z, step, n, T)
  BY <1>1, <1>z, <1>4, Iterates
<1>6. g \in [0..n -> T] /\ g[0] = z /\ \A k \in 1..n : g[k] = step[k][g[k - 1]]
  BY <1>g DEF Iteration
<1>7. \A k \in 1..n : g[k] = IF spoken[k].path \in LanePaths(lane) THEN Append(g[k - 1], k) ELSE g[k - 1]
  <2> TAKE k \in 1..n
  <2>1. k - 1 \in 0..n
    BY <1>1
  <2>2. g[k - 1] \in T
    BY <1>6, <2>1
  <2> QED  BY <1>5, <1>6, <2>2
<1>8. Build(g)
  <2>1. \A k \in 0..n : k = 0 \/ k \in 1..n
    BY <1>1
  <2>2. \A k \in 0..n : g[k] = IF k = 0 THEN <<>>
                                 ELSE IF spoken[k].path \in LanePaths(lane) THEN Append(g[k - 1], k) ELSE g[k - 1]
    BY <1>6, <1>7, <2>1 DEF z
  <2> QED  BY <1>6, <2>2
<1> DEFINE upTo == CHOOSE h : Build(h)
<1>9. LaneRows(lane) = upTo[n]
  BY DEF LaneRows, n
<1>10. Build(upTo)
  BY <1>8
<1> HIDE DEF upTo
<1>11. 0 \in 0..n /\ n \in 0..n /\ \A k \in 1..n : k \in 0..n /\ k # 0
  BY <1>1
<1>12. upTo[0] = <<>> /\ \A k \in 1..n : upTo[k] = IF spoken[k].path \in LanePaths(lane) THEN Append(upTo[k - 1], k) ELSE upTo[k - 1]
  BY <1>10, <1>11
<1> QED  BY <1>9, <1>12 DEF n

LEMMA OneRowMore ==
  ASSUME NEW lane, NEW k \in Nat, NEW rows, RowsUpTo(rows, k, lane)
  PROVE  /\ spoken[k + 1].path \in LanePaths(lane) => RowsUpTo(Append(rows, k + 1), k + 1, lane)
         /\ spoken[k + 1].path \notin LanePaths(lane) => RowsUpTo(rows, k + 1, lane)
<1>1. /\ rows \in Seq(1..k) /\ \A i \in DOMAIN rows : rows[i] \in 1..k
      /\ Len(rows) \in Nat /\ DOMAIN rows = 1..Len(rows)
  BY MembersAre DEF RowsUpTo
<1>2. rows \in Seq(1..(k + 1))
  <2>1. 1..k \subseteq 1..(k + 1)
    OBVIOUS
  <2> QED  BY <1>1, <2>1
<1>3. \A l \in 1..(k + 1) : l \in 1..k \/ l = k + 1
  OBVIOUS
<1>4. CASE spoken[k + 1].path \notin LanePaths(lane)
  <2>1. \A l \in 1..(k + 1) : spoken[l].path \in LanePaths(lane) => \E i \in DOMAIN rows : rows[i] = l
    BY <1>3, <1>4 DEF RowsUpTo
  <2> QED  BY <1>2, <1>4, <2>1 DEF RowsUpTo
<1>5. CASE spoken[k + 1].path \in LanePaths(lane)
  <2> DEFINE new == Append(rows, k + 1)
             m == Len(rows) + 1
  <2>1. /\ new \in Seq(1..(k + 1)) /\ DOMAIN new = 1..m /\ new[m] = k + 1
        /\ \A i \in 1..Len(rows) : new[i] = rows[i]
    BY <1>1, <1>2
  <2>2. /\ \A i \in 1..m : i \in 1..Len(rows) \/ i = m
        /\ m \in 1..m /\ \A i \in 1..Len(rows) : i \in 1..m
    BY <1>1
  <2> HIDE DEF new
  <2>3. ASSUME NEW i \in 1..m, NEW j \in 1..m, i < j PROVE new[i] < new[j]
    <3>1. i \in 1..Len(rows)
      BY <1>1, <2>3
    <3>2. CASE j = m
      BY <1>1, <2>1, <3>1, <3>2
    <3>3. CASE j \in 1..Len(rows)
      BY <1>1, <2>1, <2>3, <3>1, <3>3 DEF RowsUpTo
    <3> QED  BY <2>2, <3>2, <3>3
  <2>4. ASSUME NEW l \in 1..(k + 1), spoken[l].path \in LanePaths(lane) PROVE \E i \in 1..m : new[i] = l
    <3>1. CASE l = k + 1
      BY <2>1, <2>2, <3>1
    <3>2. CASE l \in 1..k
      <4>1. PICK i \in 1..Len(rows) : rows[i] = l
        BY <1>1, <2>4, <3>2 DEF RowsUpTo
      <4> QED  BY <2>1, <2>2, <4>1
    <3> QED  BY <1>3, <3>1, <3>2
  <2>5. \A i \in 1..m : spoken[new[i]].path \in LanePaths(lane)
    BY <1>1, <1>5, <2>1, <2>2 DEF RowsUpTo
  <2>6. RowsUpTo(new, k + 1, lane)
    BY <2>1, <2>3, <2>4, <2>5 DEF RowsUpTo
  <2> QED  BY <1>5, <2>6 DEF new
<1> QED  BY <1>4, <1>5

LEMMA RowsAre ==
  ASSUME LaneInv, NEW lane
  PROVE  RowsUpTo(LaneRows(lane), Len(spoken), lane)
<1>1. Len(spoken) \in Nat 
  BY DEF LaneInv, LanesTypeOK
<1>2. PICK g : /\ g[0] = <<>> /\ LaneRows(lane) = g[Len(spoken)]
               /\ \A k \in 1..Len(spoken) :
                    g[k] = IF spoken[k].path \in LanePaths(lane) THEN Append(g[k - 1], k) ELSE g[k - 1]
  BY <1>1, RowsBuilt
<1> DEFINE S == {k \in Nat : k <= Len(spoken) => RowsUpTo(g[k], k, lane)}
<1>3. 0 \in S
  <2>1. RowsUpTo(<<>>, 0, lane)
    <3>1. <<>> \in Seq(1..0) /\ DOMAIN <<>> = {} /\ 1..0 = {}
      OBVIOUS
    <3> QED  BY <3>1 DEF RowsUpTo
  <2> QED  BY <1>2, <2>1
<1>4. ASSUME NEW k \in Nat, k \in S PROVE k + 1 \in S
  <2> SUFFICES ASSUME k + 1 <= Len(spoken) PROVE RowsUpTo(g[k + 1], k + 1, lane)
    OBVIOUS
  <2>1. k + 1 \in 1..Len(spoken) /\ (k + 1) - 1 = k /\ RowsUpTo(g[k], k, lane)
    BY <1>1, <1>4
  <2>2. g[k + 1] = IF spoken[k + 1].path \in LanePaths(lane) THEN Append(g[k], k + 1) ELSE g[k]
    BY <1>2, <2>1
  <2>3. CASE spoken[k + 1].path \in LanePaths(lane)
    <3>1. g[k + 1] = Append(g[k], k + 1)
      BY <2>2, <2>3
    <3> QED  BY <2>1, <2>3, <3>1, OneRowMore
  <2>4. CASE spoken[k + 1].path \notin LanePaths(lane)
    <3>1. g[k + 1] = g[k]
      BY <2>2, <2>4
    <3> QED  BY <2>1, <2>4, <3>1, OneRowMore
  <2> QED  BY <2>3, <2>4
<1> HIDE DEF S
<1>5. Len(spoken) \in S
  BY <1>1, <1>3, <1>4, SetInduction
<1>6. Len(spoken) <= Len(spoken)
  BY <1>1
<1> QED  BY <1>2, <1>5, <1>6 DEF S

\* Times only grow.
Ordered(times) == times \in Seq(Nat) /\ \A i, j \in DOMAIN times : i <= j => times[i] <= times[j]

LEMMA TimesAreOrdered ==
  ASSUME LaneInv, NEW lane
  PROVE  Ordered(Times(lane))
<1> DEFINE rows == LaneRows(lane)
           n == Len(spoken)
<1>1. /\ n \in Nat /\ DOMAIN spoken = 1..n /\ \A k \in 1..n : spoken[k].t \in Nat
  <2>1. spoken \in Seq([path: 1..MaxPath, t: 0..MaxNow]) /\ MaxNow \in Nat
    BY LanesAssumption DEF LaneInv, LanesTypeOK
  <2> DEFINE T == [path: 1..MaxPath, t: 0..MaxNow]
  <2>4. \A k \in DOMAIN spoken : spoken[k] \in T
    BY <2>1, MembersAre
  <2>2. \A k \in DOMAIN spoken : spoken[k].t \in 0..MaxNow
    BY <2>4
  <2>3. Len(spoken) \in Nat /\ DOMAIN spoken = 1..Len(spoken)
    BY <2>1
  <2> QED  BY <2>1, <2>2, <2>3
<1>2. RowsUpTo(rows, n, lane)
  BY RowsAre
<1> HIDE DEF rows, n
<1>r. rows \in Seq(1..n)
  BY <1>2 DEF RowsUpTo
<1>m. \A i \in DOMAIN rows : rows[i] \in 1..n
  BY <1>r, MembersAre
<1>l. Len(rows) \in Nat /\ DOMAIN rows = 1..Len(rows)
  BY <1>r
<1>3. /\ Len(rows) \in Nat /\ DOMAIN rows = 1..Len(rows) /\ \A i \in DOMAIN rows : rows[i] \in 1..n
  BY <1>m, <1>l
<1>4. Times(lane) = [i \in 1..Len(rows) |-> spoken[rows[i]].t]
  BY <1>3 DEF Times, rows
<1>5. \A i \in 1..Len(rows) : spoken[rows[i]].t \in Nat
  BY <1>1, <1>3
<1>6. Times(lane) \in Seq(Nat)
  BY <1>3, <1>4, <1>5
<1>7. ASSUME NEW i \in 1..Len(rows), NEW j \in 1..Len(rows), i <= j
      PROVE  spoken[rows[i]].t <= spoken[rows[j]].t
  <2>1. CASE i = j
    BY <1>5, <2>1
  <2>2. CASE i < j
    <3>1. rows[i] < rows[j]
      BY <1>2, <1>3, <2>2 DEF RowsUpTo
    <3> QED  BY <1>1, <1>3, <3>1 DEF LaneInv, SpokenInTime
  <2> QED  BY <1>3, <1>7, <2>1, <2>2
<1> QED  BY <1>3, <1>4, <1>6, <1>7 DEF Ordered

Seg == [first: Nat, last: Nat]
ReadType == [segs: Seq(Seg), run: Seg \cup {None}]

Within(seg, t) == seg.first <= t /\ t <= seg.last

\* No silence in a segment is as long as one that ends it.
NoHole(seg, times, n) ==
  \A t \in seg.first..(seg.last - SegGap - 1) : \E i \in 1..n : t < times[i] /\ times[i] <= t + SegGap + 1

\* What is left of a silence between two segments.
Rest == SegGap - MinSeg

Apart(segs) == \A s, u \in DOMAIN segs : s < u => segs[u].first - segs[s].last > Rest

\* The segments and the run of the first n times.
ReadUpTo(read, times, n) ==
  /\ read \in ReadType
  /\ n = 0 => read.run = None /\ read.segs = <<>>
  /\ n > 0 => /\ read.run \in Seg /\ read.run.first <= read.run.last /\ read.run.last = times[n]
              /\ \A s \in DOMAIN read.segs : read.run.first - read.segs[s].last > Rest
              /\ NoHole(read.run, times, n)
  /\ Apart(read.segs)
  /\ \A s \in DOMAIN read.segs : NoHole(read.segs[s], times, n)
  /\ \A i \in 1..n : times[i] >= Cut =>
       Within(read.run, times[i]) \/ \E s \in DOMAIN read.segs : Within(read.segs[s], times[i])

\* The segments of the first n times, when the run is closed.
Covers(segs, times, n) ==
  /\ segs \in Seq(Seg) /\ Apart(segs)
  /\ \A s \in DOMAIN segs : NoHole(segs[s], times, n)
  /\ \A i \in 1..n : times[i] >= Cut => \E s \in DOMAIN segs : Within(segs[s], times[i])

\* What remains of a silence to a later begin, and from a later end.
LEMMA Remains ==
  ASSUME NEW begin \in Nat, NEW end \in Nat, NEW rest \in Nat
  PROVE  /\ \A later \in Nat : begin - end > rest /\ begin <= later => later - end > rest
         /\ \A later, pad \in Nat : begin - end > rest + pad /\ later <= end + pad => begin - later > rest
OBVIOUS

LEMMA CutIs == ASSUME LaneInv PROVE Cut \in Nat /\ SegGap \in Nat /\ MinSeg \in Nat /\ Rest \in Nat /\ Rest + MinSeg = SegGap
<1>1. {now, Window, SegGap, MinSeg} \subseteq Nat /\ MinSeg <= SegGap
  BY LanesAssumption, RecIs DEF LaneInv
<1>2. Cut \in Nat
  BY <1>1 DEF Cut
<1>3. Rest \in Nat /\ Rest + MinSeg = SegGap
  BY <1>1 DEF Rest
<1> QED  BY <1>1, <1>2, <1>3

LEMMA RunEndIs ==
  ASSUME LaneInv, NEW run \in Seg, run.first <= run.last
  PROVE  /\ RunEnd(run) \in Nat /\ run.last <= RunEnd(run) /\ RunEnd(run) <= run.last + MinSeg
         /\ RunEnd(run) = run.last \/ RunEnd(run) = run.first + MinSeg
BY CutIs DEF Seg, RunEnd

LEMMA ClosedIs ==
  ASSUME LaneInv, NEW read \in ReadType
  PROVE  Closed(read) \in Seq(Seg)
<1>1. Cut \in Nat /\ read.segs \in Seq(Seg) /\ (read.run = None \/ read.run \in Seg)
  BY CutIs DEF ReadType
<1>2. CASE read.run = None \/ RunEnd(read.run) < Cut
  BY <1>1, <1>2 DEF Closed
<1>3. CASE ~(read.run = None \/ RunEnd(read.run) < Cut)
  <2> DEFINE new == [first |-> IF read.run.first < Cut THEN Cut ELSE read.run.first, last |-> RunEnd(read.run)]
  <2>1. read.run \in Seg
    BY <1>1, <1>3
  <2>2. new \in Seg
    <3>1. RunEnd(read.run) \in Nat
      BY <2>1, CutIs DEF Seg, RunEnd
    <3> QED  BY <1>1, <2>1, <3>1 DEF Seg
  <2>3. Closed(read) = Append(read.segs, new)
    BY <1>3 DEF Closed
  <2> HIDE DEF new
  <2> QED  BY <1>1, <2>2, <2>3
<1> QED  BY <1>2, <1>3

LEMMA ClosedCovers ==
  ASSUME LaneInv, NEW times, Ordered(times), NEW n \in 1..Len(times), NEW read, ReadUpTo(read, times, n)
  PROVE  /\ Covers(Closed(read), times, n)
         /\ \A s \in DOMAIN Closed(read) : Closed(read)[s].last <= times[n] + MinSeg
<1>1. Cut \in Nat /\ SegGap \in Nat /\ MinSeg \in Nat /\ Rest \in Nat /\ Rest + MinSeg = SegGap
  BY CutIs
<1>2. /\ read \in ReadType /\ read.run \in Seg /\ read.run.first <= read.run.last /\ read.run.last = times[n]
      /\ (\A s \in DOMAIN read.segs : read.run.first - read.segs[s].last > Rest)
      /\ NoHole(read.run, times, n)
  <2>1. n > 0
    BY DEF Ordered
  <2> QED  BY <2>1 DEF ReadUpTo
<1>3. /\ read.segs \in Seq(Seg) /\ Len(read.segs) \in Nat /\ DOMAIN read.segs = 1..Len(read.segs)
      /\ \A s \in DOMAIN read.segs : read.segs[s] \in Seg
  BY <1>2, MembersAre DEF ReadType
<1>4. /\ read.run.first \in Nat /\ read.run.last \in Nat
      /\ \A s \in DOMAIN read.segs : read.segs[s].first \in Nat /\ read.segs[s].last \in Nat
  BY <1>2, <1>3 DEF Seg
<1>5. /\ times \in Seq(Nat) /\ Len(times) \in Nat /\ DOMAIN times = 1..Len(times)
      /\ \A i \in 1..Len(times) : times[i] \in Nat
  BY DEF Ordered
<1>6. read.run # None
  BY <1>2, LanesAssumption DEF Seg
<1>e. /\ RunEnd(read.run) \in Nat /\ read.run.last <= RunEnd(read.run) /\ RunEnd(read.run) <= read.run.last + MinSeg
      /\ RunEnd(read.run) = read.run.last \/ RunEnd(read.run) = read.run.first + MinSeg
  BY <1>2, RunEndIs
<1>7. \A s \in DOMAIN read.segs : read.segs[s].last <= times[n] + MinSeg
  BY <1>1, <1>2, <1>4
<1>8. CASE RunEnd(read.run) < Cut
  <2>1. Closed(read) = read.segs
    BY <1>8 DEF Closed
  <2>2. ASSUME NEW i \in 1..n, times[i] >= Cut PROVE \E s \in DOMAIN read.segs : Within(read.segs[s], times[i])
    <3>1. ~Within(read.run, times[i])
      <4>1. times[i] \in Nat
        <5>1. i \in 1..Len(times)
          BY <1>5
        <5> QED  BY <1>5, <5>1
      <4>3. Cut \in Nat /\ RunEnd(read.run) \in Nat /\ read.run.last \in Nat /\ read.run.last <= RunEnd(read.run)
        BY <1>1, <1>4, <1>e
      <4>2. ~(times[i] <= read.run.last)
        BY <1>8, <2>2, <4>1, <4>3
      <4> QED  BY <4>2 DEF Within
    <3> QED  BY <2>2, <3>1 DEF ReadUpTo
  <2>3. Covers(read.segs, times, n)
    BY <1>3, <2>2 DEF Covers, ReadUpTo
  <2> QED  BY <1>7, <2>1, <2>3
<1>9. CASE ~(RunEnd(read.run) < Cut)
  <2> DEFINE new == [first |-> IF read.run.first < Cut THEN Cut ELSE read.run.first, last |-> RunEnd(read.run)]
             segs == Closed(read)
             m == Len(read.segs) + 1
  <2>1. segs = Append(read.segs, new)
    BY <1>6, <1>9 DEF Closed
  <2>2. /\ new \in Seg /\ new.first \in Nat /\ new.last = RunEnd(read.run)
        /\ read.run.first <= new.first /\ (new.first = Cut \/ new.first = read.run.first)
    BY <1>1, <1>4, <1>e DEF Seg
  <2> HIDE DEF new, segs
  <2>3. /\ segs \in Seq(Seg) /\ DOMAIN segs = 1..m /\ segs[m] = new
        /\ \A s \in DOMAIN read.segs : segs[s] = read.segs[s]
    BY <1>3, <2>1, <2>2
  <2>4. /\ \A s \in 1..m : s \in DOMAIN read.segs \/ s = m
        /\ m \in 1..m /\ \A s \in DOMAIN read.segs : s \in 1..m
    BY <1>3
  <2>5. Apart(segs)
    <3> SUFFICES ASSUME NEW s \in 1..m, NEW u \in 1..m, s < u PROVE segs[u].first - segs[s].last > Rest
      BY <2>3 DEF Apart
    <3>1. s \in DOMAIN read.segs
      BY <1>3, <2>4
    <3>2. CASE u = m
      <4>1. read.run.first - read.segs[s].last > Rest
        BY <1>2, <3>1
      <4>2. new.first - read.segs[s].last > Rest
        <5>1. /\ read.segs[s].last \in Nat /\ read.run.first \in Nat /\ new.first \in Nat
              /\ read.run.first <= new.first
          BY <1>4, <2>2, <3>1
        <5>2. Rest \in Nat
          BY <1>1
        <5> QED  BY <4>1, <5>1, <5>2, Remains
      <4> QED  BY <2>3, <3>1, <3>2, <4>2
    <3>3. CASE u \in DOMAIN read.segs
      BY <2>3, <3>1, <3>3 DEF ReadUpTo, Apart
    <3> QED  BY <2>4, <3>2, <3>3
  <2>6. ASSUME NEW s \in 1..m PROVE NoHole(segs[s], times, n)
    <3>1. CASE s \in DOMAIN read.segs
      BY <2>3, <3>1 DEF ReadUpTo
    <3>2. CASE s = m
      <4>1. NoHole(new, times, n)
        <5> SUFFICES ASSUME NEW t \in new.first..(new.last - SegGap - 1)
                     PROVE  \E i \in 1..n : t < times[i] /\ times[i] <= t + SegGap + 1
          BY DEF NoHole
        <5>1. t \in read.run.first..(read.run.last - SegGap - 1)
          <6>1. t \in Int /\ read.run.first <= t
            BY <1>1, <1>4, <2>2
          <6>2. t <= read.run.last - SegGap - 1
            <7>1. t <= RunEnd(read.run) - SegGap - 1
              BY <2>2
            <7>2. CASE RunEnd(read.run) = read.run.first + MinSeg
              <8>1. t <= (read.run.first + MinSeg) - SegGap - 1
                BY <7>1, <7>2
              <8>2. read.run.first \in Nat /\ MinSeg \in Nat /\ Rest \in Nat /\ SegGap = Rest + MinSeg
                BY <1>1, <1>4
              <8> HIDE DEF RunEnd
              <8>3. t <= read.run.first - Rest - 1
                BY <6>1, <8>1, <8>2
              <8> QED  BY <6>1, <8>2, <8>3
            <7> QED  BY <1>e, <7>1, <7>2
          <6> QED  BY <1>1, <1>4, <6>1, <6>2
        <5> QED  BY <1>2, <5>1 DEF NoHole
      <4> QED  BY <2>3, <3>2, <4>1
    <3> QED  BY <2>4, <3>1, <3>2
  <2>7. ASSUME NEW i \in 1..n, times[i] >= Cut PROVE \E s \in 1..m : Within(segs[s], times[i])
    <3>1. CASE Within(read.run, times[i])
      <4>1. times[i] \in Nat
        <5>1. i \in 1..Len(times)
          BY <1>5
        <5> QED  BY <1>5, <5>1
      <4>2. read.run.first <= times[i] /\ times[i] <= read.run.last
        BY <3>1 DEF Within
      <4>3. new.first <= times[i]
        BY <2>2, <2>7, <4>2
      <4>4. times[i] <= new.last
        BY <1>4, <1>e, <2>2, <4>1, <4>2
      <4>5. Within(new, times[i])
        BY <4>3, <4>4 DEF Within
      <4> QED  BY <2>3, <2>4, <4>5
    <3>2. CASE \E s \in DOMAIN read.segs : Within(read.segs[s], times[i])
      BY <2>3, <2>4, <3>2
    <3> QED  BY <2>7, <3>1, <3>2 DEF ReadUpTo
  <2>8. \A s \in 1..m : segs[s].last <= times[n] + MinSeg
    <3>1. new.last <= times[n] + MinSeg
      BY <1>1, <1>2, <1>4, <1>e, <2>2
    <3> QED  BY <1>7, <2>3, <2>4, <3>1
  <2> QED  BY <2>3, <2>5, <2>6, <2>7, <2>8 DEF Covers, segs
<1> QED  BY <1>8, <1>9

LEMMA NoHoleLater ==
  ASSUME NEW seg, NEW times, NEW n \in Nat, NoHole(seg, times, n)
  PROVE  NoHole(seg, times, n + 1)
<1>1. \A i \in 1..n : i \in 1..(n + 1)
  OBVIOUS
<1> QED  BY <1>1, Zenon DEF NoHole

LEMMA ReadMade ==
  ASSUME NEW times, NEW n \in Nat, NEW read \in ReadType,
         read.run \in Seg, read.run.first <= read.run.last, read.run.last = times[n + 1],
         \A s \in DOMAIN read.segs : read.run.first - read.segs[s].last > Rest,
         NoHole(read.run, times, n + 1), Apart(read.segs),
         \A s \in DOMAIN read.segs : NoHole(read.segs[s], times, n + 1),
         \A i \in 1..(n + 1) : times[i] >= Cut =>
           Within(read.run, times[i]) \/ \E s \in DOMAIN read.segs : Within(read.segs[s], times[i])
  PROVE  ReadUpTo(read, times, n + 1)
<1>1. n + 1 # 0
  OBVIOUS
<1> QED  BY <1>1, Zenon DEF ReadUpTo

LEMMA OneTimeMore ==
  ASSUME LaneInv, NEW times, Ordered(times), NEW n \in Nat, n + 1 <= Len(times),
         NEW read, ReadUpTo(read, times, n)
  PROVE  ReadUpTo(ReadOn(read, times[n + 1]), times, n + 1)
<1> DEFINE t == times[n + 1]
           new == ReadOn(read, t)
<1>1. Cut \in Nat /\ SegGap \in Nat /\ MinSeg \in Nat /\ Rest \in Nat /\ Rest + MinSeg = SegGap
  BY CutIs
<1>2. /\ times \in Seq(Nat) /\ Len(times) \in Nat /\ DOMAIN times = 1..Len(times)
      /\ \A i \in 1..Len(times) : times[i] \in Nat
  BY DEF Ordered
<1>3. /\ n + 1 \in 1..Len(times) /\ t \in Nat /\ n + 1 > 0 /\ n + 1 # 0
      /\ \A i \in 1..(n + 1) : i \in 1..n \/ i = n + 1
      /\ n + 1 \in 1..(n + 1)
  BY <1>2
<1>4. read \in ReadType /\ read.segs \in Seq(Seg)
  BY DEF ReadUpTo, ReadType
<1>5. CASE read.run = None \/ Silence(read.run.last, t)
  <2>1. new.segs = Closed(read) /\ new.run = [first |-> t, last |-> t] /\ new = [segs |-> Closed(read), run |-> new.run]
    BY <1>5 DEF ReadOn
  <2> HIDE DEF new
  <2>2. new.run \in Seg /\ new.run.first = t /\ new.run.last = t
    BY <1>3, <2>1 DEF Seg
  <2>3. new \in ReadType
    BY <1>4, <2>1, <2>2, ClosedIs DEF ReadType
  <2>4. NoHole(new.run, times, n + 1)
    <3>1. \A x \in t..(t - SegGap - 1) : FALSE
      BY <1>1, <1>3
    <3> QED  BY <2>2, <3>1 DEF NoHole
  <2>5. Within(new.run, t)
    BY <1>3, <2>2 DEF Within
  <2>6. CASE n = 0
    <3>1. read.segs = <<>> /\ read.run = None
      BY <2>6 DEF ReadUpTo
    <3>2. new.segs = <<>>
      BY <2>1, <3>1 DEF Closed
    <3>3. DOMAIN new.segs = {}
      BY <3>2
    <3>4. \A i \in 1..(n + 1) : Within(new.run, times[i])
      BY <2>5, <2>6
    <3>5. Apart(new.segs)
      BY <3>3 DEF Apart
    <3>6. new.run.first <= new.run.last /\ new.run.last = times[n + 1]
      BY <1>3, <2>2
    <3> HIDE DEF t
    <3>7. ReadUpTo(new, times, n + 1)
      BY <2>2, <2>3, <2>4, <3>3, <3>4, <3>5, <3>6, ReadMade
    <3> QED  BY <3>7 DEF new, t
  <2>7. CASE n # 0
    <3>1. n \in 1..Len(times) /\ n > 0
      BY <1>2, <2>7
    <3>2. /\ Covers(new.segs, times, n)
          /\ \A s \in DOMAIN new.segs : new.segs[s].last <= times[n] + MinSeg
      BY <2>1, <3>1, ClosedCovers
    <3>3. read.run \in Seg /\ read.run.last = times[n] /\ read.run # None
      <4>1. read.run \in Seg /\ read.run.last = times[n]
        BY <3>1 DEF ReadUpTo
      <4> QED  BY <4>1, LanesAssumption DEF Seg
    <3>4. t - times[n] > SegGap
      BY <1>5, <3>3 DEF Silence
    <3>5. ASSUME NEW s \in DOMAIN new.segs PROVE new.run.first - new.segs[s].last > Rest
      <4>1. new.segs[s] \in Seg
        BY <3>2, MembersAre DEF Covers
      <4>2. new.segs[s].last \in Nat
        BY <4>1 DEF Seg
      <4>3. times[n] \in Nat
        BY <1>2, <3>1
      <4>4. new.segs[s].last <= times[n] + MinSeg
        BY <3>2
      <4>5. t \in Nat /\ MinSeg \in Nat /\ Rest \in Nat /\ SegGap = Rest + MinSeg
        BY <1>1, <1>3
      <4> HIDE DEF t
      <4>6. t - new.segs[s].last > Rest
        <5>1. t - times[n] > Rest + MinSeg
          BY <3>4, <4>5
        <5> DEFINE end == new.segs[s].last
                   before == times[n]
        <5>2. end \in Nat /\ before \in Nat /\ end <= before + MinSeg /\ t - before > Rest + MinSeg
          BY <4>2, <4>3, <4>4, <5>1
        <5> HIDE DEF end, before
        <5>3. t - end > Rest
          BY <4>5, <5>2
        <5> QED  BY <5>3 DEF end
      <4> QED  BY <2>2, <4>6
    <3>6. \A s \in DOMAIN new.segs : NoHole(new.segs[s], times, n + 1)
      BY <3>2, NoHoleLater DEF Covers
    <3>7. ASSUME NEW i \in 1..(n + 1), times[i] >= Cut
          PROVE  Within(new.run, times[i]) \/ \E s \in DOMAIN new.segs : Within(new.segs[s], times[i])
      <4>1. CASE i = n + 1
        BY <2>5, <4>1
      <4>2. CASE i \in 1..n
        BY <3>2, <3>7, <4>2 DEF Covers
      <4> QED  BY <1>3, <4>1, <4>2
    <3>8. Apart(new.segs)
      BY <3>2 DEF Covers
    <3>9. new.run.first <= new.run.last
      BY <1>3, <2>2
    <3> HIDE DEF t
    <3>10. new.run.last = times[n + 1]
      BY <2>2 DEF t
    <3>11. ReadUpTo(new, times, n + 1)
      BY <2>2, <2>3, <2>4, <3>5, <3>6, <3>7, <3>8, <3>9, <3>10, ReadMade
    <3> QED  BY <3>11 DEF new, t
  <2> QED  BY <2>6, <2>7 DEF new
<1>6. CASE ~(read.run = None \/ Silence(read.run.last, t))
  <2>1. n # 0
    BY <1>6 DEF ReadUpTo
  <2>2. n > 0 /\ n \in 1..Len(times) /\ times[n] \in Nat /\ times[n] <= t
    <3>1. n > 0 /\ n \in 1..Len(times) /\ n <= n + 1
      BY <1>2, <2>1
    <3> QED  BY <1>2, <1>3, <3>1 DEF Ordered
  <2>3. /\ read.run \in Seg /\ read.run.first <= read.run.last /\ read.run.last = times[n]
        /\ (\A s \in DOMAIN read.segs : read.run.first - read.segs[s].last > Rest)
        /\ NoHole(read.run, times, n)
    BY <2>2 DEF ReadUpTo
  <2>4. read.run.first \in Nat /\ read.run.last \in Nat
    BY <2>3 DEF Seg
  <2>5. ~(t - times[n] > SegGap)
    BY <1>6, <2>3 DEF Silence
  <2>6. /\ new.segs = read.segs /\ new.run = [first |-> read.run.first, last |-> t]
        /\ new = [segs |-> read.segs, run |-> new.run]
    BY <1>6 DEF ReadOn
  <2> HIDE DEF new
  <2>7. new.run \in Seg /\ new.run.first = read.run.first /\ new.run.last = t
    BY <1>3, <2>4, <2>6 DEF Seg
  <2>8. new \in ReadType
    BY <1>4, <2>6, <2>7 DEF ReadType
  <2>9. NoHole(new.run, times, n + 1)
    <3> SUFFICES ASSUME NEW x \in read.run.first..(t - SegGap - 1)
                 PROVE  \E i \in 1..(n + 1) : x < times[i] /\ times[i] <= x + SegGap + 1
      BY <2>7 DEF NoHole
    <3>1. x \in Int
      BY <2>4
    <3>2. CASE x <= times[n] - SegGap - 1
      <4>1. x \in read.run.first..(read.run.last - SegGap - 1)
        BY <1>1, <2>2, <2>3, <2>4, <3>1, <3>2
      <4>2. \E i \in 1..n : x < times[i] /\ times[i] <= x + SegGap + 1
        BY <2>3, <4>1 DEF NoHole
      <4> QED  BY <4>2
    <3>3. CASE ~(x <= times[n] - SegGap - 1)
      <4>1. x < times[n] /\ times[n] <= x + SegGap + 1
        <5> DEFINE before == times[n]
        <5>1. /\ before \in Nat /\ t \in Nat /\ SegGap \in Nat /\ ~(x <= before - SegGap - 1)
              /\ ~(t - before > SegGap) /\ x <= t - SegGap - 1
          BY <1>1, <1>3, <2>2, <2>5, <3>3
        <5> HIDE DEF before, t
        <5>2. x < before
          BY <3>1, <5>1
        <5>3. before <= x + SegGap + 1
          BY <3>1, <5>1
        <5> QED  BY <5>2, <5>3 DEF before
      <4>2. n \in 1..(n + 1)
        BY <2>2
      <4> QED  BY <4>1, <4>2
    <3> QED  BY <3>2, <3>3
  <2>10. \A s \in DOMAIN new.segs : NoHole(new.segs[s], times, n + 1)
    BY <2>6, NoHoleLater DEF ReadUpTo
  <2>11. ASSUME NEW i \in 1..(n + 1), times[i] >= Cut
         PROVE  Within(new.run, times[i]) \/ \E s \in DOMAIN new.segs : Within(new.segs[s], times[i])
    <3>1. CASE i = n + 1
      BY <1>3, <2>2, <2>3, <2>4, <2>7, <3>1 DEF Within
    <3>2. CASE i \in 1..n
      <4>1. times[i] \in Nat
        BY <1>2, <1>3, <3>2
      <4>2. CASE Within(read.run, times[i])
        <5>1. Within(new.run, times[i])
          BY <1>3, <2>2, <2>3, <2>4, <2>7, <4>1, <4>2 DEF Within
        <5> QED  BY <5>1
      <4>3. CASE \E s \in DOMAIN read.segs : Within(read.segs[s], times[i])
        BY <2>6, <4>3
      <4> QED  BY <2>11, <3>2, <4>2, <4>3 DEF ReadUpTo
    <3> QED  BY <1>3, <3>1, <3>2
  <2>12. Apart(new.segs)
    BY <2>6 DEF ReadUpTo
  <2>13. new.run.first <= new.run.last
    BY <1>3, <2>2, <2>3, <2>4, <2>7
  <2>14. \A s \in DOMAIN new.segs : new.run.first - new.segs[s].last > Rest
    BY <2>3, <2>6, <2>7
  <2> HIDE DEF t
  <2>15. new.run.last = times[n + 1]
    BY <2>7 DEF t
  <2>16. ReadUpTo(new, times, n + 1)
    BY <2>7, <2>8, <2>9, <2>10, <2>11, <2>12, <2>13, <2>14, <2>15, ReadMade
  <2> QED  BY <2>16 DEF new, t
<1> QED  BY <1>5, <1>6

LEMMA SegmentsBuilt ==
  ASSUME LaneInv, NEW times, Ordered(times)
  PROVE  \E g : /\ g[0] = [segs |-> <<>>, run |-> None]
                /\ Segments(times) = Closed(g[Len(times)])
                /\ \A n \in 1..Len(times) : g[n] = ReadOn(g[n - 1], times[n])
<1> DEFINE T == ReadType
           n == Len(times)
           step == [k \in 1..n |-> [read \in T |-> ReadOn(read, times[k])]]
           Build(g) == g = [k \in 0..n |-> IF k = 0 THEN [segs |-> <<>>, run |-> None]
                                           ELSE ReadOn(g[k - 1], times[k])]
<1>1. n \in Nat /\ \A k \in 1..n : times[k] \in Nat
  BY DEF Ordered
<1>2. [segs |-> <<>>, run |-> None] \in T
  BY DEF ReadType
<1>3. ASSUME NEW k \in 1..n, NEW read \in T PROVE ReadOn(read, times[k]) \in T
  <2>1. Closed(read) \in Seq(Seg) /\ read.segs \in Seq(Seg) /\ times[k] \in Nat
    BY <1>1, ClosedIs DEF ReadType
  <2>2. CASE read.run = None \/ Silence(read.run.last, times[k])
    <3>1. [first |-> times[k], last |-> times[k]] \in Seg
      BY <2>1 DEF Seg
    <3> QED  BY <2>1, <2>2, <3>1 DEF ReadOn, ReadType
  <2>3. CASE ~(read.run = None \/ Silence(read.run.last, times[k]))
    <3>1. read.run \in Seg
      BY <2>3 DEF ReadType
    <3>2. [first |-> read.run.first, last |-> times[k]] \in Seg
      BY <2>1, <3>1 DEF Seg
    <3> QED  BY <2>1, <2>3, <3>2 DEF ReadOn, ReadType
  <2> QED  BY <2>2, <2>3
<1> HIDE DEF T
<1>5. \A k \in 1..n : \A read \in T : step[k][read] = ReadOn(read, times[k])
  OBVIOUS
<1>4. StepsIn(step, n, T)
  BY <1>3, <1>5 DEF StepsIn
<1> DEFINE z == [segs |-> <<>>, run |-> None]
<1>z. z \in T
  BY <1>2
<1>n. n \in Nat
  BY <1>1
<1> HIDE DEF step, n, z
<1>g. PICK g : Iteration(g, z, step, n, T)
  BY <1>n, <1>z, <1>4, Iterates
<1>6. g \in [0..n -> T] /\ g[0] = z /\ \A k \in 1..n : g[k] = step[k][g[k - 1]]
  BY <1>g DEF Iteration
<1>7. \A k \in 1..n : g[k] = ReadOn(g[k - 1], times[k])
  <2> TAKE k \in 1..n
  <2>1. k - 1 \in 0..n
    BY <1>1
  <2>2. g[k - 1] \in T
    BY <1>6, <2>1
  <2> QED  BY <1>5, <1>6, <2>2
<1>8. Build(g)
  <2>1. \A k \in 0..n : k = 0 \/ k \in 1..n
    BY <1>1
  <2>2. \A k \in 0..n : g[k] = IF k = 0 THEN [segs |-> <<>>, run |-> None] ELSE ReadOn(g[k - 1], times[k])
    BY <1>6, <1>7, <2>1 DEF z
  <2> QED  BY <1>6, <2>2
<1> DEFINE upTo == CHOOSE h : Build(h)
<1>9. Segments(times) = Closed(upTo[n])
  BY DEF Segments, n
<1>10. Build(upTo)
  BY <1>8
<1> HIDE DEF upTo
<1>11. 0 \in 0..n /\ n \in 0..n /\ \A k \in 1..n : k \in 0..n /\ k # 0
  BY <1>1
<1>12. upTo[0] = [segs |-> <<>>, run |-> None] /\ \A k \in 1..n : upTo[k] = ReadOn(upTo[k - 1], times[k])
  BY <1>10, <1>11
<1> QED  BY <1>9, <1>12 DEF n

LEMMA SegmentsAre ==
  ASSUME LaneInv, NEW times, Ordered(times)
  PROVE  Covers(Segments(times), times, Len(times))
<1>1. Len(times) \in Nat
  BY DEF Ordered
<1>2. PICK g : /\ g[0] = [segs |-> <<>>, run |-> None]
               /\ Segments(times) = Closed(g[Len(times)])
               /\ \A n \in 1..Len(times) : g[n] = ReadOn(g[n - 1], times[n])
  BY SegmentsBuilt
<1> DEFINE S == {n \in Nat : n <= Len(times) => ReadUpTo(g[n], times, n)}
<1>3. 0 \in S
  <2> DEFINE z == [segs |-> <<>>, run |-> None]
  <2>1. z \in ReadType /\ z.segs = <<>> /\ z.run = None /\ DOMAIN z.segs = {} /\ 1..0 = {}
    BY DEF ReadType
  <2> HIDE DEF z
  <2>2. Apart(z.segs) /\ ~(0 > 0)
    BY <2>1 DEF Apart
  <2>3. ReadUpTo(z, times, 0)
    BY <2>1, <2>2 DEF ReadUpTo
  <2> QED  BY <1>2, <2>3 DEF z
<1>4. ASSUME NEW n \in Nat, n \in S PROVE n + 1 \in S
  <2> SUFFICES ASSUME n + 1 <= Len(times) PROVE ReadUpTo(g[n + 1], times, n + 1)
    OBVIOUS
  <2>1. n + 1 \in 1..Len(times) /\ (n + 1) - 1 = n /\ ReadUpTo(g[n], times, n)
    BY <1>1, <1>4
  <2>2. g[n + 1] = ReadOn(g[n], times[n + 1])
    BY <1>2, <2>1
  <2> QED  BY <2>1, <2>2, OneTimeMore
<1> HIDE DEF S
<1>5. Len(times) \in S
  BY <1>1, <1>3, <1>4, SetInduction
<1>6. ReadUpTo(g[Len(times)], times, Len(times))
  <2>1. Len(times) <= Len(times)
    BY <1>1
  <2> QED  BY <1>5, <2>1 DEF S
<1>7. CASE Len(times) = 0
  <2> DEFINE z == [segs |-> <<>>, run |-> None]
  <2>1. z.segs = <<>> /\ z.run = None
    OBVIOUS
  <2>2. Closed(z) = <<>>
    BY <2>1, Zenon DEF Closed
  <2>3. Segments(times) = <<>>
    BY <1>2, <1>7, <2>2
  <2>4. <<>> \in Seq(Seg) /\ DOMAIN <<>> = {} /\ 1..0 = {}
    OBVIOUS
  <2> QED  BY <1>7, <2>3, <2>4 DEF Covers, Apart
<1>8. CASE Len(times) # 0
  <2>1. Len(times) \in 1..Len(times)
    BY <1>1, <1>8
  <2> QED  BY <1>2, <1>6, <2>1, ClosedCovers
<1> QED  BY <1>7, <1>8

LEMMA InvSegmentsCover ==
  ASSUME LaneInv
  PROVE  SegmentsCover
<1> SUFFICES ASSUME NEW lane \in ToSet(Lanes), NEW times, times = Times(lane),
                    NEW segs, segs = Segments(times)
             PROVE  /\ \A t \in {x \in ToSet(times) : x >= Cut} :
                         \E s \in DOMAIN segs : \A u \in DOMAIN segs : u = s <=> segs[u].first <= t /\ t <= segs[u].last
                    /\ \A s, u \in DOMAIN segs : s < u => segs[u].first - segs[s].last > SegGap - MinSeg
                    /\ \A s \in DOMAIN segs : \A t \in segs[s].first..(segs[s].last - SegGap - 1) :
                         \E x \in ToSet(times) : t < x /\ x <= t + SegGap + 1
  BY DEF SegmentsCover
<1>1. Ordered(times)
  BY TimesAreOrdered
<1>2. Covers(segs, times, Len(times))
  BY <1>1, SegmentsAre
<1>3. /\ times \in Seq(Nat) /\ DOMAIN times = 1..Len(times)
      /\ \A i \in 1..Len(times) : times[i] \in Nat /\ times[i] \in ToSet(times)
      /\ \A x \in ToSet(times) : \E i \in 1..Len(times) : times[i] = x
  BY <1>1 DEF Ordered, ToSet
<1>4. /\ Len(segs) \in Nat /\ DOMAIN segs = 1..Len(segs)
      /\ \A s \in DOMAIN segs : segs[s].first \in Nat /\ segs[s].last \in Nat
  <2>1. segs \in Seq(Seg)
    BY <1>2 DEF Covers
  <2>2. \A s \in DOMAIN segs : segs[s] \in Seg
    BY <2>1, MembersAre
  <2> QED  BY <2>1, <2>2 DEF Seg
<1>5. SegGap - MinSeg \in Nat
  BY CutIs DEF Rest
<1>6. ASSUME NEW s \in DOMAIN segs, NEW u \in DOMAIN segs, s < u PROVE segs[u].first - segs[s].last > SegGap - MinSeg
  BY <1>2, <1>6 DEF Covers, Apart, Rest
<1>7. ASSUME NEW t \in ToSet(times), t >= Cut
      PROVE  \E s \in DOMAIN segs : \A u \in DOMAIN segs : u = s <=> segs[u].first <= t /\ t <= segs[u].last
  <2>1. PICK i \in 1..Len(times) : times[i] = t
    BY <1>3
  <2>2. PICK s \in DOMAIN segs : Within(segs[s], t)
    BY <1>2, <1>7, <2>1 DEF Covers
  <2>3. t \in Nat
    BY <1>3, <2>1
  <2>4. ASSUME NEW u \in DOMAIN segs, Within(segs[u], t) PROVE u = s
    <3>1. ~(u < s)
      BY <1>4, <1>5, <1>6, <2>2, <2>3, <2>4 DEF Within
    <3>2. ~(s < u)
      BY <1>4, <1>5, <1>6, <2>2, <2>3, <2>4 DEF Within
    <3> QED  BY <1>4, <3>1, <3>2
  <2> QED  BY <2>2, <2>4 DEF Within
<1>8. ASSUME NEW s \in DOMAIN segs, NEW t \in segs[s].first..(segs[s].last - SegGap - 1)
      PROVE  \E x \in ToSet(times) : t < x /\ x <= t + SegGap + 1
  <2>1. NoHole(segs[s], times, Len(times))
    BY <1>2 DEF Covers
  <2>2. PICK i \in 1..Len(times) : t < times[i] /\ times[i] <= t + SegGap + 1
    BY <2>1 DEF NoHole
  <2> QED  BY <1>3, <2>2
<1> QED  BY <1>6, <1>7, <1>8

LEMMA InvEachRowOnce ==
  ASSUME LaneInv
  PROVE  EachRowOnce
<1> DEFINE lanes == Lanes
           rows == [i \in DOMAIN lanes |-> LaneRows(lanes[i])]
           Shows(i, k) == k \in ToSet(rows[i])
<1>1. LanesSound(lanes, Len(recs))
  BY LanesAreSound
<1>2. /\ Len(recs) \in Nat /\ DOMAIN recs = 1..Len(recs) /\ Len(spoken) \in Nat /\ DOMAIN spoken = 1..Len(spoken)
  BY RecIs DEF LaneInv, LanesTypeOK
<1> HIDE DEF lanes
<1>3. \A i \in DOMAIN lanes : RowsUpTo(rows[i], Len(spoken), lanes[i])
  BY RowsAre
<1>4. \A i \in DOMAIN lanes : lanes[i].tpaths = LanePaths(lanes[i])
  BY <1>1 DEF LanesSound
<1> HIDE DEF rows
<1>5. ASSUME NEW i \in DOMAIN lanes, NEW k \in DOMAIN spoken
      PROVE  Shows(i, k) <=> spoken[k].path \in lanes[i].tpaths
  <2>1. RowsUpTo(rows[i], Len(spoken), lanes[i]) /\ lanes[i].tpaths = LanePaths(lanes[i])
    BY <1>3, <1>4
  <2>2. ASSUME Shows(i, k) PROVE spoken[k].path \in lanes[i].tpaths
    <3>1. PICK j \in DOMAIN rows[i] : rows[i][j] = k
      BY <2>2 DEF ToSet
    <3> QED  BY <2>1, <3>1 DEF RowsUpTo
  <2>3. ASSUME spoken[k].path \in lanes[i].tpaths PROVE Shows(i, k)
    <3>1. PICK j \in DOMAIN rows[i] : rows[i][j] = k
      BY <1>2, <2>1, <2>3 DEF RowsUpTo
    <3> QED  BY <3>1 DEF ToSet
  <2> QED  BY <2>2, <2>3
<1>6. ASSUME NEW i \in DOMAIN lanes PROVE IsInjective(rows[i])
  <2>1. RowsUpTo(rows[i], Len(spoken), lanes[i])
    BY <1>3
  <2>2. rows[i] \in Seq(1..Len(spoken))
    BY <2>1 DEF RowsUpTo
  <2>3. /\ Len(rows[i]) \in Nat /\ DOMAIN rows[i] = 1..Len(rows[i])
    BY <2>2
  <2>4. \A a \in DOMAIN rows[i] : rows[i][a] \in 1..Len(spoken)
    BY <2>2, MembersAre
  <2>5. ASSUME NEW a \in DOMAIN rows[i], NEW b \in DOMAIN rows[i], rows[i][a] = rows[i][b] PROVE a = b
    <3>1. ~(a < b) /\ ~(b < a)
      BY <1>2, <2>1, <2>4, <2>5 DEF RowsUpTo
    <3> QED  BY <2>3, <3>1
  <2> QED  BY <2>5 DEF IsInjective
<1>7. ASSUME NEW k \in DOMAIN spoken, NEW r \in InWindow, spoken[k].path \in ToSet(recs[r].chats)
      PROVE  \E i \in DOMAIN lanes : Shows(i, k)
  <2>1. r <= Len(recs)
    BY <1>2 DEF InWindow
  <2>2. PICK i \in DOMAIN lanes : r \in lanes[i].recs
    BY <1>1, <2>1 DEF LanesSound
  <2>3. spoken[k].path \in LanePaths(lanes[i])
    BY <1>7, <2>2, Zenon DEF LanePaths
  <2> QED  BY <1>4, <1>5, <2>3
<1>8. ASSUME NEW k \in DOMAIN spoken, NEW i \in DOMAIN lanes, NEW j \in DOMAIN lanes,
             Shows(i, k), Shows(j, k), i # j
      PROVE  lanes[i].name # lanes[j].name
  <2>1. spoken[k].path \in lanes[i].tpaths /\ spoken[k].path \in lanes[j].tpaths
    BY <1>5, <1>8
  <2> QED  BY <1>1, <1>8, <2>1 DEF LanesSound
<1> QED  BY <1>6, <1>7, <1>8 DEF EachRowOnce, lanes, rows

LEMMA InvResumesStay ==
  ASSUME LaneInv
  PROVE  ResumesStayInLane
<1> DEFINE lanes == Lanes
<1>1. LanesSound(lanes, Len(recs))
  BY LanesAreSound
<1>2. Len(recs) \in Nat /\ DOMAIN recs = 1..Len(recs) /\ \A r \in InWindow : r \in DOMAIN recs /\ r <= Len(recs)
  BY RecIs DEF LaneInv, InWindow
<1> HIDE DEF lanes
<1>3. ASSUME NEW r \in InWindow
      PROVE  LaneOf(lanes, r) \in DOMAIN lanes /\ r \in lanes[LaneOf(lanes, r)].recs
  <2>1. \E i \in DOMAIN lanes : r \in lanes[i].recs
    BY <1>1, <1>2 DEF LanesSound
  <2> QED  BY <2>1 DEF LaneOf
<1>4. ASSUME NEW r \in InWindow PROVE Chats(r) \subseteq lanes[LaneOf(lanes, r)].tpaths
  <2> DEFINE i == LaneOf(lanes, r)
  <2>1. i \in DOMAIN lanes /\ r \in lanes[i].recs
    BY <1>3
  <2> HIDE DEF i
  <2>2. lanes[i].tpaths = LanePaths(lanes[i])
    BY <1>1, <2>1 DEF LanesSound
  <2>3. Chats(r) \subseteq LanePaths(lanes[i])
    BY <2>1, Zenon DEF LanePaths, Chats
  <2> QED  BY <2>2, <2>3 DEF i
<1>5. ASSUME NEW r \in InWindow, recs[r].of # 0, recs[r].of \in InWindow,
             LaneOf(lanes, recs[r].of) # LaneOf(lanes, r)
      PROVE  lanes[LaneOf(lanes, recs[r].of)].name # lanes[LaneOf(lanes, r)].name
  <2>1. recs[r].chats # <<>> /\ recs[r].chats[1] \in Chats(recs[r].of)
    BY <1>2, <1>5 DEF LaneInv, ResumesGoOn
  <2>2. recs[r].chats[1] \in Chats(r)
    <3>1. recs[r].chats \in Seq(1..MaxPath)
      BY <1>2, RecIs DEF LaneInv
    <3>2. 1 \in DOMAIN recs[r].chats
      BY <2>1, <3>1
    <3> QED  BY <3>2 DEF Chats, ToSet
  <2>3. /\ recs[r].chats[1] \in lanes[LaneOf(lanes, recs[r].of)].tpaths
        /\ recs[r].chats[1] \in lanes[LaneOf(lanes, r)].tpaths
    BY <1>4, <1>5, <2>1, <2>2
  <2>4. LaneOf(lanes, recs[r].of) \in DOMAIN lanes /\ LaneOf(lanes, r) \in DOMAIN lanes
    BY <1>3, <1>5
  <2> QED  BY <1>1, <1>5, <2>3, <2>4 DEF LanesSound
<1>6. ASSUME NEW edge \in Edges(lanes), edge[1] \notin {0, edge[2]}
      PROVE  lanes[edge[1]].name # lanes[edge[2]].name
  <2>1. PICK r \in InWindow : recs[r].of # 0 /\ edge = <<Resolve(lanes, recs[r].of), LaneOf(lanes, r)>>
    BY DEF Edges
  <2>2. edge[1] = Resolve(lanes, recs[r].of) /\ edge[2] = LaneOf(lanes, r)
    BY <2>1
  <2>3. recs[r].of \in InWindow /\ edge[1] = LaneOf(lanes, recs[r].of)
    BY <1>6, <2>2 DEF Resolve
  <2> QED  BY <1>5, <1>6, <2>1, <2>2, <2>3
<1> QED  BY <1>6 DEF ResumesStayInLane, lanes

\* The lanes of the timeline partition by name what was spoken in the sessions it shows,
\* their segments cover it without overlap, and a resumed session goes on in its lane
\* (timeline.py).
THEOREM LanesAlwaysWhole == LanesSpec => []LanesAreWhole
<1>1. LanesInit => LaneInv
  BY InitLaneInv
<1>2. LaneInv /\ [LanesNext]_laneVars => LaneInv'
  BY StepLaneInv
<1>3. LaneInv => LanesAreWhole
  BY InvEachRowOnce, InvSegmentsCover, InvResumesStay DEF LanesAreWhole
<1> QED  BY <1>1, <1>2, <1>3, PTL DEF LanesSpec

----------------------------------------------------------------------------
(***************************************************************************)
(* The instance.  A step is of one component and leaves the others alone,   *)
(* so that each keeps its own invariant; the bounds of the transcript of    *)
(* the rows and of the pages need invariants beside these.                  *)
(***************************************************************************)

LEMMA FeedInvTypes == DeskInv /\ ReaderInv => FeedTypeOK
<1> SUFFICES ASSUME DeskInv, ReaderInv PROVE FeedTypeOK
  OBVIOUS
<1>1. ASSUME NEW m \in Letters
      PROVE  /\ letter[m].pc \in {"new", "typed", "sent", "lost"}
             /\ letter[m].to \in Panes \cup {None} /\ letter[m].by \in Channel
  <2>1. letter[m] \in LetterType
    BY DEF DeskInv, DeskType
  <2> QED  BY <2>1 DEF LetterType
<1>2. ASSUME NEW p \in Panes
      PROVE  /\ pane[p] \in {"none", "live", "ended", "gone"}
             /\ bundle[p] = None \/ bundle[p] \in 0..Len(script[p])
             /\ \A i \in DOMAIN script[p] : Len(script[p][i].text) > 0
  <2>1. /\ pane[p] \in {"none", "live", "ended", "gone"} /\ script[p] \in Seq(Turn)
        /\ bundle[p] \in Nat \cup {None} /\ (bundle[p] # None => bundle[p] <= Len(script[p]))
        /\ TurnsFit(p)
    BY DEF DeskInv, DeskType
  <2>2. Len(script[p]) \in Nat /\ DOMAIN script[p] = 1..Len(script[p])
    BY <2>1
  <2>3. \A i \in DOMAIN script[p] : script[p][i].text = <<script[p][i].id>>
    BY <2>1, <2>2 DEF TurnsFit
  <2>4. ASSUME NEW i \in DOMAIN script[p] PROVE Len(script[p][i].text) > 0
    <3>1. \A x : Len(<<x>>) = 1
      OBVIOUS
    <3> QED  BY <2>3, <3>1
  <2>5. bundle[p] = None \/ bundle[p] \in 0..Len(script[p])
    BY <2>1, <2>2
  <2> QED  BY <2>1, <2>4, <2>5
<1>3. reader.todo \subseteq {"bundle", "live"} \X Panes
  BY DEF ReaderInv, ReaderType
<1> QED  BY <1>1, <1>2, <1>3 DEF FeedTypeOK

----------------------------------------------------------------------------
(* The rows: how much there is of the transcript, and of the entry of it.   *)

\* A half line is one that still fits; an entry, and a poll, end with a line.
CacheBounds ==
    /\ engine \in Engines /\ unseen \in BOOLEAN
    /\ file # None => Len(file.lines) + (IF file.half = None THEN 0 ELSE 1) <= MaxLine
    /\ cached # None => \E n \in 0..MaxLine : cached.offset = 2 * n
    /\ poll.pc \in {"idle", "read"} /\ \E n \in 0..MaxLine : poll.start = 2 * n

LEMMA InitCacheBounds == CacheInit => CacheBounds
<1> SUFFICES ASSUME CacheInit PROVE CacheBounds
  OBVIOUS
<1>1. 0 \in 0..MaxLine /\ 2 * 0 = 0
  BY CacheAssumption
<1>2. poll.pc = "idle" /\ poll.start = 0
  BY DEF CacheInit, NoPoll
<1>3. file.lines = <<>> /\ file.half = None /\ Len(file.lines) = 0
  BY DEF CacheInit
<1>4. unseen \in BOOLEAN
  BY DEF CacheInit
<1> QED  BY <1>1, <1>2, <1>3, <1>4, CacheAssumption DEF CacheInit, CacheBounds

LEMMA StepCacheBounds ==
  ASSUME PollsShrink, CacheInv, CacheBounds, [CacheNext]_cacheVars
  PROVE  CacheBounds'
<1>0. /\ MaxLine \in Nat
      /\ file # None => /\ file.lines \in Seq(Lines) /\ Len(file.lines) \in Nat
                        /\ file \in [lines: Seq(Lines), half: Lines \cup {None}, mtime: Nat, of: Nat]
  BY CacheAssumption DEF CacheInv, FileTyped
<1>1. CASE UNCHANGED cacheVars
  BY <1>1 DEF cacheVars, CacheBounds
<1>2. ASSUME NEW line \in Lines, Replaced(line) PROVE CacheBounds'
  <2>1. /\ file' = [file EXCEPT !.lines = <<line>>, !.half = None, !.mtime = @ + 1, !.of = @ + 1]
        /\ file # None /\ Consumed > 2 /\ unseen' = TRUE /\ UNCHANGED <<engine, cached, poll>>
    BY <1>2 DEF Replaced
  <2>2. Len(file'.lines) = 1 /\ file'.half = None
    BY <1>0, <2>1
  <2>3. PICK n \in 0..MaxLine : cached.offset = 2 * n /\ cached.offset > 2
    BY <2>1 DEF Consumed, CacheBounds
  <2>4. 1 <= MaxLine
    BY <1>0, <2>3
  <2> QED  BY <2>1, <2>2, <2>4 DEF CacheBounds
<1>3. ASSUME NEW line \in Lines, NEW whole \in BOOLEAN, EngineWrites(line, whole) PROVE CacheBounds'
  <2>1. /\ file # None /\ file.half = None /\ Len(file.lines) < MaxLine /\ UNCHANGED <<engine, cached, poll, unseen>>
    BY <1>3 DEF EngineWrites
  <2>2. CASE whole
    <3>1. file' = [file EXCEPT !.lines = Append(file.lines, line), !.half = None, !.mtime = @ + 1]
      BY <1>3, <2>2 DEF EngineWrites, Written
    <3>2. Len(file'.lines) = Len(file.lines) + 1 /\ file'.half = None
      BY <1>0, <2>1, <3>1
    <3> QED  BY <1>0, <2>1, <3>2 DEF CacheBounds
  <2>3. CASE ~whole
    <3>1. file' = [file EXCEPT !.lines = file.lines, !.half = line, !.mtime = @ + 1]
      BY <1>3, <2>3 DEF EngineWrites, Written
    <3>2. Len(file'.lines) = Len(file.lines)
      BY <1>0, <2>1, <3>1
    <3> QED  BY <1>0, <2>1, <3>2 DEF CacheBounds
  <2> QED  BY <2>2, <2>3
<1>4. CASE EngineFlushes
  <2>1. /\ file # None /\ file.half # None /\ UNCHANGED <<engine, cached, poll, unseen>>
        /\ file' = [file EXCEPT !.lines = Append(file.lines, file.half), !.half = None, !.mtime = @ + 1]
    BY <1>4 DEF EngineFlushes, Written
  <2>2. Len(file'.lines) = Len(file.lines) + 1 /\ file'.half = None
    BY <1>0, <2>1
  <2> QED  BY <1>0, <2>1, <2>2 DEF CacheBounds
<1>5. CASE Removed
  BY <1>5 DEF Removed, CacheBounds
<1>6. CASE StatFile
  <2>1. 0 \in 0..MaxLine /\ 2 * 0 = 0 /\ UNCHANGED <<engine, file>> /\ unseen' = FALSE
    BY <1>0, <1>6 DEF StatFile
  <2>2. CASE file = None
    BY <1>6, <2>1, <2>2 DEF StatFile, CacheBounds
  <2>3. CASE file # None
    <3>1. /\ poll'.pc = "read" /\ poll'.start = (IF GoesOn THEN cached.offset ELSE 0) /\ cached' = cached
      BY <1>6, <2>3 DEF StatFile
    <3>2. \E n \in 0..MaxLine : poll'.start = 2 * n
      BY <2>1, <3>1 DEF GoesOn, CacheBounds
    <3> QED  BY <2>1, <3>1, <3>2 DEF CacheBounds
  <2> QED  BY <2>2, <2>3
<1>7. CASE ReadFile
  <2>1. /\ UNCHANGED <<engine, file, unseen>> /\ poll'.pc = "idle" /\ poll'.start = 0
        /\ 0 \in 0..MaxLine /\ 2 * 0 = 0
    BY <1>0, <1>7 DEF ReadFile, NoPoll
  <2>2. cached' # None => \E n \in 0..MaxLine : cached'.offset = 2 * n
    <3>1. CASE file = None
      BY <1>7, <3>1 DEF ReadFile
    <3>2. CASE file # None
      <4>1. cached'.offset = IF LastNewline(file) > poll.start THEN LastNewline(file) ELSE poll.start
        BY <1>7, <3>2 DEF ReadFile
      <4>2. LastNewline(file) = 2 * Len(file.lines) /\ Len(file.lines) \in 0..MaxLine
        BY <1>0, <3>2 DEF LastNewline, CacheBounds
      <4>3. \E n \in 0..MaxLine : poll.start = 2 * n
        BY DEF CacheBounds
      <4> QED  BY <4>1, <4>2, <4>3
    <3> QED  BY <3>1, <3>2
  <2> QED  BY <2>1, <2>2 DEF CacheBounds
<1> QED  BY <1>1, <1>2, <1>3, <1>4, <1>5, <1>6, <1>7 DEF CacheNext

LEMMA CacheInvTypes == CacheInv /\ CacheBounds => CacheTypeOK
<1> SUFFICES ASSUME CacheInv, CacheBounds PROVE CacheTypeOK
  OBVIOUS
<1>0. MaxLine \in Nat
  BY CacheAssumption
<1>1. \A n \in 0..MaxLine : (2 * n) % 2 = 0 /\ 2 * n <= 2 * MaxLine
  BY <1>0
<1>2. cached # None => cached.offset % 2 = 0 /\ cached.offset <= 2 * MaxLine
  BY <1>1 DEF CacheBounds
<1>3. poll.start % 2 = 0
  BY <1>1 DEF CacheBounds
<1>4. ASSUME file # None
      PROVE  file.lines \in Seq(Lines) /\ Len(file.lines) <= MaxLine /\ file.half \in Lines \cup {None}
  <2>1. file.lines \in Seq(Lines) /\ file.half \in Lines \cup {None} /\ Len(file.lines) \in Nat
    BY <1>4 DEF CacheInv, FileTyped
  <2>2. Len(file.lines) + (IF file.half = None THEN 0 ELSE 1) <= MaxLine
    BY <1>4 DEF CacheBounds
  <2>3. \A n \in Nat : n + (IF file.half = None THEN 0 ELSE 1) <= MaxLine => n <= MaxLine
    BY <1>0
  <2>4. Len(file.lines) <= MaxLine
    BY <2>1, <2>2, <2>3
  <2> QED  BY <2>1, <2>4
<1>5. engine \in Engines /\ unseen \in BOOLEAN /\ poll.pc \in {"idle", "read"}
  BY DEF CacheBounds
<1> QED  BY <1>2, <1>3, <1>4, <1>5, Zenon DEF CacheTypeOK

----------------------------------------------------------------------------
(* The pages: no turn is later than the transcript is long.                 *)

PageBounds ==
    /\ Len(dialogue) <= MaxEntry
    /\ fetch.pc # "answered" => fetch.page = <<>>

LEMMA StepPageBounds ==
  ASSUME PageInv, PageBounds, [PageNext]_pgVars
  PROVE  PageBounds'
<1>0. /\ dialogue \in Seq(Entries) /\ Len(dialogue) \in Nat /\ MaxEntry \in Nat
      /\ fetch \in [pc: {"idle", "sent", "answered"}, before: Nat, page: Seq(AnyTurns),
                    more: BOOLEAN, grown: BOOLEAN]
  BY PagesAssumption DEF PageInv, PageTyped
<1>1. CASE UNCHANGED pgVars
  BY <1>1 DEF pgVars, PageBounds
<1>2. ASSUME NEW kind \in {"you", "agent", "use", "result"}, NEW call \in CallIds \cup {None},
             AgentWrites(kind, call)
      PROVE  PageBounds'
  <2>1. /\ Len(dialogue) < MaxEntry /\ dialogue' = Append(dialogue, [kind |-> kind, call |-> call])
        /\ fetch' = [fetch EXCEPT !.grown = older.open]
    BY <1>2 DEF AgentWrites
  <2>2. [kind |-> kind, call |-> call] \in Entries
    BY DEF Entries
  <2>3. Len(dialogue') = Len(dialogue) + 1
    BY <1>0, <2>1, <2>2
  <2>4. fetch'.pc = fetch.pc /\ fetch'.page = fetch.page
    BY <1>0, <2>1
  <2> QED  BY <1>0, <2>1, <2>3, <2>4 DEF PageBounds
<1>3. CASE PushThread
  BY <1>3 DEF PushThread, PageBounds
<1>4. CASE ServeHistory
  <2>1. dialogue' = dialogue /\ fetch'.pc = "answered"
    BY <1>0, <1>4 DEF ServeHistory
  <2> QED  BY <2>1 DEF PageBounds
<1>5. CASE LoadOlder
  <2>1. dialogue' = dialogue /\ fetch.pc = "idle" /\ fetch'.page = fetch.page
    BY <1>0, <1>5 DEF LoadOlder
  <2> QED  BY <2>1 DEF PageBounds
<1>6. CASE PageArrives \/ FetchFails
  <2>1. dialogue' = dialogue /\ fetch'.page = <<>>
    BY <1>6 DEF PageArrives, FetchFails, NoFetch
  <2> QED  BY <2>1 DEF PageBounds
<1>7. CASE OpenOther
  BY <1>7 DEF OpenOther, PageBounds, NoFetch
<1> QED  BY <1>1, <1>2, <1>3, <1>4, <1>5, <1>6, <1>7 DEF PageNext

LEMMA DatesAreNumbers ==
  ASSUME NEW turns \in Seq(AnyTurns)
  PROVE  \A d \in Dated(turns) : d \in Nat
<1> SUFFICES ASSUME NEW d \in Dated(turns) PROVE d \in Nat
  OBVIOUS
<1>1. PICK i \in DOMAIN turns : turns[i].ts = d
  BY DEF Dated
<1>2. turns[i] \in AnyTurns
  OBVIOUS
<1> QED  BY <1>1, <1>2 DEF AnyTurns

LEMMA ThreadIsShort ==
  ASSUME NEW entries \in Seq(Entries)
  PROVE  Len(ThreadOf(entries).turns) <= ThreadTurns
<1> DEFINE start == TailStart(entries, InboxTail)
           turns == DialogueTurns(entries, start)
<1>1. start \in 0..Len(entries)
  BY StartIs, PagesAssumption
<1> HIDE DEF start
<1>2. turns \in Seq(AnyTurns)
  BY <1>1, DialogueIsSaid DEF TurnsSound
<1>3. ThreadOf(entries).turns = LastTurns(turns, ThreadTurns)
  BY DEF ThreadOf, start
<1> HIDE DEF turns
<1>4. Len(turns) \in Nat /\ ThreadTurns \in Nat
  BY <1>2, PagesAssumption
<1>5. CASE Len(turns) > ThreadTurns
  <2>1. ThreadOf(entries).turns = SubSeq(turns, Len(turns) - ThreadTurns + 1, Len(turns))
    BY <1>3, <1>5 DEF LastTurns
  <2>2. Len(SubSeq(turns, Len(turns) - ThreadTurns + 1, Len(turns))) = ThreadTurns
    BY <1>2, <1>4, <1>5
  <2> QED  BY <1>4, <2>1, <2>2
<1>6. CASE ~(Len(turns) > ThreadTurns)
  <2>1. ThreadOf(entries).turns = turns
    BY <1>3, <1>6 DEF LastTurns
  <2> QED  BY <1>4, <1>6, <2>1
<1> QED  BY <1>5, <1>6

LEMMA DatedTurns ==
  ASSUME NEW turns \in Seq(AnyTurns), NEW n \in Nat, \A d \in Dated(turns) : d <= n
  PROVE  turns \in Seq([who: {"you", "agent", "tools"}, ts: 0..n])
<1>1. ASSUME NEW i \in 1..Len(turns) PROVE turns[i] \in [who: {"you", "agent", "tools"}, ts: 0..n]
  <2>1. turns[i] \in AnyTurns /\ i \in DOMAIN turns
    BY ElementOfSeq
  <2>2. turns[i].ts \in Nat /\ (turns[i].ts = 0 \/ turns[i].ts \in Dated(turns))
    BY <2>1 DEF AnyTurns, Dated
  <2>3. turns[i].ts \in 0..n
    BY <2>2
  <2> QED  BY <2>1, <2>3 DEF AnyTurns
<1> DEFINE Bounded == [who: {"you", "agent", "tools"}, ts: 0..n]
<1>2. \A i \in 1..Len(turns) : turns[i] \in Bounded
  BY <1>1
<1> HIDE DEF Bounded
<1>3. turns \in Seq(Bounded)
  BY <1>2
<1> QED  BY <1>3 DEF Bounded

LEMMA PageInvTypes == PageInv /\ PageBounds => PageTypeOK
<1> SUFFICES ASSUME PageInv, PageBounds PROVE PageTypeOK
  OBVIOUS
<1>0. /\ dialogue \in Seq(Entries) /\ Len(dialogue) \in Nat /\ Len(dialogue) <= MaxEntry /\ MaxEntry \in Nat
      /\ thread.turns \in Seq(AnyTurns) /\ thread.blocked \in CallIds \cup {None} /\ thread.upto \in Nat
      /\ older.turns \in Seq(AnyTurns) /\ older.boundary \in Nat /\ older.open \in BOOLEAN
      /\ fetch.pc \in {"idle", "sent", "answered"} /\ fetch.page \in Seq(AnyTurns) /\ fetch.before \in Nat
  BY PagesAssumption DEF PageInv, PageTyped, PageBounds
<1>1. /\ \A d \in Dated(thread.turns) : d <= MaxEntry
      /\ Len(thread.turns) <= ThreadTurns
  <2>1. CASE thread = NoThread
    <3>1. thread.turns = <<>> /\ Len(<<>>) = 0
      BY <2>1 DEF NoThread
    <3> QED  BY <3>1, NothingDated, PagesAssumption
  <2>2. CASE thread # NoThread
    <3> DEFINE prefix == SubSeq(dialogue, 1, thread.upto)
    <3>1. thread = ThreadOf(prefix) /\ thread.upto \in 0..Len(dialogue)
      BY <1>0, <2>2 DEF PageInv, ThreadSound
    <3>2. prefix \in Seq(Entries) /\ Len(prefix) = thread.upto
      BY <1>0, <3>1
    <3> HIDE DEF prefix
    <3>3. Dated(thread.turns) = LatestTurns(prefix) /\ Len(thread.turns) <= ThreadTurns
      BY <3>1, <3>2, ThreadIsWindow, ThreadIsShort
    <3>4. \A i \in LatestTurns(prefix) : i \in 1..Len(prefix)
      BY <3>2 DEF LatestTurns, Said
    <3> QED  BY <1>0, <3>1, <3>2, <3>3, <3>4
  <2> QED  BY <2>1, <2>2
<1>2. older.boundary <= MaxEntry /\ \A d \in Dated(older.turns) : d <= MaxEntry
  <2>1. CASE older.open
    <3>1. older.boundary <= Len(dialogue) /\ \A d \in Dated(older.turns) : d < older.boundary
      BY <2>1 DEF PageInv, OlderSound
    <3>2. \A d \in Dated(older.turns) : d \in Nat
      BY <1>0, DatesAreNumbers
    <3> QED  BY <1>0, <3>1, <3>2
  <2>2. CASE ~older.open
    <3>1. older.turns = <<>> /\ older.boundary = 0
      BY <2>2 DEF PageInv, OlderSound, NoOlder
    <3> QED  BY <1>0, <3>1, NothingDated
  <2> QED  BY <2>1, <2>2
<1>3. \A d \in Dated(fetch.page) : d <= MaxEntry
  <2>1. CASE fetch.pc = "answered"
    <3>1. /\ older.open /\ fetch.before = BeforeThePage(older) /\ \A d \in Dated(fetch.page) : d < fetch.before
      BY <2>1 DEF PageInv, FetchSound
    <3>2. fetch.before = older.boundary \/ fetch.before \in Dated(older.turns)
      BY <3>1, BeforeIs
    <3>3. fetch.before <= MaxEntry
      BY <1>2, <3>2
    <3>4. \A d \in Dated(fetch.page) : d \in Nat
      BY <1>0, DatesAreNumbers
    <3> QED  BY <1>0, <3>1, <3>3, <3>4
  <2>2. CASE fetch.pc # "answered"
    BY <2>2, NothingDated DEF PageBounds
  <2> QED  BY <2>1, <2>2
<1>4. thread.turns \in Seq(Turns) /\ older.turns \in Seq(Turns) /\ fetch.page \in Seq(Turns)
  BY <1>0, <1>1, <1>2, <1>3, DatedTurns DEF Turns
<1> QED  BY <1>0, <1>1, <1>2, <1>4 DEF PageTypeOK, Entries

----------------------------------------------------------------------------

\* Under what the components ask of their surroundings, for any transcripts, messages,
\* dialogs and sessions: every variable keeps its type, a mirror is never longer than its
\* transcript, no recorded turn is empty, the cache stops at the end of a line, and no
\* window has more turns than it has room for.
THEOREM ConversationTyping ==
  ASSUME OneTypist, PanePrompts, PollsShrink
  PROVE  Spec => []TypeOK
<1> DEFINE Inv == /\ DeskInv /\ ReaderInv /\ DialogInv /\ PageInv /\ PageBounds
                  /\ CacheInv /\ CacheBounds /\ LaneInv /\ TailInv
<1>1. Init => Inv
  <2>1. PageInit => PageBounds
    BY PagesAssumption DEF PageInit, PageBounds, NoFetch
  <2> QED  BY <2>1, InitFeedInv, InitDialogInv, InitPageInv, InitCacheInv, InitCacheBounds,
              InitLaneInv, InitTailInv DEF Init
<1>2. [Next]_vars => /\ [FeedNext]_feedVars /\ [DialogNext]_dlgVars /\ [PageNext]_pgVars
                     /\ [CacheNext]_cacheVars /\ [LanesNext]_laneVars /\ [TailNext]_tailVars
  BY DEF Next, vars
<1>3. Inv /\ [Next]_vars => Inv'
  <2> SUFFICES ASSUME Inv, [Next]_vars PROVE Inv'
    OBVIOUS
  <2>1. (DeskInv /\ ReaderInv)' /\ DialogInv'
    BY <1>2, StepFeedInv, DialogNextKeepsInv
  <2>2. (PageInv /\ PageBounds)'
    BY <1>2, StepKeepsPages, StepPageBounds
  <2>3. (CacheInv /\ CacheBounds)'
    BY <1>2, StepCacheInv, StepCacheBounds
  <2>4. LaneInv' /\ TailInv'
    BY <1>2, StepLaneInv, TailNextKeepsInv
  <2> QED  BY <2>1, <2>2, <2>3, <2>4
<1>4. Inv => TypeOK
  BY FeedInvTypes, PageInvTypes, CacheInvTypes DEF TypeOK, DialogInv, LaneInv, TailInv
<1> QED  BY <1>1, <1>3, <1>4, PTL DEF Spec
=============================================================================
