---------------------------- MODULE TimelineLanes ----------------------------
(***************************************************************************)
(* The lanes of the timeline (prototypes/artifact-browser/timeline.py):     *)
(* records that share a transcript are one lane, its rows are those of its  *)
(* transcripts, and its segments are runs of rows without a long silence,   *)
(* while sessions are spawned, resumed, renamed, rolled over and ended.     *)
(***************************************************************************)
EXTENDS Null, Integers, Sequences, SequencesExt

CONSTANTS
    MaxRec,    \* bound: the records
    MaxPath,   \* bound: the transcripts
    MaxRow,    \* bound: what is spoken in all of them
    MaxNow,    \* bound: the clock
    Window,    \* how far the timeline reaches back
    SegGap,    \* a longer silence ends a segment
    MinSeg,    \* how long a segment is at least
    LaneNames

ASSUME LanesAssumption ==
    /\ {MaxRec, MaxPath, MaxRow, MaxNow, Window, SegGap, MinSeg} \subseteq Nat
    /\ MinSeg <= SegGap /\ None \notin LaneNames /\ None \notin [first: Nat, last: Nat]

VARIABLES
    recs, \* the records, in the order of their creation
    spoken, \* the rows: of which transcript, when
    paths,\* the transcripts so far
    now

laneVars == <<recs, spoken, paths, now>>

LanesTypeOK ==
    /\ recs \in Seq([name: LaneNames, alive: BOOLEAN, chats: Seq(1..MaxPath), at: 0..MaxNow,
                     of: 0..MaxRec])
    /\ Len(recs) <= MaxRec
    /\ spoken \in Seq([path: 1..MaxPath, t: 0..MaxNow]) /\ Len(spoken) <= MaxRow
    /\ paths \in 0..MaxPath /\ now \in 0..MaxNow

LanesInit == recs = <<>> /\ spoken = <<>> /\ paths = 0 /\ now = 0

----------------------------------------------------------------------------
(* The sessions.                                                            *)

NameTakenLive(name) == \E r \in DOMAIN recs : recs[r].alive /\ recs[r].name = name

NewRec(name, chats, of) == [name |-> name, alive |-> TRUE, chats |-> chats, at |-> now, of |-> of]

SpawnRec(name) ==
    /\ Len(recs) < MaxRec /\ ~NameTakenLive(name)
    /\ recs' = Append(recs, NewRec(name, <<>>, 0))
    /\ UNCHANGED <<spoken, paths, now>>

\* The first chat of a session, or one more by a rollover.
OpenChat(r) ==
    /\ recs[r].alive /\ paths < MaxPath
    /\ paths' = paths + 1
    /\ recs' = [recs EXCEPT ![r].chats = Append(@, paths + 1), ![r].at = now]
    /\ UNCHANGED <<spoken, now>>

\* resume: a new record that goes on with the latest chat, under the old name or
\* another.
ResumeRec(r, name) ==
    /\ Len(recs) < MaxRec /\ recs[r].chats # <<>> /\ ~NameTakenLive(name)
    /\ recs' = Append(recs, NewRec(name, <<Last(recs[r].chats)>>, r))
    /\ UNCHANGED <<spoken, paths, now>>

RenameRec(r, name) ==
    /\ recs[r].alive /\ ~NameTakenLive(name)
    /\ recs' = [recs EXCEPT ![r].name = name]
    /\ UNCHANGED <<spoken, paths, now>>

EndRec(r) ==
    /\ recs[r].alive /\ recs' = [recs EXCEPT ![r].alive = FALSE]
    /\ UNCHANGED <<spoken, paths, now>>

\* A row, and with it a hook that dates the session.
Say(r) ==
    /\ recs[r].alive /\ recs[r].chats # <<>> /\ Len(spoken) < MaxRow
    /\ spoken' = Append(spoken, [path |-> Last(recs[r].chats), t |-> now])
    /\ recs' = [recs EXCEPT ![r].at = now]
    /\ UNCHANGED <<paths, now>>

\* Nothing depends on the time before the first row.
TimePasses ==
    /\ spoken # <<>> /\ now < MaxNow /\ now' = now + 1
    /\ UNCHANGED <<recs, spoken, paths>>

LanesNext ==
    \/ \E name \in LaneNames : SpawnRec(name)
    \/ \E r \in DOMAIN recs : \/ OpenChat(r) \/ EndRec(r)
                              \/ \E name \in LaneNames : ResumeRec(r, name) \/ RenameRec(r, name)
                              \/ Say(r)
    \/ TimePasses

LanesSpec == LanesInit /\ [][LanesNext]_laneVars

----------------------------------------------------------------------------
(* The build.                                                               *)

Cut == IF now > Window THEN now - Window ELSE 0

InWindow == {r \in DOMAIN recs : recs[r].at >= Cut}

\* A slip: only records of the same transcripts are joined.
JoinsIfEqual(lane, r) == lane.name = recs[r].name /\ ToSet(recs[r].chats) = lane.tpaths

\* A record joins a lane of its name with a transcript of its own, or, if it has none
\* yet, one of its name that has none either.
Joins(lane, r) ==
    /\ lane.name = recs[r].name
    /\ \/ ToSet(recs[r].chats) \cap lane.tpaths # {}
       \/ recs[r].chats = <<>> /\ lane.tpaths = {}

\* The first lane that the record can join, or a new one.
Placed(lanes, r) ==
    LET at == {i \in DOMAIN lanes : Joins(lanes[i], r)}
        mine == ToSet(recs[r].chats)
    IN  IF at = {} THEN Append(lanes, [name |-> recs[r].name, recs |-> {r}, tpaths |-> mine])
        ELSE [lanes EXCEPT ![Min(at)] =
                [name |-> @.name, recs |-> @.recs \cup {r}, tpaths |-> @.tpaths \cup mine]]

\* _lanes: the records of the window, in the order of their creation.
Lanes ==
    LET upTo[r \in 0..Len(recs)] ==
          IF r = 0 THEN <<>> ELSE IF r \in InWindow THEN Placed(upTo[r - 1], r) ELSE upTo[r - 1]
    IN  upTo[Len(recs)]

\* Every transcript of the lane once, whichever records name it.
LanePaths(lane) == UNION {ToSet(recs[r].chats) : r \in lane.recs}

\* _lane_rows, in the order of time: the rows by their place in what was spoken.
LaneRows(lane) ==
    LET upTo[k \in 0..Len(spoken)] ==
          IF k = 0 THEN <<>>
          ELSE IF spoken[k].path \in LanePaths(lane) THEN Append(upTo[k - 1], k) ELSE upTo[k - 1]
    IN  upTo[Len(spoken)]

Silence(before, t) == t - before > SegGap

RunEnd(run) == IF run.last < run.first + MinSeg THEN run.first + MinSeg ELSE run.last

\* The run as a segment.  What ended before the window is left out, and what began
\* before it is cut.
Closed(read) ==
    IF read.run = None \/ RunEnd(read.run) < Cut THEN read.segs
    ELSE Append(read.segs, [first |-> IF read.run.first < Cut THEN Cut ELSE read.run.first,
                            last |-> RunEnd(read.run)])

\* A run ends where a longer silence begins.
ReadOn(read, t) ==
    IF read.run = None \/ Silence(read.run.last, t)
    THEN [segs |-> Closed(read), run |-> [first |-> t, last |-> t]]
    ELSE [segs |-> read.segs, run |-> [first |-> read.run.first, last |-> t]]

\* The lane's segments.  One without rows is drawn from its creation to its last
\* activity, which is left out.
Segments(times) ==
    LET upTo[n \in 0..Len(times)] ==
          IF n = 0 THEN [segs |-> <<>>, run |-> None] ELSE ReadOn(upTo[n - 1], times[n])
    IN  Closed(upTo[Len(times)])

\* lane_dialogue: the lane of a session.
LaneOf(lanes, r) == CHOOSE i \in DOMAIN lanes : r \in lanes[i].recs

\* The sender of an edge, by the id of a record.
Resolve(lanes, r) == IF r \in InWindow THEN LaneOf(lanes, r) ELSE 0

\* The edges of spawns and resumes.
Edges(lanes) ==
    {<<Resolve(lanes, recs[r].of), LaneOf(lanes, r)>> : r \in {q \in InWindow : recs[q].of # 0}}

----------------------------------------------------------------------------
(* Properties.                                                              *)

Times(lane) == LET rows == LaneRows(lane) IN [i \in DOMAIN rows |-> spoken[rows[i]].t]

\* What was spoken in a session of the timeline is in a lane, there once, and in no
\* other lane but one of another name, however often its chat was resumed, rolled
\* over and renamed (timeline.py: "records are MERGED when they share a transcript
\* path").
EachRowOnce ==
    LET lanes == Lanes
        rows == [i \in DOMAIN lanes |-> LaneRows(lanes[i])]
        Shows(i, k) == k \in ToSet(rows[i])
    IN  /\ \A i \in DOMAIN lanes : IsInjective(rows[i])
        /\ \A k \in DOMAIN spoken :
             /\ (\E r \in InWindow : spoken[k].path \in ToSet(recs[r].chats)) =>
                  \E i \in DOMAIN lanes : Shows(i, k)
             /\ \A i, j \in DOMAIN lanes :
                  Shows(i, k) /\ Shows(j, k) /\ i # j => lanes[i].name # lanes[j].name

\* Every row of a lane within the window is in exactly one of its segments, the segments
\* are apart by more than the silence that ends one, but for what a short one is made
\* longer, and no such silence is within one.
SegmentsCover ==
    \A lane \in ToSet(Lanes) :
      LET times == Times(lane)
          segs == Segments(times)
      IN  /\ \A t \in {x \in ToSet(times) : x >= Cut} :
               \E s \in DOMAIN segs : \A u \in DOMAIN segs : u = s <=> segs[u].first <= t /\ t <= segs[u].last
          /\ \A s, u \in DOMAIN segs : s < u => segs[u].first - segs[s].last > SegGap - MinSeg
          /\ \A s \in DOMAIN segs : \A t \in segs[s].first..(segs[s].last - SegGap - 1) :
               \E x \in ToSet(times) : t < x /\ x <= t + SegGap + 1

\* A session and the one it was resumed from are one lane as long as both are shown
\* and called the same: a resume draws no edge between lanes of one name.
ResumesStayInLane ==
    LET lanes == Lanes IN
    \A edge \in Edges(lanes) :
      edge[1] \notin {0, edge[2]} => lanes[edge[1]].name # lanes[edge[2]].name

\* The lanes partition what was spoken by name, their segments cover it, and a resumed
\* session goes on in its lane (timeline.py).
LanesAreWhole ==
    /\ EachRowOnce
    /\ SegmentsCover
    /\ ResumesStayInLane
=============================================================================
