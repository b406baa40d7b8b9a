---------------------------- MODULE EffortGroups ----------------------------
(***************************************************************************)
(* The effort group a session or an artifact belongs to (grouping.py):      *)
(* resolved anew at every read from overrides, parents, the artifact a view *)
(* renders and its authors, while sessions are spawned, renamed, tagged and *)
(* removed, and artifacts change hands.                                     *)
(***************************************************************************)
EXTENDS Null, Naturals, Sequences, FiniteSets, SequencesExt

CONSTANTS
    MaxSession, \* bound: the sessions, numbered as they are born
    MaxLegacy,  \* of which this many are records of before version 4
    MaxLabels,  \* bound: renames, tags, groups, kills and removals
    MaxTouch,   \* bound: revisions of an artifact
    DisplayNames, Hub,
    Documents,  \* the artifacts
    Undated     \* the records of before version 4 have no date of birth

ASSUME GroupsAssumption ==
    /\ MaxSession \in Nat /\ MaxLabels \in Nat /\ MaxTouch \in Nat /\ Undated \in BOOLEAN
    /\ MaxLegacy \in 0..MaxSession /\ Hub \in DisplayNames
    /\ IsFiniteSet(Documents) /\ DisplayNames \cap Nat = {}
    /\ None \notin DisplayNames \cup Nat \cup Documents

VARIABLES
    rec,    \* the records of the sessions
    art,    \* the records of the artifacts
    born,   \* the sessions so far
    labels  \* changes so far

grpVars == <<rec, art, born, labels>>

Sessions == 1..MaxSession
Known == {s \in Sessions : rec[s] # None}
Marks == {None, "own"}    \* a group, or a tag, that somebody set
User == 0                 \* the author of an edit made outside any session

NewRecord(name, parent) ==
    [name |-> name, group |-> None, tag |-> None, parent |-> parent, alive |-> TRUE, renders |-> None]

GroupTypeOK ==
    /\ \A s \in Known : /\ rec[s].name \in DisplayNames /\ rec[s].alive \in BOOLEAN
                        /\ {rec[s].group, rec[s].tag} \subseteq Marks
                        /\ rec[s].parent \in DisplayNames \cup Sessions \cup {None}
                        /\ rec[s].renders \in Documents \cup {None}
    /\ \A a \in Documents : /\ art[a].group \in Marks /\ Len(art[a].by) <= MaxTouch
                            /\ ToSet(art[a].by) \subseteq Sessions \cup {User}
    /\ labels \in 0..MaxLabels /\ born \in MaxLegacy..MaxSession

\* Old records name their parent; any may have ended.
GroupInit ==
    /\ \E old \in [1..MaxLegacy -> [name: DisplayNames, parent: DisplayNames, alive: BOOLEAN]] :
         rec = [s \in Sessions |-> IF s \in 1..MaxLegacy
                  THEN [NewRecord(old[s].name, old[s].parent) EXCEPT !.alive = old[s].alive] ELSE None]
    /\ art = [a \in Documents |-> [group |-> None, by |-> <<>>]]
    /\ labels = 0 /\ born = MaxLegacy

----------------------------------------------------------------------------
(* The resolver.                                                            *)

Born(s) == IF Undated /\ s <= MaxLegacy THEN None ELSE s
BornOrZero(s) == IF Born(s) = None THEN 0 ELSE Born(s)

\* A slip: a parent may be born after its child.
AnyEra(s) == {c \in Known : rec[c].name = rec[s].parent}

\* The records a name may have meant: none born after the one that says it.
Candidates(s) ==
    {c \in Known : /\ rec[c].name = rec[s].parent
                   /\ Born(s) = None \/ BornOrZero(c) <= Born(s)}

\* Of the records of one name: the live, the youngest, the first of them.
Foremost(records, live) ==
    CHOOSE c \in records : \A d \in records :
       \/ c \in live /\ d \notin live
       \/ (c \in live <=> d \in live) /\ BornOrZero(c) > BornOrZero(d)
       \/ (c \in live <=> d \in live) /\ BornOrZero(c) = BornOrZero(d) /\ c <= d

\* _resolve_reference: by id, else by name.
Parent(s) ==
    IF rec[s].parent \in Known THEN rec[s].parent
    ELSE IF Candidates(s) = {} THEN None
    ELSE Foremost(Candidates(s), {c \in Candidates(s) : rec[c].alive})

StopsAt(s) == rec[s].name = Hub

\* The walk up from s, None where it has ended.  The code stops a walk that comes
\* round; this one goes round again, past nothing new.
Climb(up, s) ==
    LET climb[n \in 0..MaxSession] == IF n = 0 THEN s ELSE up[climb[n - 1]]
    IN  climb

Above == [s \in Known \cup {None} |-> IF s = None THEN None ELSE Parent(s)]
UpToHub == [s \in Known \cup {None} |-> IF s = None \/ StopsAt(s) THEN None ELSE Parent(s)]

Lineage(s) == Climb(UpToHub, s)

\* What an effort is called: whose override, tag or name it comes from.
Named(kind, s) == <<kind, s>>
Ungrouped == <<"ungrouped", 0>>

Overriding == {s \in Known : rec[s].group # None}

\* The first of seq that is in S.
FirstIn(seq, S) ==
    LET found == {i \in DOMAIN seq : seq[i] \in S}
    IN  IF found = {} THEN None ELSE seq[Min(found)]

\* tags[0], or the name, when nothing overrides.
Floor(s, override) ==
    IF override # None THEN override
    ELSE IF rec[s].tag # None THEN Named("tag", s) ELSE Named("name", rec[s].name)

\* The creator, then the others, the latest first.
CreatorFirst(a) == <<Head(art[a].by)>> \o Reverse(Tail(art[a].by))

\* _artifact_override, given what the sessions resolve to.
ArtifactOverride(a, override) ==
    IF art[a].group # None THEN Named("artifact", a)
    ELSE IF art[a].by = <<>> THEN None
    ELSE LET author == FirstIn(CreatorFirst(a), Known)
         IN  IF author = None THEN None ELSE Floor(author, override[author])

\* _session_override, given what it is while more artifacts are being resolved.
SessionOverride(s, resolving, given) ==
    LET own == FirstIn(Lineage(s), Overriding)
        a == rec[s].renders
    IN  IF own # None THEN Named("group", own)
        ELSE IF a = None \/ a \in resolving THEN None
        ELSE ArtifactOverride(a, given[resolving \cup {a}])

\* The override of each session while the artifacts of resolving are being resolved.
OverrideWhile(resolving) ==
    LET given[r \in SUBSET Documents] == [s \in Known |-> SessionOverride(s, r, given)]
    IN  given[resolving]

SessionGroup(s) == Floor(s, OverrideWhile({})[s])

ArtifactGroup(a) ==
    LET found == ArtifactOverride(a, OverrideWhile({a}))
    IN  IF found = None THEN Ungrouped ELSE found

----------------------------------------------------------------------------
(* The commands.                                                            *)

LiveNames == {rec[s].name : s \in {t \in Known : rec[t].alive}}

\* The next session, its parent the session that ran the command, by its id.
Spawn(s, name, parent) ==
    /\ s = born + 1 /\ born' = s
    /\ name \notin LiveNames
    /\ parent # None => rec[parent].alive
    /\ rec' = [rec EXCEPT ![s] = NewRecord(name, parent)]
    /\ UNCHANGED <<art, labels>>

\* artifact open: a view of the artifact, bound to it once it runs.
OpenView(s, name, parent, a) ==
    /\ art[a].by # <<>>
    /\ s = born + 1 /\ born' = s
    /\ name \notin LiveNames
    /\ parent # None => rec[parent].alive
    /\ rec' = [rec EXCEPT ![s] = [NewRecord(name, parent) EXCEPT !.renders = a]]
    /\ UNCHANGED <<art, labels>>

Labels == labels < MaxLabels /\ labels' = labels + 1 /\ UNCHANGED born

Rename(s, name) ==
    /\ Labels /\ name \notin LiveNames
    /\ rec' = [rec EXCEPT ![s].name = name] /\ UNCHANGED art

SetTag(s) ==
    /\ Labels /\ rec' = [rec EXCEPT ![s].tag = "own"] /\ UNCHANGED art

SetGroup(s, group) ==
    /\ Labels /\ rec[s].group # group
    /\ rec' = [rec EXCEPT ![s].group = group] /\ UNCHANGED art

Kill(s) ==
    /\ Labels /\ rec[s].alive
    /\ rec' = [rec EXCEPT ![s].alive = FALSE] /\ UNCHANGED art

RemoveRecord(s) == Labels /\ rec' = [rec EXCEPT ![s] = None] /\ UNCHANGED art

\* create, by anybody; modify, or the snapshot from a view.
Touch(a, by) ==
    /\ Len(art[a].by) < MaxTouch
    /\ by # User => rec[by].alive
    /\ art' = [art EXCEPT ![a].by = Append(@, by)]
    /\ UNCHANGED <<rec, born, labels>>

GroupArtifact(a) ==
    /\ Labels /\ art[a].by # <<>> /\ art[a].group = None
    /\ art' = [art EXCEPT ![a].group = "own"] /\ UNCHANGED rec

GroupNext ==
    \/ \E s \in Sessions, name \in DisplayNames, parent \in Known \cup {None} :
         Spawn(s, name, parent) \/ \E a \in Documents : OpenView(s, name, parent, a)
    \/ \E s \in Known : \/ \E name \in DisplayNames : Rename(s, name)
                        \/ \E group \in Marks : SetGroup(s, group)
                        \/ SetTag(s) \/ Kill(s) \/ RemoveRecord(s)
    \/ \E a \in Documents : GroupArtifact(a) \/ \E by \in Known \cup {User} : Touch(a, by)

GroupSpec == GroupInit /\ [][GroupNext]_grpVars

----------------------------------------------------------------------------
(* Properties.                                                              *)

\* Whoever touches an artifact after its creator leaves it where it is filed, as
\* long as the record of the creator exists (grouping.py: "later touches never
\* re-file").
NeverRefiled ==
    [][\A a \in Documents :
         art[a].by # <<>> /\ art'[a].by # art[a].by /\ art[a].by[1] \in Known
           => ArtifactGroup(a)' = ArtifactGroup(a)]_grpVars

\* A spawn, be it of a session with an old name, changes the group of no session
\* and no artifact that existed (service.py: "a persisted reusable NAME could
\* later be captured by a same-named record and silently rewrite lineage").
SpawnRewritesNothing ==
    [][\A new \in Sessions : rec[new] = None /\ rec'[new] # None =>
         /\ \A s \in Known : SessionGroup(s)' = SessionGroup(s)
         /\ \A a \in Documents : ArtifactGroup(a)' = ArtifactGroup(a)]_grpVars

\* The parents of s, one after the other, whatever they are called.
Ancestors(s) == Climb(Above, s)

BelowAHub(s, x) ==
    \E i \in DOMAIN Ancestors(s) : /\ Ancestors(s)[i] \in Known /\ StopsAt(Ancestors(s)[i])
                                   /\ \A j \in 0..i : Ancestors(s)[j] # x

\* Setting or clearing the group of a session changes nothing for a session that is
\* cut off from it by a hub (grouping.py: "one effort's group never leaks through").
NoLeakThroughHub ==
    [][\A x \in Known : rec'[x] # None /\ rec'[x].group # rec[x].group =>
         \A s \in Known : BelowAHub(s, x) /\ rec[s].renders = None =>
           SessionGroup(s)' = SessionGroup(s)]_grpVars

\* A tag names the effort of its own session, and of what is filed by it: never
\* of a descendant (grouping.py: "an ancestor's tags never leak down").
TagsStayOwn ==
    [][\A x \in Known : rec'[x] # None /\ rec'[x].tag # rec[x].tag =>
         \A s \in Known \ {x} : rec[s].renders = None => SessionGroup(s)' = SessionGroup(s)]_grpVars

\* Nothing that is done to one session or artifact files another one elsewhere, unless
\* the rules of the forest say so (grouping.py, service.py).
EditsStayLocal ==
    /\ NeverRefiled
    /\ SpawnRewritesNothing
    /\ NoLeakThroughHub
    /\ TagsStayOwn
=============================================================================
