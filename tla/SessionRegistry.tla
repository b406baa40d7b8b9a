--------------------------- MODULE SessionRegistry ---------------------------
(***************************************************************************)
(* What the session store promises its readers (ls, the picker, name       *)
(* resolution), whichever processes keep it: a registry in which every     *)
(* change is one atomic edge of the record life cycle of session.py,       *)
(*                                                                         *)
(*     absent -> live <-> live -> exited | archived -> absent              *)
(*                                                                         *)
(* "exited" is recorded only of a session that tmux no longer runs, live   *)
(* names are unique, and no edge leaves a terminal state but removal, and, *)
(* against session.py, a rename (see Rename).                              *)
(***************************************************************************)
EXTENDS Naturals

CONSTANTS
    Ids,        \* session uuids
    LlmIds,     \* those of role llm
    Names,      \* display names
    ViewNames,  \* names of views, never given to a session
    None

VARIABLES
    entry,      \* id -> the published state and name
    gone        \* the sessions whose tmux session has ended

registryVars == <<entry, gone>>

Absent == [state |-> "absent", name |-> None]

ActivityStates(id) == IF id \in LlmIds THEN {"idle", "working", "waiting"} ELSE {"alive"}

Live(id) == entry[id].state \in {"idle", "working", "waiting", "alive"}

Free(n) == n \notin ViewNames /\ \A id \in Ids : Live(id) => entry[id].name # n

Publish(id, state, name) == entry' = [entry EXCEPT ![id] = [state |-> state, name |-> name]]

Register(id, n) ==
    /\ entry[id] = Absent
    /\ Free(n)
    /\ Publish(id, IF id \in LlmIds THEN "idle" ELSE "alive", n)
    /\ UNCHANGED gone

Activity(id, s) ==
    /\ Live(id)
    /\ s \in ActivityStates(id)
    /\ Publish(id, s, entry[id].name)
    /\ UNCHANGED gone

\* The session ends; its entry follows later.
Vanish(id) ==
    /\ gone' = gone \cup {id}
    /\ UNCHANGED entry

Exit(id) ==
    /\ Live(id)
    /\ id \in gone
    /\ Publish(id, "exited", entry[id].name)
    /\ UNCHANGED gone

Archive(id) ==
    /\ Live(id)
    /\ Publish(id, "archived", entry[id].name)
    /\ UNCHANGED gone

\* A rename publishes the record it read before its own sweep, whatever the sweep has
\* made of it since: a demoted turn, or the end of a session that is gone.
Rename(id, n) ==
    /\ entry[id] # Absent
    /\ Free(n)
    /\ \/ Publish(id, entry[id].state, n)
       \/ /\ Live(id) \/ (entry[id].state = "exited" /\ id \in gone)
          /\ \E s \in ActivityStates(id) : Publish(id, s, n)
    /\ UNCHANGED gone

Remove(id) ==
    /\ entry[id] # Absent
    /\ entry' = [entry EXCEPT ![id] = Absent]
    /\ UNCHANGED gone

RegistryInit ==
    /\ entry \in [Ids -> {Absent} \cup [state: {"idle", "alive"}, name: Names]]
    /\ \A i, j \in Ids : Live(i) /\ Live(j) /\ entry[i].name = entry[j].name => i = j
    /\ gone = {}

RegistryNext ==
    \E id \in Ids :
        \/ Vanish(id) \/ Exit(id) \/ Archive(id) \/ Remove(id)
        \/ \E s \in ActivityStates(id) : Activity(id, s)
        \/ \E n \in Names : Register(id, n) \/ Rename(id, n)

RegistrySpec == RegistryInit /\ [][RegistryNext]_registryVars
=============================================================================
