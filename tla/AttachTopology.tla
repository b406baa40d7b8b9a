--------------------------- MODULE AttachTopology ---------------------------
(***************************************************************************)
(* Which terminal shows which session, and the operations that read and     *)
(* change it (tmux.py, the picker of cli.py, the dashboard's double-click   *)
(* and focus ring).  A view is a tmux session whose panes host nested       *)
(* clients of other sessions; tmux is asked for its clients and for its     *)
(* panes in two calls, and the two answers are joined on the tty.           *)
(***************************************************************************)
EXTENDS Null, Naturals

CONSTANTS
    MaxView,    \* the views are 1..MaxView, in the order of their names
    MaxPane,    \* each has the panes 1..MaxPane
    Agents,     \* the sessions of the agents, each with one pane of its own
    Terminals,  \* the terminals of the user
    Restless    \* whether the user may act more than once during a pick or a ring

ASSUME TopologyAssumption ==
    /\ MaxView \in Nat \ {0} /\ MaxPane \in Nat \ {0}
    /\ (Agents \cup Terminals \cup {None}) \cap Nat = {}
    /\ None \notin Agents \cup Terminals /\ Agents \cap Terminals = {}
    /\ Restless \in BOOLEAN

Views == 1..MaxView
Panes == Views \X (1..MaxPane)
ASSUME PanesAssumption == None \notin Panes

Host(pane) == pane[1]

VARIABLES
    running, \* the agents' sessions that exist
    inner,   \* what the nested client on the tty of each pane of a view shows
    outer,   \* what the client on each terminal shows
    active,  \* the active pane of each view
    recent,  \* <<t, u>> for attached terminals of which t was used later (client_activity)
    pick,    \* a picker popup, or a double-click of the dashboard
    ring     \* the dashboard computing the session to ring

topVars == <<running, inner, outer, active, recent, pick, ring>>

NoPick == [pc |-> "none", kind |-> "jump", by |-> None, pane |-> None, target |-> None,
           current |-> None, clients |-> <<>>, how |-> "none", calm |-> TRUE]
NoRing == [pc |-> "none", nested |-> <<>>, terms |-> {}, on |-> <<>>, is |-> None, calm |-> TRUE]

Attached == {t \in Terminals : outer[t] # None}

TopTypeOK ==
    /\ running \subseteq Agents
    /\ inner \in [Panes -> running \cup {None}]
    /\ outer \in [Terminals -> running \cup Views \cup {None}]
    /\ active \in [Views -> 1..MaxPane]
    /\ recent \subseteq Attached \X Attached
    /\ \A t, u \in Attached : t # u => (<<t, u>> \in recent <=> <<u, t>> \notin recent)
    /\ \A t, u, w \in Attached : <<t, u>> \in recent /\ <<u, w>> \in recent => <<t, w>> \in recent /\ t # w
    /\ pick.pc \in {"none", "check", "current", "clients", "panes", "select", "respawn", "exec", "switch", "done"}
    /\ pick.how \in {"none", "same", "select", "respawn", "switch", "failed"}
    /\ ring.pc \in {"none", "panes", "done"} /\ ring.is \in Agents \cup {None}

TopInit ==
    /\ running = Agents
    /\ inner = [p \in Panes |-> None]
    /\ outer = [t \in Terminals |-> None]
    /\ active = [v \in Views |-> 1]
    /\ recent = {} /\ pick = NoPick /\ ring = NoRing

----------------------------------------------------------------------------
(* The user, and tmux.                                                      *)

\* Whoever is between two reads no longer sees what is there.
Disturbs ==
    /\ Restless \/ (pick.calm /\ ring.calm)
    /\ pick' = IF pick.pc = "none" THEN pick ELSE [pick EXCEPT !.calm = FALSE]
    /\ ring' = IF ring.pc = "none" THEN ring ELSE [ring EXCEPT !.calm = FALSE]

RingDisturbed == ring' = IF ring.pc = "none" THEN ring ELSE [ring EXCEPT !.calm = FALSE]

Without(left) == {used \in recent : used[1] \notin left /\ used[2] \notin left}
UsedNow(t) == Without({t}) \cup ({t} \X (Attached \ {t}))

AttachView(t, v) ==
    /\ outer' = [outer EXCEPT ![t] = v] /\ recent' = UsedNow(t) /\ Disturbs
    /\ UNCHANGED <<running, inner, active>>

SelectByHand(t, i) ==
    /\ outer[t] \in Views
    /\ active' = [active EXCEPT ![outer[t]] = i] /\ recent' = UsedNow(t) /\ Disturbs
    /\ UNCHANGED <<running, inner, outer>>

DetachTerminal(t) ==
    /\ outer[t] # None
    /\ outer' = [outer EXCEPT ![t] = None] /\ recent' = Without({t}) /\ Disturbs
    /\ UNCHANGED <<running, inner, active>>

\* The wrapper around the nested client goes on with a shell.
DetachNested(p) ==
    /\ inner[p] # None /\ inner' = [inner EXCEPT ![p] = None] /\ Disturbs
    /\ UNCHANGED <<running, outer, active, recent>>

AgentQuits(a) ==
    /\ running' = running \ {a} /\ a \in running
    /\ inner' = [p \in Panes |-> IF inner[p] = a THEN None ELSE inner[p]]
    /\ outer' = [t \in Terminals |-> IF outer[t] = a THEN None ELSE outer[t]]
    /\ recent' = Without({t \in Terminals : outer[t] = a}) /\ Disturbs
    /\ UNCHANGED active

----------------------------------------------------------------------------
(* The join of clients and panes.                                           *)

\* _attachment_join: a pane surfaces what the client on its tty shows.
AttachmentJoin(clients, name) == {p \in Panes : clients[p] = name /\ clients[p] # Host(p)}

Precedes(p, q) == p[1] < q[1] \/ (p[1] = q[1] /\ p[2] < q[2])

\* attachment_map sorts the locations by host, window and pane; only the first counts.
First(panes) == CHOOSE p \in panes : \A q \in panes : p = q \/ Precedes(p, q)

\* pane_for_session: a pane of the caller's own view before any other.
PaneForSession(panes, host) ==
    LET preferred == {p \in panes : Host(p) = host}
    IN  IF preferred # {} THEN First(preferred) ELSE IF panes # {} THEN First(panes) ELSE None

----------------------------------------------------------------------------
(* The picker: attach, or jump to where the session is open already.        *)

\* The popup opens over the active pane of a terminal; the dashboard needs none.
\* One pick or ring computation runs at a time: what another would change in between
\* the user does, who may do anything at any moment.
LaunchPick(kind, t, a) ==
    /\ pick.pc = "none" /\ ring.pc = "none"
    /\ kind = "dash" <=> t = None
    /\ t # None => outer[t] \in Views
    /\ pick' = [NoPick EXCEPT !.pc = "check", !.kind = kind, !.by = t, !.target = a,
                  !.pane = IF t = None THEN None ELSE <<outer[t], active[outer[t]]>>]
    /\ recent' = IF t = None THEN recent ELSE UsedNow(t)
    /\ RingDisturbed
    /\ UNCHANGED <<running, inner, outer, active>>

Picks(change) == pick' = change
EndsPick(how) == Picks([pick EXCEPT !.pc = "done", !.how = how])

CheckSession ==
    /\ pick.pc = "check"
    /\ IF pick.target \notin running THEN EndsPick("failed")
       ELSE Picks([pick EXCEPT !.pc = IF pick.kind = "dash" THEN "clients" ELSE "current"])
    /\ UNCHANGED <<running, inner, outer, active, recent, ring>>

ReadCurrent ==
    /\ pick.pc = "current"
    /\ IF outer[pick.by] = pick.target THEN EndsPick("same")
       ELSE Picks([pick EXCEPT !.current = outer[pick.by],
                     !.pc = IF pick.kind = "jump" THEN "clients" ELSE "respawn"])
    /\ UNCHANGED <<running, inner, outer, active, recent, ring>>

ReadClients ==
    /\ pick.pc = "clients" /\ Picks([pick EXCEPT !.pc = "panes", !.clients = inner])
    /\ UNCHANGED <<running, inner, outer, active, recent, ring>>

\* A slip: a pane of another view counts as one of this.
AnywhereAlready(pane) == pane # None
HereAlready(pane) == pane # None /\ Host(pane) = pick.current

\* The clients read before, the panes read now: joined, and one location chosen.
ReadPanes ==
    /\ pick.pc = "panes"
    /\ LET found == AttachmentJoin(pick.clients, pick.target)
           pane == PaneForSession(found, pick.current)
       IN  IF pick.kind = "dash"
           THEN IF found = {} THEN EndsPick("failed")
                ELSE Picks([pick EXCEPT !.pc = "select", !.pane = First(found), !.clients = <<>>])
           ELSE IF HereAlready(pane)
           THEN Picks([pick EXCEPT !.pc = "select", !.pane = pane, !.clients = <<>>])
           ELSE Picks([pick EXCEPT !.pc = "respawn", !.clients = <<>>])
    /\ UNCHANGED <<running, inner, outer, active, recent, ring>>

\* select_window and select_pane.
SelectPane ==
    /\ pick.pc = "select" /\ EndsPick("select") /\ RingDisturbed
    /\ active' = [active EXCEPT ![Host(pick.pane)] = pick.pane[2]]
    /\ UNCHANGED <<running, inner, outer, recent>>

InShell == pick.current \in Views /\ inner[pick.pane] = None

\* _respawn_into_view_pane: the pane of a view, if a shell runs in it.
CheckShell ==
    /\ pick.pc = "respawn"
    /\ Picks([pick EXCEPT !.pc = IF InShell THEN "exec" ELSE "switch"])
    /\ UNCHANGED <<running, inner, outer, active, recent, ring>>

\* respawn-pane -k: whatever runs in the pane by now.
RespawnPane ==
    /\ pick.pc = "exec" /\ EndsPick("respawn") /\ RingDisturbed
    /\ inner' = [inner EXCEPT ![pick.pane] = IF pick.target \in running THEN pick.target ELSE None]
    /\ UNCHANGED <<running, outer, active, recent>>

\* _switch_or_attach for attach, which ignores a failed switch; jump does not.
SwitchClient ==
    /\ pick.pc = "switch"
    /\ IF pick.target \in running /\ outer[pick.by] # None
       THEN outer' = [outer EXCEPT ![pick.by] = pick.target] /\ EndsPick("switch") /\ RingDisturbed
       ELSE EndsPick("failed") /\ UNCHANGED <<outer, ring>>
    /\ UNCHANGED <<running, inner, active, recent>>

\* The popup closes, or the answer of the dashboard is sent.
ClosePick ==
    /\ pick.pc = "done" /\ pick' = NoPick
    /\ UNCHANGED <<running, inner, outer, active, recent, ring>>

PickStep ==
    \/ CheckSession \/ ReadCurrent \/ ReadClients \/ ReadPanes
    \/ SelectPane \/ CheckShell \/ RespawnPane \/ SwitchClient \/ ClosePick

----------------------------------------------------------------------------
(* The focus ring.                                                          *)

RingReadsClients ==
    /\ ring.pc = "none" /\ pick.pc = "none"
    /\ ring' = [NoRing EXCEPT !.pc = "panes", !.nested = inner, !.terms = recent, !.on = outer]
    /\ UNCHANGED <<running, inner, outer, active, recent, pick>>

\* The terminal that was used after every other.
LastUsed(on, order) ==
    CHOOSE t \in Terminals : /\ on[t] # None
                             /\ \A u \in Terminals : on[u] # None /\ u # t => <<t, u>> \in order

\* Only a client whose tty is no pane is a terminal of the user.
FocusedHost == ring.on[LastUsed(ring.on, ring.terms)]

FocusedSessionName ==
    IF \A t \in Terminals : ring.on[t] = None THEN None
    ELSE IF FocusedHost \in Views THEN ring.nested[<<FocusedHost, active[FocusedHost]>>] ELSE None

\* compute_focused_id.
ComputeRing ==
    /\ ring.pc = "panes"
    /\ ring' = [NoRing EXCEPT !.pc = "done", !.is = FocusedSessionName, !.calm = ring.calm]
    /\ UNCHANGED <<running, inner, outer, active, recent, pick>>

RingSent ==
    /\ ring.pc = "done" /\ ring' = NoRing
    /\ UNCHANGED <<running, inner, outer, active, recent, pick>>

TopNext ==
    \/ \E t \in Terminals : \/ \E v \in Views : AttachView(t, v)
                            \/ \E i \in 1..MaxPane : SelectByHand(t, i)
                            \/ DetachTerminal(t)
    \/ \E p \in Panes : DetachNested(p)
    \/ \E a \in Agents : \/ AgentQuits(a)
                         \/ \E t \in Terminals, kind \in {"attach", "jump"} : LaunchPick(kind, t, a)
                         \/ LaunchPick("dash", None, a)
    \/ PickStep \/ RingReadsClients \/ ComputeRing \/ RingSent

TopSpec == TopInit /\ [][TopNext]_topVars

----------------------------------------------------------------------------
(* Properties.                                                              *)

\* What a terminal shows its user.
ShownOn(t) ==
    IF outer[t] \notin Views THEN outer[t] ELSE inner[<<outer[t], active[outer[t]]>>]

Succeeded(kinds) ==
    pick.pc = "done" /\ pick.how # "failed" /\ pick.calm /\ pick.kind \in kinds

\* An attach or a jump that nobody disturbed leaves the terminal it was started on
\* showing the session that was chosen, by whichever of its four ways.
PickLands == Succeeded({"attach", "jump"}) => ShownOn(pick.by) = pick.target

\* A jump shows a session in one more pane of a view only when no pane of that view
\* showed it (cli.py: "focus the existing pane already hosting `name`").
JumpReusesPane ==
    Succeeded({"jump"}) /\ pick.how = "respawn" =>
      \A p \in Panes : Host(p) = pick.current /\ inner[p] = pick.target => p = pick.pane

\* The dashboard rings what the terminal used last shows, as far as it is shown
\* inside a view (tmux.py: "which node the terminal is on").
RingIsTrue ==
    ring.pc = "done" /\ ring.calm =>
      LET last == LastUsed(outer, recent) IN
      ring.is = IF Attached # {} /\ outer[last] \in Views THEN ShownOn(last) ELSE None

\* What was chosen is what is seen: a pick lands on the terminal it was made at, takes
\* the pane that shows it already, and the dashboard rings it (cli.py, tmux.py).
TerminalsShowTheChosen ==
    /\ PickLands
    /\ JumpReusesPane
    /\ RingIsTrue
=============================================================================
