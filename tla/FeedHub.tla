------------------------------ MODULE FeedHub ------------------------------
(***************************************************************************)
(* The live dashboard (prototypes/sessions-graph/server.py): one poll loop  *)
(* rebuilds four feeds and pushes them to the queue of every connected tab, *)
(* a tmux hook pokes a fifth one, the focused session, and a tab that       *)
(* connects is sent a snapshot of each.                                     *)
(***************************************************************************)
EXTENDS Null, Naturals, Sequences, SequencesExt

CONSTANTS
    Tabs,
    MaxWorld,   \* bound: changes of the things the feeds show
    MaxFocus,   \* bound: changes of focus
    MaxQueue,   \* bound: what waits in the queue of a tab when the loop ticks
    Places,     \* the sessions the terminal can be on
    QuietFocus  \* the focus moves, and tabs connect, when no poke is under way

ASSUME HubAssumption ==
    MaxWorld \in Nat /\ MaxFocus \in Nat /\ MaxQueue \in Nat /\ QuietFocus \in BOOLEAN /\ None \notin Places

Things == {"states", "labels", "scripts", "quota"}
Polled == <<"feed", "messages", "usage", "inbox">>
Channels == {"feed", "messages", "usage", "inbox", "focus"}

VARIABLES
    world,  \* a version of each thing: records, transcripts, rate limits
    clock,  \* the ticks of the loop: time.time() in the feed
    focus,  \* the session the terminal is on
    moves,  \* how often it has moved
    loop,   \* the poll loop
    hub,    \* its fields: the last digest or signature of each channel
    pokes,  \* the requests to /api/focus-changed, each a thread
    tab     \* the browser tabs and the threads that stream to them

hubVars == <<world, clock, focus, moves, loop, hub, pokes, tab>>

Unseen == [c \in Channels |-> None]
NoTab == [pc |-> "closed", at |-> 0, queue |-> <<>>, shown |-> Unseen]

HubTypeOK ==
    /\ world \in [Things -> 0..MaxWorld] /\ focus \in Places /\ moves \in 0..MaxFocus /\ clock \in BOOLEAN
    /\ loop.pc \in {"wait", "sign", "build", "put", "sleep"}
    /\ loop.at \in 1..Len(Polled)
    /\ DOMAIN hub = Channels
    /\ \A k \in Tabs : /\ tab[k].pc \in {"closed", "snapshot", "stream"}
                       /\ tab[k].at \in 0..5
                       /\ \A i \in DOMAIN tab[k].queue : tab[k].queue[i].channel \in Channels

HubInit ==
    /\ world = [t \in Things |-> 0] /\ clock = FALSE /\ focus \in Places /\ moves = 0
    /\ loop = [pc |-> "wait", at |-> 1, built |-> None]
    /\ hub = Unseen
    /\ pokes = <<>>
    /\ tab = [k \in Tabs |-> NoTab]

----------------------------------------------------------------------------
(* What a feed shows, and what its change detector looks at.                *)

Shows(c) ==
    CASE c = "feed" -> {"states", "labels"}
      [] c = "messages" -> {"scripts", "labels"}
      [] c = "usage" -> {"quota"}
      [] c = "inbox" -> {"states", "scripts", "labels"}

\* source_signature, usage_signature and inbox_signature look at sizes, times
\* and states; the feed is its own signature.
Watches(c) ==
    CASE c = "feed" -> {"states", "labels"}
      [] c = "messages" -> {"scripts"}
      [] c = "usage" -> {"quota"}
      [] c = "inbox" -> {"states", "scripts"}

Seen(things) == [t \in things |-> world[t]]

Build(c) == IF c = "focus" THEN focus ELSE Seen(Shows(c))

\* build_feed stamps generated_at into what is hashed.
Digest(c) == [seen |-> Seen(Watches(c)), at |-> IF c = "feed" THEN clock ELSE None]

----------------------------------------------------------------------------
(* The poll loop.                                                           *)

Open == {k \in Tabs : tab[k].pc # "closed"}

WakeUp ==
    /\ loop.pc = "wait" /\ Open # {}
    /\ loop' = [loop EXCEPT !.pc = "sign", !.at = 1]
    /\ UNCHANGED <<world, clock, focus, moves, hub, pokes, tab>>

\* A slip: the round ends one channel early.
NextChannelShort ==
    loop' = IF loop.at >= Len(Polled) - 1 THEN [loop EXCEPT !.pc = "sleep", !.built = None]
            ELSE [loop EXCEPT !.pc = "sign", !.at = @ + 1, !.built = None]

NextChannel ==
    loop' = IF loop.at = Len(Polled) THEN [loop EXCEPT !.pc = "sleep", !.built = None]
            ELSE [loop EXCEPT !.pc = "sign", !.at = @ + 1, !.built = None]

\* The feed is built before it is hashed; of the others the signature is taken,
\* and remembered, first.
Sign ==
    /\ loop.pc = "sign"
    /\ LET c == Polled[loop.at] IN
       IF hub[c] = Digest(c) THEN NextChannel /\ UNCHANGED hub
       ELSE /\ hub' = [hub EXCEPT ![c] = Digest(c)]
            /\ loop' = IF c = "feed" THEN [loop EXCEPT !.pc = "put", !.built = Build(c)]
                       ELSE [loop EXCEPT !.pc = "build"]
    /\ UNCHANGED <<world, clock, focus, moves, pokes, tab>>

BuildFeed ==
    /\ loop.pc = "build"
    /\ loop' = [loop EXCEPT !.pc = "put", !.built = Build(Polled[loop.at])]
    /\ UNCHANGED <<world, clock, focus, moves, hub, pokes, tab>>

Queued(tabs, c, what) ==
    [k \in Tabs |-> IF k \in tabs /\ tab[k].pc # "closed"
                    THEN [tab[k] EXCEPT !.queue = Append(@, [channel |-> c, what |-> what])]
                    ELSE tab[k]]

Put ==
    /\ loop.pc = "put" /\ NextChannel
    /\ tab' = Queued(Open, Polled[loop.at], loop.built)
    /\ UNCHANGED <<world, clock, focus, moves, hub, pokes>>

Sleep ==
    /\ loop.pc = "sleep" /\ \A k \in Tabs : Len(tab[k].queue) <= MaxQueue
    /\ loop' = [loop EXCEPT !.pc = "wait", !.at = 1]
    /\ clock' = ~clock
    /\ UNCHANGED <<world, focus, moves, hub, pokes, tab>>

----------------------------------------------------------------------------
(* push_focus.                                                              *)

Poke == [pc |-> "compute", focus |-> None, to |-> {}]

ComputeFocus(i) ==
    /\ pokes[i].pc = "compute"
    /\ pokes' = [pokes EXCEPT ![i].pc = "compare", ![i].focus = focus]
    /\ UNCHANGED <<world, clock, focus, moves, loop, hub, tab>>

RemembersFocus(i) == hub["focus"] = pokes[i].focus

CompareFocus(i) ==
    /\ pokes[i].pc = "compare"
    /\ IF RemembersFocus(i) THEN pokes' = RemoveAt(pokes, i) /\ UNCHANGED hub
       ELSE /\ hub' = [hub EXCEPT !["focus"] = pokes[i].focus]
            /\ pokes' = [pokes EXCEPT ![i].pc = "put", ![i].to = Open]
    /\ UNCHANGED <<world, clock, focus, moves, loop, tab>>

PutFocus(i) ==
    /\ pokes[i].pc = "put"
    /\ pokes' = RemoveAt(pokes, i)
    /\ tab' = Queued(pokes[i].to, "focus", pokes[i].focus)
    /\ UNCHANGED <<world, clock, focus, moves, loop, hub>>

----------------------------------------------------------------------------
(* The stream of one tab: subscribe, five snapshots, then the queue.        *)

Snapshots == <<"feed", "focus", "messages", "usage", "inbox">>

Connect(k) ==
    /\ tab[k].pc = "closed" /\ (QuietFocus => pokes = <<>>)
    /\ tab' = [tab EXCEPT ![k] = [NoTab EXCEPT !.pc = "snapshot", !.at = 1]]
    /\ UNCHANGED <<world, clock, focus, moves, loop, hub, pokes>>

SendSnapshot(k) ==
    /\ tab[k].pc = "snapshot"
    /\ LET c == Snapshots[tab[k].at]
           last == tab[k].at = Len(Snapshots)
       IN  tab' = [tab EXCEPT ![k].shown[c] = Build(c), ![k].at = IF last THEN 0 ELSE @ + 1,
                              ![k].pc = IF last THEN "stream" ELSE "snapshot"]
    /\ UNCHANGED <<world, clock, focus, moves, loop, hub, pokes>>

SendQueued(k) ==
    /\ tab[k].pc = "stream" /\ tab[k].queue # <<>>
    /\ LET item == Head(tab[k].queue) IN
       tab' = [tab EXCEPT ![k].shown[item.channel] = item.what, ![k].queue = Tail(@)]
    /\ UNCHANGED <<world, clock, focus, moves, loop, hub, pokes>>

\* The write to a tab that has gone raises, and the thread unsubscribes.
Disconnect(k) ==
    /\ tab[k].pc # "closed"
    /\ tab' = [tab EXCEPT ![k] = NoTab]
    /\ UNCHANGED <<world, clock, focus, moves, loop, hub, pokes>>

----------------------------------------------------------------------------
(* The world.                                                               *)

Changes(t) ==
    /\ world["states"] + world["labels"] + world["scripts"] + world["quota"] < MaxWorld
    /\ world' = [world EXCEPT ![t] = @ + 1]
    /\ UNCHANGED <<clock, focus, moves, loop, hub, pokes, tab>>

\* The user moves; the hook of tmux sends its poke.
FocusMoves(p) ==
    /\ p # focus /\ moves < MaxFocus /\ (QuietFocus => pokes = <<>>)
    /\ focus' = p /\ moves' = moves + 1 /\ pokes' = Append(pokes, Poke)
    /\ UNCHANGED <<world, clock, loop, hub, tab>>

LoopStep == WakeUp \/ Sign \/ BuildFeed \/ Put \/ Sleep
PokeStep(i) == ComputeFocus(i) \/ CompareFocus(i) \/ PutFocus(i)
TabStep(k) == SendSnapshot(k) \/ SendQueued(k)

HubNext ==
    \/ LoopStep
    \/ \E i \in DOMAIN pokes : PokeStep(i)
    \/ \E k \in Tabs : TabStep(k) \/ Connect(k) \/ Disconnect(k)
    \/ \E t \in Things : Changes(t)
    \/ \E p \in Places : FocusMoves(p)

\* The loop and the threads are scheduled; tabs, users and agents owe nothing.
HubFairness ==
    /\ WF_hubVars(LoopStep)
    /\ \A i \in 1..MaxFocus : WF_hubVars(i \in DOMAIN pokes /\ PokeStep(i))
    /\ \A k \in Tabs : WF_hubVars(TabStep(k))

HubSpec == HubInit /\ [][HubNext]_hubVars /\ HubFairness

----------------------------------------------------------------------------
(* Properties.                                                              *)

Fresh(k) == \A c \in Channels \ {"focus"} :
    tab[k].shown[c] # None /\ \A t \in Watches(c) : tab[k].shown[c][t] = world[t]

\* Whatever the order of changes, signatures, builds, snapshots and pushes, a tab
\* that stays open comes to show what the change detectors watch as it is
\* (server.py: "so a just-opened tab is current at once, then one each time").
TabsCatchUp == \A k \in Tabs : []<>(tab[k].pc = "closed" \/ Fresh(k))

\* When the poke is over and the queues are empty, every ring is where the
\* terminal is (server.py: concurrent pokes collapse to one broadcast).
RingIsRight ==
    \A k \in Tabs : pokes = <<>> /\ tab[k].pc = "stream" /\ tab[k].queue = <<>> =>
      tab[k].shown["focus"] = focus

\* An open tab shows the world in the end, and the ring as soon as nothing is on its
\* way, whatever was polled, built or pushed when it was opened (server.py: "so a
\* just-opened tab is current at once").
TabsStayCurrent == TabsCatchUp /\ []RingIsRight
=============================================================================
