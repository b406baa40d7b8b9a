---------------------------- MODULE MessageFeed ----------------------------
(***************************************************************************)
(* Messages between sessions: _deliver of lib/tx/service.py types an        *)
(* envelope into the pane of the recipient and enters it, the agent records *)
(* the turn in its transcript, and lib/tx/messages.py reconstructs the      *)
(* stream from the mirrored bundles and the transcripts of live sessions.   *)
(***************************************************************************)
EXTENDS Null, Naturals, FiniteSets, Sequences, SequencesExt

CONSTANTS
    Panes,    \* the sessions of agents
    Letters,  \* the messages that are sent
    OneTypist \* nobody types into a pane while another does

ASSUME FeedAssumption == OneTypist \in BOOLEAN /\ None \notin Nat

Channel == {"agent", "user", "typed"}

VARIABLES
    letter,   \* of each message: its channel, recipient and how far it is
    box,      \* the input box of the agent in each pane
    pane,     \* the record of each session, and the one its chat was copied from
    script,   \* its transcript: turns, each the messages entered at once
    bundle,   \* how many turns of it are mirrored; None: no bundle
    reader    \* collect_messages

feedVars == <<letter, box, pane, script, bundle, reader>>

Idle0 == [pc |-> "idle", alive |-> {}, todo |-> {}, had |-> {}, out |-> {}]

FeedTypeOK ==
    /\ \A m \in Letters : /\ letter[m].pc \in {"new", "typed", "sent", "lost"}
                          /\ letter[m].to \in Panes \cup {None} /\ letter[m].by \in Channel
    /\ \A p \in Panes : /\ pane[p] \in {"none", "live", "ended", "gone"}
                        /\ bundle[p] = None \/ bundle[p] \in 0..Len(script[p])
                        /\ \A i \in DOMAIN script[p] : Len(script[p][i].text) > 0
    /\ reader.todo \subseteq {"bundle", "live"} \X Panes

FeedInit ==
    /\ letter \in [Letters -> [pc: {"new"}, by: Channel, to: {None}]]
    /\ box = [p \in Panes |-> <<>>] /\ script = [p \in Panes |-> <<>>]
    /\ LET first == CHOOSE p \in Panes : TRUE
       IN  pane = [p \in Panes |-> IF p = first THEN "live" ELSE "none"]
    /\ bundle = [p \in Panes |-> None]
    /\ reader = Idle0

----------------------------------------------------------------------------
(* _deliver, and the user's own typing.                                     *)

Typing(p) == {m \in Letters : letter[m].pc = "typed" /\ letter[m].to = p}

\* _resolve and has_session, then the text.
TypeLetter(m, p) ==
    /\ letter[m].pc = "new" /\ pane[p] = "live"
    /\ OneTypist => Typing(p) = {}
    /\ letter' = [letter EXCEPT ![m].pc = "typed", ![m].to = p]
    /\ box' = [box EXCEPT ![p] = Append(@, m)]
    /\ UNCHANGED <<pane, script, bundle, reader>>

\* The Enter, 0.3 s later: the agent takes what is in its box, if anything, as
\* one turn, and records it.
EnterLetter(m) ==
    LET p == letter[m].to IN
    /\ letter[m].pc = "typed" /\ pane[p] = "live"
    /\ letter' = [letter EXCEPT ![m].pc = "sent"]
    /\ script' = IF box[p] = <<>> THEN script
                 ELSE [script EXCEPT ![p] = Append(@, [id |-> Head(box[p]), text |-> box[p]])]
    /\ box' = [box EXCEPT ![p] = <<>>]
    /\ UNCHANGED <<pane, bundle, reader>>

\* The session ended between the two: the keys go nowhere.
LoseLetter(m) ==
    /\ letter[m].pc = "typed" /\ pane[letter[m].to] # "live"
    /\ letter' = [letter EXCEPT ![m].pc = "lost"]
    /\ UNCHANGED <<box, pane, script, bundle, reader>>

----------------------------------------------------------------------------
(* Sessions and their mirrored transcripts.                                 *)

\* A fork or a resume starts from a copy of its source's chat: the same turns.
CopyChat(p, q) ==
    /\ pane[p] \in {"live", "ended"} /\ pane[q] = "none"
    /\ pane' = [pane EXCEPT ![q] = "live"] /\ script' = [script EXCEPT ![q] = script[p]]
    /\ UNCHANGED <<letter, box, bundle, reader>>

EndPane(p) ==
    /\ pane[p] = "live"
    /\ pane' = [pane EXCEPT ![p] = "ended"] /\ box' = [box EXCEPT ![p] = <<>>]
    /\ UNCHANGED <<letter, script, bundle, reader>>

\* tx rm: the record goes, the bundle stays.
RemovePane(p) ==
    /\ pane[p] = "ended" /\ pane' = [pane EXCEPT ![p] = "gone"]
    /\ UNCHANGED <<letter, box, script, bundle, reader>>

Mirror(p) ==
    /\ pane[p] \in {"live", "ended"} /\ bundle[p] # Len(script[p])
    /\ bundle' = [bundle EXCEPT ![p] = Len(script[p])]
    /\ UNCHANGED <<letter, box, pane, script, reader>>

----------------------------------------------------------------------------
(* _classify: the turn is an envelope if it begins and ends as one; its body *)
(* runs to the last closing tag.                                            *)

Classify(text) ==
    LET by == letter[Head(text)].by IN
    IF by # "typed" /\ letter[Last(text)].by = by
    THEN [by |-> by, from |-> Head(text)] ELSE [by |-> "typed", from |-> None]

----------------------------------------------------------------------------
(* collect_messages.                                                        *)

Mirrored(p) == SubSeq(script[p], 1, bundle[p])
TurnIds(turns) == {turns[i].id : i \in DOMAIN turns}

LivePanes == {p \in Panes : pane[p] = "live"}
Bundles == {p \in Panes : bundle[p] # None}

\* The turns that are in scope: mirrored, or of a session that lives.
InScope == UNION ({TurnIds(Mirrored(p)) : p \in Bundles} \cup {TurnIds(script[p]) : p \in LivePanes})

\* store.all() comes first, then the bundles are listed.
ReadStore ==
    /\ reader.pc = "idle"
    /\ reader' = [Idle0 EXCEPT !.pc = "list", !.alive = LivePanes, !.had = InScope]
    /\ UNCHANGED <<letter, box, pane, script, bundle>>

ListSources ==
    /\ reader.pc = "list"
    /\ reader' = [reader EXCEPT !.pc = "read",
                    !.todo = ({"bundle"} \X Bundles) \cup ({"live"} \X reader.alive)]
    /\ UNCHANGED <<letter, box, pane, script, bundle>>

\* A slip: turns are not told apart by their uuid.
SeenNever(id) == FALSE
SeenTurn(id) == \E turn \in reader.out : turn.id = id

\* What is read of a source: its turns but for those that another had, each with
\* the place it was read at.
Read(kind, p) ==
    LET turns == IF kind = "bundle" THEN Mirrored(p) ELSE script[p]
    IN  {[id |-> turns[i].id, at |-> <<kind, p, i>>, is |-> Classify(turns[i].text)] :
            i \in {j \in DOMAIN turns : ~SeenTurn(turns[j].id)}}

\* The bundles in the order of the random session ids, then the live ones.
ReadSource(kind, p) ==
    /\ reader.pc = "read" /\ <<kind, p>> \in reader.todo
    /\ kind = "live" => \A s \in reader.todo : s[1] = "live"
    /\ reader' = [reader EXCEPT !.todo = @ \ {<<kind, p>>},
                    !.out = @ \cup Read(kind, p)]
    /\ UNCHANGED <<letter, box, pane, script, bundle>>

FeedRead ==
    /\ reader.pc = "read" /\ reader.todo = {}
    /\ reader' = [reader EXCEPT !.pc = "idle", !.alive = {}, !.had = {}, !.out = {}]
    /\ UNCHANGED <<letter, box, pane, script, bundle>>

FeedNext ==
    \/ \E m \in Letters : \/ EnterLetter(m) \/ LoseLetter(m)
                          \/ \E p \in Panes : TypeLetter(m, p)
    \/ \E p \in Panes : \/ EndPane(p) \/ RemovePane(p) \/ Mirror(p)
                        \/ \E q \in Panes : CopyChat(p, q)
                        \/ \E kind \in {"bundle", "live"} : ReadSource(kind, p)
    \/ ReadStore \/ ListSources \/ FeedRead

FeedSpec == FeedInit /\ [][FeedNext]_feedVars

----------------------------------------------------------------------------
(* Properties.                                                              *)

\* Messages sent one after the other to a pane arrive as turns of their own,
\* entered once (service.py:549-552: type, pause, Enter).
ArrivesAlone ==
    \A m \in Letters : letter[m].pc = "sent" =>
      \A p \in Panes : \A i \in DOMAIN script[p] :
        m \in Range(script[p][i].text) => script[p][i].text = <<m>>

FeedDone == reader.pc = "read" /\ reader.todo = {}

\* What was in scope when the collection began is in it, whatever is sent,
\* mirrored, ended or removed meanwhile, and once, though a bundle and a live
\* transcript overlap and forks repeat their source (messages.py: deduped by uuid).
FeedCompleteOnce ==
    FeedDone => /\ reader.had \subseteq {turn.id : turn \in reader.out}
                /\ \A turn, other \in reader.out : turn.id = other.id => turn = other

\* Each is shown with the channel it was sent on and the sender that sent it,
\* though the transcript holds nothing but the text (messages.py:11-12).
FeedAttributes ==
    FeedDone => \A turn \in reader.out :
      /\ turn.is.by = letter[turn.id].by
      /\ turn.is.by # "typed" => turn.is.from = turn.id

\* A message arrives as a turn of its own and is shown once, with its sender, however
\* it and the mirroring of its transcript interleave (messages.py:9-14).
MessagesArrive ==
    /\ ArrivesAlone
    /\ FeedCompleteOnce
    /\ FeedAttributes
=============================================================================
