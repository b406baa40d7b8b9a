----------------------------- MODULE ThreadPages -----------------------------
(***************************************************************************)
(* The dialogue of an agent on the phone (prototypes/remote-control): the   *)
(* live feed carries the last turns of the transcript, and earlier ones are *)
(* paged in while the transcript grows, the feed is pushed again and the    *)
(* reader opens other threads.                                              *)
(***************************************************************************)
EXTENDS Null, Integers, Sequences, SequencesExt

CONSTANTS
    MaxEntry,   \* bound: the entries of the transcript
    InboxTail,  \* how many of the last ones the feed reads
    DeepTail,   \* how many a page reads
    ThreadTurns,\* the turns of the feed
    PageTurns,  \* the turns of a page
    CallIds     \* the tool calls the agent makes

ASSUME PagesAssumption ==
    /\ MaxEntry \in Nat /\ InboxTail \in Nat /\ DeepTail \in Nat
    /\ ThreadTurns \in Nat \ {0} /\ PageTurns \in Nat \ {0, 1} /\ None \notin CallIds

VARIABLES
    dialogue,  \* the transcript; the place of an entry is its timestamp
    thread,  \* the item of the feed on the page
    older,   \* the earlier dialogue on the page
    fetch    \* the request for a page

pgVars == <<dialogue, thread, older, fetch>>

NoFetch == [pc |-> "idle", before |-> 0, page |-> <<>>, more |-> FALSE, grown |-> FALSE]
NoOlder == [open |-> FALSE, turns |-> <<>>, more |-> TRUE, boundary |-> 0]
NoThread == [turns |-> <<>>, blocked |-> None, upto |-> 0]

Turns == [who: {"you", "agent", "tools"}, ts: 0..MaxEntry]

PageTypeOK ==
    /\ dialogue \in Seq([kind: {"you", "agent", "use", "result"}, call: CallIds \cup {None}])
    /\ Len(dialogue) <= MaxEntry
    /\ thread.turns \in Seq(Turns) /\ Len(thread.turns) <= ThreadTurns
    /\ thread.blocked \in CallIds \cup {None}
    /\ older.turns \in Seq(Turns) /\ older.boundary \in 0..MaxEntry
    /\ fetch.pc \in {"idle", "sent", "answered"} /\ fetch.page \in Seq(Turns)

PageInit == dialogue = <<>> /\ thread = NoThread /\ older = NoOlder /\ fetch = NoFetch

----------------------------------------------------------------------------
(* The agent.                                                               *)

Outstanding ==
    {c \in CallIds : /\ \E i \in DOMAIN dialogue : dialogue[i] = [kind |-> "use", call |-> c]
                     /\ \A i \in DOMAIN dialogue : dialogue[i] # [kind |-> "result", call |-> c]}

Unused == {c \in CallIds : \A i \in DOMAIN dialogue : dialogue[i].call # c}

\* Both speak; the agent calls tools, several at once, and waits for all of them.
AgentWrites(kind, call) ==
    /\ Len(dialogue) < MaxEntry
    /\ CASE kind = "use" -> call \in Unused
         [] kind = "result" -> call \in Outstanding
         [] OTHER -> call = None /\ Outstanding = {}
    /\ dialogue' = Append(dialogue, [kind |-> kind, call |-> call])
    /\ fetch' = [fetch EXCEPT !.grown = older.open]
    /\ UNCHANGED <<thread, older>>

----------------------------------------------------------------------------
(* What the server reads.                                                   *)

\* _tail_entries: the place before the first of the last entries.
TailStart(entries, most) == IF Len(entries) > most THEN Len(entries) - most ELSE 0

\* A separator for a run of tool calls.
Flushed(read) == IF read.pending THEN Append(read.turns, [who |-> "tools", ts |-> 0]) ELSE read.turns

ReadEntry(read, place, entry) ==
    CASE entry.kind = "use" -> [read EXCEPT !.pending = TRUE]
      [] entry.kind = "result" -> read
      [] OTHER -> [turns |-> Append(Flushed(read), [who |-> entry.kind, ts |-> place]), pending |-> FALSE]

\* _dialogue_turns, of the entries after a place: what is said, and a separator for
\* every run of tool calls.
DialogueTurns(entries, start) ==
    LET read[n \in start..Len(entries)] ==
            IF n = start THEN [turns |-> <<>>, pending |-> FALSE]
            ELSE ReadEntry(read[n - 1], n, entries[n])
    IN  Flushed(read[Len(entries)])

Places(entries, start, kind) == {i \in start + 1..Len(entries) : entries[i].kind = kind}

AnsweredCalls(entries, start) == {entries[i].call : i \in Places(entries, start, "result")}

\* _blocked_on: the last call that is read, if no result of it is.
BlockedOn(entries, start) ==
    LET uses == Places(entries, start, "use")
    IN  IF uses = {} \/ entries[Max(uses)].call \in AnsweredCalls(entries, start) THEN None
        ELSE entries[Max(uses)].call

LastTurns(turns, most) ==
    IF Len(turns) > most THEN SubSeq(turns, Len(turns) - most + 1, Len(turns)) ELSE turns

\* build_inbox_feed, for this session.
ThreadOf(entries) ==
    LET start == TailStart(entries, InboxTail) IN
    [turns |-> LastTurns(DialogueTurns(entries, start), ThreadTurns),
     blocked |-> BlockedOn(entries, start), upto |-> Len(entries)]

PushThread ==
    /\ thread' = ThreadOf(dialogue)
    /\ thread' # thread
    /\ UNCHANGED <<dialogue, older, fetch>>

\* A slip: the turn at the boundary is served again.
CutBelow(turns, before) == {i \in DOMAIN turns : turns[i].ts > before}
CutAt(turns, before) == {i \in DOMAIN turns : turns[i].ts # 0 /\ turns[i].ts >= before}

\* session_history: the turns just before the first that the page has.
ServeHistory ==
    /\ fetch.pc = "sent"
    /\ LET turns == DialogueTurns(dialogue, TailStart(dialogue, DeepTail))
           at == CutAt(turns, fetch.before)
           cut == IF at = {} THEN Len(turns) ELSE Min(at) - 1
           start == IF cut > PageTurns THEN cut - PageTurns ELSE 0
       IN  fetch' = [fetch EXCEPT !.pc = "answered", !.page = SubSeq(turns, start + 1, cut),
                                  !.more = start > 0]
    /\ UNCHANGED <<dialogue, thread, older>>

----------------------------------------------------------------------------
(* What the page does.                                                      *)

FirstTs(turns) ==
    LET dated == {i \in DOMAIN turns : turns[i].ts # 0} IN IF dated = {} THEN 0 ELSE turns[Min(dated)].ts

BeforeThePage(old) == IF FirstTs(old.turns) # 0 THEN FirstTs(old.turns) ELSE old.boundary

\* The reader scrolls to the top.
LoadOlder ==
    /\ fetch.pc = "idle" /\ thread # NoThread /\ (older.open => older.more)
    /\ LET old == IF older.open THEN older
                  ELSE [NoOlder EXCEPT !.open = TRUE, !.boundary = FirstTs(thread.turns),
                                       !.more = FirstTs(thread.turns) # 0]
       IN  /\ older' = old
           /\ fetch' = [fetch EXCEPT !.pc = IF old.more THEN "sent" ELSE "idle", !.before = BeforeThePage(old),
                          !.grown = IF older.open THEN @ ELSE thread.upto # Len(dialogue)]
    /\ UNCHANGED <<dialogue, thread>>

PageArrives ==
    /\ fetch.pc = "answered"
    /\ older' = [older EXCEPT !.turns = fetch.page \o @, !.more = fetch.more /\ fetch.page # <<>>]
    /\ fetch' = [NoFetch EXCEPT !.grown = fetch.grown]
    /\ UNCHANGED <<dialogue, thread>>

FetchFails ==
    /\ fetch.pc # "idle"
    /\ fetch' = [NoFetch EXCEPT !.grown = fetch.grown]
    /\ UNCHANGED <<dialogue, thread, older>>

\* Another thread was opened, and older dialogue of it paged in.
OpenOther ==
    /\ older.open /\ fetch.pc = "idle"
    /\ older' = NoOlder /\ fetch' = NoFetch
    /\ UNCHANGED <<dialogue, thread>>

PageNext ==
    \/ \E kind \in {"you", "agent", "use", "result"}, call \in CallIds \cup {None} :
         AgentWrites(kind, call)
    \/ PushThread \/ ServeHistory \/ LoadOlder \/ PageArrives \/ FetchFails \/ OpenOther

PageSpec == PageInit /\ [][PageNext]_pgVars

----------------------------------------------------------------------------
(* Properties.                                                              *)

\* What was said of the thread on the page, older turns first.
OnPage == older.turns \o thread.turns
Dated(turns) == {turns[i].ts : i \in DOMAIN turns} \ {0}
InOrder(turns) ==
    \A i, j \in DOMAIN turns : i < j /\ turns[i].ts # 0 /\ turns[j].ts # 0 => turns[i].ts < turns[j].ts

\* However pages, pushes and new turns interleave, nothing that was said is on the
\* page twice or out of order (shared.js: "pages fetch strictly before it, and the
\* live window only slides forward, so no overlap").
ShownInOrder == InOrder(OnPage)

Said(entries) == {i \in DOMAIN entries : entries[i].kind \in {"you", "agent"}}

\* While the transcript stands still, what is on the page has no gap, and when there
\* is no more to load it reaches back as far as the deep tail does.
NothingSkipped ==
    older.open /\ ~fetch.grown =>
      \A i \in Said(dialogue) \ Dated(OnPage), last \in Dated(OnPage) :
        i <= last => /\ \A first \in Dated(OnPage) : i < first
                     /\ older.more \/ i <= Len(dialogue) - DeepTail

\* The card of a blocked agent is never about a call that had its result when the
\* feed was built, nor about an earlier one than the last (server.py: "the engine
\* holds a dialog for exactly that call").
NoGhostCall ==
    thread.blocked # None =>
      LET at == CHOOSE i \in DOMAIN dialogue : dialogue[i] = [kind |-> "use", call |-> thread.blocked]
      IN  \A j \in 1..thread.upto :
            /\ dialogue[j] # [kind |-> "result", call |-> thread.blocked]
            /\ dialogue[j].kind = "use" => j <= at

\* The thread on the phone is what was said, in order and without a gap, and its card
\* is about the call that waits (server.py, shared.js).
ThreadIsTrue ==
    /\ ShownInOrder
    /\ NothingSkipped
    /\ NoGhostCall
=============================================================================
