---------------------------- MODULE ChatCapture ----------------------------
(***************************************************************************)
(* The list of chats on a session's record (lib/tx/hooks.py, chat.py, the   *)
(* `resume` of cli.py).  tx never chooses a chat id: spawn, fork, handover  *)
(* and rollover append a pending reference, and the first capturing hook of *)
(* the agent fills it.  Every writer loads the whole record and saves it    *)
(* whole.                                                                   *)
(***************************************************************************)
EXTENDS Null, Naturals, Sequences

CONSTANTS
    Sessions, Chats,
    MaxOps,      \* bound: the spawns and chat operations of a behaviour
    Overlaps,    \* the load-save windows of one record may overlap
    LeakyEnvs    \* a hook may report to a session that is not its agent's

Ops == 1..MaxOps

VARIABLES
    rec,    \* the chats of each record; None: no record
    agent,  \* the agent in the pane of each session
    hook,   \* its hook: agents wait for the hook they run
    op      \* the spawns and chat operations, in the order they start

cVars == <<rec, agent, hook, op>>

Kinds == {"original", "fork", "handover", "rollover", "resume"}
Refs == [id: Chats \cup {None}, role: Kinds, origin: Chats \cup {None}, ended: BOOLEAN]

ASSUME CaptureAssumption ==
    /\ None \notin Sessions \cup Chats \cup Seq(Refs)
    /\ MaxOps \in Nat /\ {Overlaps, LeakyEnvs} \subseteq BOOLEAN

NoAgent == [chat |-> None, lazy |-> None, heard |-> FALSE, strayed |-> FALSE]
NoHook == [pc |-> "idle", event |-> "none", id |-> None, to |-> None, copy |-> None,
           after |-> FALSE]
\* hasty is of no concern to the code: the rollover began before the operations on the
\* session were through and their chats captured.
NoOp == [pc |-> "idle", kind |-> "original", src |-> None, dst |-> None, chat |-> None,
         copy |-> None, hasty |-> FALSE]

CaptureTypeOK ==
    /\ \A s \in Sessions : rec[s] = None \/ \A i \in DOMAIN rec[s] : rec[s][i] \in Refs
    /\ \A s \in Sessions :
         /\ agent[s].chat \in Chats \cup {None}
         /\ hook[s].to \in Sessions \cup {None} /\ agent[s].strayed \in BOOLEAN
         /\ hook[s].pc \in {"idle", "load", "scan", "fill", "state load", "state save"}
    /\ \A o \in Ops : /\ op[o].pc \in {"idle", "launch", "record", "load", "save", "over"}
                      /\ op[o].kind \in Kinds /\ op[o].hasty \in BOOLEAN

CaptureInit ==
    /\ rec = [s \in Sessions |-> None] /\ agent = [s \in Sessions |-> NoAgent]
    /\ hook = [s \in Sessions |-> NoHook] /\ op = [o \in Ops |-> NoOp]

----------------------------------------------------------------------------
(* Reading a list of chats.                                                 *)

Ids(chats) == {chats[i].id : i \in DOMAIN chats} \ {None}
PendingAt(chats) == {i \in DOMAIN chats : chats[i].id = None}
Latest(indices) == CHOOSE i \in indices : \A j \in indices : j <= i

\* active_chat and _latest_chat: the last with an id, an open one if there is.
ActiveChat(chats) ==
    LET real == {i \in DOMAIN chats : chats[i].id # None}
        open == {i \in real : ~chats[i].ended}
    IN  IF real = {} THEN None
        ELSE chats[Latest(IF open = {} THEN real ELSE open)].id

Ref(id, role, origin) == [id |-> id, role |-> role, origin |-> origin, ended |-> FALSE]

Pending(role, origin) == Ref(None, role, origin)

\* A writer may load: nobody else is between its load and its save of `s`.
Writers(s) ==
    {o \in Ops : op[o].dst = s /\ (op[o].pc = "save" \/ (op[o].pc = "record" /\ op[o].kind = "resume"))}
    \cup {h \in Sessions : hook[h].to = s /\ hook[h].pc \in {"scan", "fill", "state save"}}
MayLoad(s) == Overlaps \/ Writers(s) = {}

\* The chats no agent has used, and no agent has been given.
Fresh == Chats \ ((UNION {Ids(rec[s]) : s \in {t \in Sessions : rec[t] # None}})
                  \cup {agent[s].chat : s \in Sessions}
                  \cup {hook[s].id : s \in Sessions})

----------------------------------------------------------------------------
(* Spawn and the chat operations.                                           *)

\* A rollover of s would begin while another operation on s is under way, or while
\* the chat of one is not captured yet.
Unsettled(s) == PendingAt(rec[s]) # {} \/ \E o \in Ops : op[o].dst = s /\ op[o].pc # "over"

\* The operations are started in their order.
NextOp(o) == op[o].pc = "idle" /\ \A p \in Ops : op[p].pc = "idle" => o <= p

StartOp(o, kind, src, dst) ==
    /\ \/ kind = "original" /\ src = None
       \/ kind # "original" /\ src # None /\ rec[src] # None /\ ActiveChat(rec[src]) # None
    /\ IF kind = "rollover" THEN dst = src
       ELSE rec[dst] = None /\ \A p \in Ops : op[p].dst # dst
    /\ op' = [op EXCEPT ![o] = [NoOp EXCEPT
                !.pc = "launch", !.kind = kind, !.src = src, !.dst = dst,
                !.chat = IF src = None THEN None ELSE ActiveChat(rec[src]),
                !.hasty = kind = "rollover" /\ Unsettled(src)]]
    /\ UNCHANGED <<rec, agent, hook>>

\* new-session, or respawn-pane -k, which ends the agent that was there and the
\* hook it runs.  A resumed agent continues its chat; a forked one reports its
\* source's until its first prompt; every other mints one.
Launch(o) ==
    /\ op[o].pc = "launch"
    /\ op[o].kind # "resume" => Fresh # {}
    /\ LET chat == IF op[o].kind = "resume" THEN op[o].chat ELSE CHOOSE c \in Fresh : TRUE
       IN  agent' = [agent EXCEPT ![op[o].dst] = [NoAgent EXCEPT !.chat = chat,
                       !.lazy = IF op[o].kind = "fork" THEN op[o].chat ELSE None,
                       !.strayed = agent[op[o].dst].strayed]]
    /\ op' = [op EXCEPT ![o].pc = IF op[o].kind = "rollover" THEN "load" ELSE "record"]
    /\ hook' = [hook EXCEPT ![op[o].dst] = NoHook]
    /\ UNCHANGED rec

\* _spawn saves the new record: a plain spawn with its pending reference, the
\* others without (records_own_chat).  resume keeps the record it gets back.
RecordSpawn(o) ==
    /\ op[o].pc = "record"
    /\ LET chats == IF op[o].kind = "original" THEN <<Pending("original", None)>> ELSE <<>>
       IN  /\ rec' = [rec EXCEPT ![op[o].dst] = chats]
           /\ op' = [op EXCEPT ![o].copy = IF op[o].kind = "resume" THEN chats ELSE None,
                       ![o].pc = CASE op[o].kind = "original" -> "over"
                                   [] op[o].kind = "resume" -> "save"
                                   [] OTHER -> "load"]
    /\ UNCHANGED <<agent, hook>>

LoadForRef(o) ==
    /\ op[o].pc = "load" /\ MayLoad(op[o].dst)
    /\ op' = [op EXCEPT ![o].pc = "save", ![o].copy = rec[op[o].dst]]
    /\ UNCHANGED <<rec, agent, hook>>

Closed(chats, chat) ==
    [i \in DOMAIN chats |-> [chats[i] EXCEPT !.ended = @ \/ chats[i].id = chat]]

Already(chats, role, chat) ==
    \E i \in DOMAIN chats :
      chats[i].role = role /\ chats[i].origin = chat /\ (role # "fork" => chats[i].id = None)

\* _record_fork_chat, _record_seeded_chat, _attach_resumed_chat.
WithRef(o) ==
    LET chats == IF op[o].kind = "rollover" THEN Closed(op[o].copy, op[o].chat) ELSE op[o].copy
    IN  CASE op[o].kind = "resume" -> Append(chats, Ref(op[o].chat, "resume", op[o].chat))
          [] op[o].kind # "resume" /\ Already(chats, op[o].kind, op[o].chat) -> chats
          [] OTHER -> Append(chats, Pending(op[o].kind, op[o].chat))

SaveRef(o) ==
    /\ op[o].pc = "save"
    /\ rec' = [rec EXCEPT ![op[o].dst] = WithRef(o)]
    /\ op' = [op EXCEPT ![o].pc = "over", ![o].copy = None]
    /\ UNCHANGED <<agent, hook>>

----------------------------------------------------------------------------
(* Hooks.                                                                   *)

Settled(s) == \A o \in Ops : op[o].dst = s => op[o].pc = "over"

\* The agent fires: the id it reports is its chat's, or its source's before a
\* lazy fork has its first prompt.  A leaked TX_SESSION_ID sends it elsewhere.
Fire(s, event, to) ==
    /\ agent[s].chat # None /\ hook[s].pc = "idle" /\ (to = s \/ LeakyEnvs)
    /\ agent' = [agent EXCEPT ![s].lazy = IF event = "prompt-submit" THEN None ELSE @,
                              ![s].strayed = @ \/ to # s]
    /\ hook' = [hook EXCEPT ![s] = [NoHook EXCEPT
                  !.pc = "load", !.event = event, !.to = to,
                  !.id = IF event = "session-start" /\ agent[s].lazy # None
                         THEN agent[s].lazy ELSE agent[s].chat,
                  !.after = to = s /\ Settled(s)]]
    /\ UNCHANGED <<rec, op>>

Ends(s) == hook' = [hook EXCEPT ![s] = NoHook]

\* After the capture: session-start drives no state, the others do.
ToState(s) ==
    IF hook[s].event = "session-start" THEN Ends(s)
    ELSE hook' = [hook EXCEPT ![s].pc = "state load", ![s].copy = None]

\* The lazy-fork guard of _complete_pending.
NotReady(ref, id) == ref.role = "fork" /\ id = ref.origin

\* The events whose payload names the chat.
CaptureEvents == {"session-start", "prompt-submit"}

\* _complete_pending before its ownership scan.
Fills(chats, id) ==
    /\ id \notin Ids(chats) /\ PendingAt(chats) # {}
    /\ ~NotReady(chats[Latest(PendingAt(chats))], id)

HookLoads(s) ==
    /\ hook[s].pc = "load"
    /\ LET to == hook[s].to
       IN  IF rec[to] = None THEN Ends(s)
           ELSE /\ MayLoad(to)
                /\ IF hook[s].event \in CaptureEvents
                        /\ Fills(rec[to], hook[s].id)
                   THEN hook' = [hook EXCEPT ![s].pc = "scan", ![s].copy = rec[to]]
                   ELSE ToState(s)
    /\ UNCHANGED <<rec, agent, op>>

\* A slip: no other record is asked for the chat.
OwnedByNobody(s, id) == FALSE
Owned(s, id) == \E t \in Sessions \ {s} : rec[t] # None /\ id \in Ids(rec[t])

HookScans(s) ==
    /\ hook[s].pc = "scan"
    /\ Overlaps \/ \A t \in Sessions : hook[t].pc # "fill"
    /\ IF Owned(hook[s].to, hook[s].id) THEN ToState(s)
       ELSE hook' = [hook EXCEPT ![s].pc = "fill"]
    /\ UNCHANGED <<rec, agent, op>>

HookFills(s) ==
    /\ hook[s].pc = "fill" /\ ToState(s)
    /\ rec' = [rec EXCEPT ![hook[s].to] =
                 [hook[s].copy EXCEPT ![Latest(PendingAt(hook[s].copy))].id = hook[s].id]]
    /\ UNCHANGED <<agent, op>>

\* record_state loads the record again and saves it with its new state; so does
\* the stamp of an ingest with its bundle path.
StateLoads(s) ==
    /\ hook[s].pc = "state load" /\ MayLoad(hook[s].to)
    /\ hook' = [hook EXCEPT ![s].pc = "state save", ![s].copy = rec[hook[s].to]]
    /\ UNCHANGED <<rec, agent, op>>

StateSaves(s) ==
    /\ hook[s].pc = "state save" /\ Ends(s)
    /\ rec' = [rec EXCEPT ![hook[s].to] = hook[s].copy]
    /\ agent' = IF hook[s].event = "prompt-submit" /\ hook[s].id = agent[s].chat
                THEN [agent EXCEPT ![s].heard = @ \/ hook[s].after] ELSE agent
    /\ UNCHANGED op

CaptureNext ==
    \/ \E o \in Ops : \/ Launch(o) \/ RecordSpawn(o) \/ LoadForRef(o) \/ SaveRef(o)
                      \/ NextOp(o) /\ \E kind \in Kinds, src \in Sessions \cup {None}, dst \in Sessions :
                           StartOp(o, kind, src, dst)
    \/ \E s \in Sessions :
         \/ \E event \in {"session-start", "prompt-submit", "stop"}, to \in Sessions : Fire(s, event, to)
         \/ HookLoads(s) \/ HookScans(s) \/ HookFills(s) \/ StateLoads(s) \/ StateSaves(s)

CaptureSpec == CaptureInit /\ [][CaptureNext]_cVars

----------------------------------------------------------------------------
(* Properties.                                                              *)

\* A chat is on one record only, except where it was resumed (hooks.py:244-246),
\* also when agents report to sessions that are not theirs.
OneOwner ==
    \A s, t \in Sessions : s # t /\ rec[s] # None /\ rec[t] # None =>
      \A i \in DOMAIN rec[s], j \in DOMAIN rec[t] :
        rec[s][i].id # None /\ rec[s][i].id = rec[t][j].id =>
          "resume" \in {rec[s][i].role, rec[t][j].role}

\* A fork is never recorded as its source's chat, though the agent may report
\* that id before it mints its own (hooks.py:216-217), and a rollover's closed
\* predecessor stays on the record, before its successor (chat.py:622-624).
LineageKept ==
    \A s \in {t \in Sessions : rec[t] # None} : \A i \in DOMAIN rec[s] :
      /\ rec[s][i].role = "fork" => rec[s][i].id # rec[s][i].origin
      /\ rec[s][i].role = "rollover" =>
           \E j \in 1..(i - 1) : rec[s][j].id = rec[s][i].origin /\ rec[s][j].ended

\* A session whose rollovers each began when the one before was captured waits for
\* one chat at a time: a second pending reference would never be told from the first
\* (chat.py:624, hooks.py:218-221).
OnePending ==
    \A s \in Sessions :
      rec[s] # None /\ (\A o \in Ops : op[o].dst = s => ~op[o].hasty) =>
        \A i, j \in PendingAt(rec[s]) : i = j

\* However early the agent's first hooks come, and whichever operations follow
\* each other, a prompt after the operation has recorded its reference leaves the
\* chat on the record, unless a hook has gone astray: the two capture events close
\* the window (hooks.py:90-92).
PromptCaptures ==
    (\A s \in Sessions : ~agent[s].strayed) =>
      \A s \in Sessions : agent[s].heard => agent[s].chat \in Ids(rec[s])

\* From the chats on the records one can tell which session has had which chat and
\* where it came from, though the operations and the hooks that write them overlap
\* (hooks.py:203-251, chat.py:600-640).
ChatsAreTracked ==
    /\ OneOwner
    /\ LineageKept
    /\ OnePending
    /\ PromptCaptures
=============================================================================
