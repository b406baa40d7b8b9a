----------------------------- MODULE UsageFeed -----------------------------
(***************************************************************************)
(* The usage strip of the sessions graph (server.py): the rate limits of    *)
(* two providers, one posted by a status line and one read back from the    *)
(* rollouts that Codex writes, rebuilt only when a signature changes.       *)
(*                                                                          *)
(* A line of a rollout has the time at which it was written; it carries     *)
(* rate limits or not, and is whole, or torn while Codex writes it.  Times  *)
(* of files are distinct: the clock advances with every write.              *)
(***************************************************************************)
EXTENDS Naturals, Sequences, FiniteSets, Null

CONSTANTS Rollouts,  \* files of the rollout directory
          MaxWalk,   \* how many of the newest are read: 5 in the code
          MaxTicks \* bound: writes and posts

ASSUME UsageAssumption ==
    /\ MaxWalk \in Nat /\ MaxTicks \in Nat /\ IsFiniteSet(Rollouts)
    /\ None \notin Nat \X SUBSET (Rollouts \X Nat)

VARIABLES
    rollouts,   \* per file: its lines and its mtime, 0 before it exists
    writes,     \* the clock
    posted,     \* when the last status line was posted, 0 for never
    usage       \* the poll thread and what it has sent to the tabs

usgVars == <<rollouts, writes, posted, usage>>

NothingSent == [anthropic |-> 0, codex |-> 0]

Line == [carries : BOOLEAN, whole : BOOLEAN, at : 1..MaxTicks]

UsageTypeOK ==
    /\ rollouts \in [Rollouts -> [lines : Seq(Line), mtime : 0..MaxTicks]]
    /\ writes \in 0..MaxTicks /\ posted \in 0..writes
    /\ usage.pc \in {"idle", "build", "walk"}
    /\ usage.walk \in Seq(Rollouts) /\ Len(usage.walk) <= MaxWalk

UsageInit ==
    /\ rollouts = [f \in Rollouts |-> [lines |-> <<>>, mtime |-> 0]]
    /\ writes = 0 /\ posted = 0
    /\ usage = [pc |-> "idle", last |-> None, statusline |-> 0, walk |-> <<>>,
                sent |-> NothingSent]

Clocked == writes < MaxTicks /\ writes' = writes + 1

----------------------------------------------------------------------------
(* The providers.                                                           *)

Torn(f) == \E i \in 1..Len(rollouts[f].lines) : ~rollouts[f].lines[i].whole

CodexWrites(f) ==
    /\ Clocked /\ ~Torn(f)
    /\ \E carries, whole \in BOOLEAN :
         rollouts' = [rollouts EXCEPT
           ![f] = [lines |-> Append(@.lines, [carries |-> carries, whole |-> whole, at |-> writes']),
                   mtime |-> writes']]
    /\ UNCHANGED <<posted, usage>>

CodexFlushes(f) ==
    /\ Clocked /\ Torn(f)
    /\ rollouts' = [rollouts EXCEPT
         ![f] = [lines |-> [@.lines EXCEPT ![Len(rollouts[f].lines)].whole = TRUE], mtime |-> writes']]
    /\ UNCHANGED <<posted, usage>>

\* set_anthropic_usage: the time of the post stands for the snapshot.
SetAnthropicUsage ==
    /\ Clocked /\ posted' = writes'
    /\ UNCHANGED <<rollouts, usage>>

----------------------------------------------------------------------------
(* The poll thread.                                                         *)

Written == {f \in Rollouts : rollouts[f].mtime > 0}

\* f is among the n files written last.
AmongNewest(f, n) ==
    Cardinality({g \in Written : rollouts[g].mtime > rollouts[f].mtime}) < n

\* usage_signature: the post, and name and times of the newest rollout.
UsageSignature ==
    <<posted, {<<f, rollouts[f].mtime>> : f \in {g \in Written : AmongNewest(g, 1)}}>>

\* The last whole line with limits, 0 for none.
LatestLimits(lines) ==
    LET limits == {i \in 1..Len(lines) : lines[i].carries /\ lines[i].whole}
    IN IF limits = {} THEN 0
       ELSE lines[CHOOSE i \in limits : \A j \in limits : j <= i].at

PushUsageIfChanged ==
    /\ usage.pc = "idle" /\ usage.last # UsageSignature
    /\ usage' = [usage EXCEPT !.pc = "build", !.last = UsageSignature]
    /\ UNCHANGED <<rollouts, writes, posted>>

\* build_usage_feed takes the post, then lists the rollouts, newest first.
NewestFirst ==
    LET files == {f \in Written : AmongNewest(f, MaxWalk)}
        Rank(f) == Cardinality({g \in files : rollouts[g].mtime >= rollouts[f].mtime})
    IN [i \in 1..Cardinality(files) |-> CHOOSE f \in files : Rank(f) = i]

ListRollouts ==
    /\ usage.pc = "build"
    /\ usage' = [usage EXCEPT !.pc = "walk", !.statusline = posted, !.walk = NewestFirst]
    /\ UNCHANGED <<rollouts, writes, posted>>

\* A slip: the signature is taken when the feed has been built.
SendAndSign(limits) ==
    usage' = [usage EXCEPT !.pc = "idle", !.last = UsageSignature, !.statusline = 0, !.walk = <<>>,
                           !.sent = [anthropic |-> usage.statusline, codex |-> limits]]

SendUsage(limits) ==
    usage' = [usage EXCEPT !.pc = "idle", !.statusline = 0, !.walk = <<>>,
                           !.sent = [anthropic |-> usage.statusline, codex |-> limits]]

\* read_codex_usage: one rollout after the other, up to the first with limits.
ReadRollout ==
    /\ usage.pc = "walk"
    /\ LET limits == IF usage.walk = <<>> THEN 0 ELSE LatestLimits(rollouts[Head(usage.walk)].lines)
       IN IF limits = 0 /\ usage.walk # <<>>
          THEN usage' = [usage EXCEPT !.walk = Tail(@)]
          ELSE SendUsage(limits)
    /\ UNCHANGED <<rollouts, writes, posted>>

UsageNext ==
    \/ \E f \in Rollouts : CodexWrites(f) \/ CodexFlushes(f)
    \/ SetAnthropicUsage
    \/ PushUsageIfChanged \/ ListRollouts \/ ReadRollout

UsageSpec == UsageInit /\ [][UsageNext]_usgVars

----------------------------------------------------------------------------
(* Properties.                                                              *)

\* What stands in the newest rollout that has limits, among those that are read.
Told(f) == {l \in {rollouts[f].lines[i] : i \in 1..Len(rollouts[f].lines)} : l.carries /\ l.whole}

Telling == {f \in Written : AmongNewest(f, MaxWalk) /\ Told(f) # {}}

\* When no build is under way and the signature is the one of the last build, the
\* tabs have been sent what both providers say now (server.py:557-566): although
\* rollouts are written and posts arrive between the signature, the listing and
\* the reading of each file, no change is signed without being sent.
UsageIsCurrent ==
    usage.pc = "idle" /\ usage.last = UsageSignature =>
      /\ usage.sent.anthropic = posted
      /\ Telling = {} => usage.sent.codex = 0
      /\ Telling # {} => \E f \in Telling : \E l \in Told(f) :
           /\ usage.sent.codex = l.at
           /\ \A k \in Told(f) : k.at <= l.at
           /\ \A g \in Telling : rollouts[g].mtime <= rollouts[f].mtime
=============================================================================
