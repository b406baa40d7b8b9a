--------------------------- MODULE MCConversation ---------------------------
(***************************************************************************)
(* Instances for TLC of the components around the dialogue with an agent:   *)
(* messages into its pane and the feed read back from the transcripts, the  *)
(* answers from the phone, the dialogue paged on the phone, the rows and    *)
(* lanes of the timeline, the time of a chat's last message.  A behaviour   *)
(* is one of a single component, which part names.                          *)
(***************************************************************************)
EXTENDS MessageFeed, DialogAnswer, ThreadPages, TranscriptCache, TimelineLanes,
        TailStamp

\* Messages are interchangeable, and so are the names of sessions.
AlikeOnes == Permutations(Letters) \cup Permutations(LaneNames)

VARIABLE part

vars == <<part, feedVars, dlgVars, pgVars, cacheVars, laneVars, tailVars>>

Init ==
    /\ part \in {"messages", "dialog", "pages", "rows", "lanes", "tail"}
    /\ FeedInit /\ DialogInit /\ PageInit /\ CacheInit /\ LanesInit /\ TailInit
    /\ part # "messages" => \A m \in Letters : letter[m].by = "typed"
    /\ part = "messages" => \E m \in Letters : letter[m].by = "agent"
    /\ part # "rows" => engine = "claude"

Next ==
    \/ part = "messages" /\ FeedNext /\ UNCHANGED <<part, dlgVars, pgVars, cacheVars, laneVars, tailVars>>
    \/ part = "dialog" /\ DialogNext /\ UNCHANGED <<part, feedVars, pgVars, cacheVars, laneVars, tailVars>>
    \/ part = "pages" /\ PageNext /\ UNCHANGED <<part, feedVars, dlgVars, cacheVars, laneVars, tailVars>>
    \/ part = "rows" /\ CacheNext /\ UNCHANGED <<part, feedVars, dlgVars, pgVars, laneVars, tailVars>>
    \/ part = "lanes" /\ LanesNext /\ UNCHANGED <<part, feedVars, dlgVars, pgVars, cacheVars, tailVars>>
    \/ part = "tail" /\ TailNext
         /\ UNCHANGED <<part, feedVars, dlgVars, pgVars, cacheVars, laneVars>>

Spec == Init /\ [][Next]_vars

----------------------------------------------------------------------------
\* Every variable of the components keeps its type: a mirror is never longer
\* than its transcript, no recorded turn is empty, the cache stops at the end of a
\* line, and no page has more turns than were asked for.
TypeOK ==
    /\ FeedTypeOK /\ DialogTypeOK /\ PageTypeOK /\ CacheTypeOK /\ LanesTypeOK
    /\ TailTypeOK
=============================================================================
