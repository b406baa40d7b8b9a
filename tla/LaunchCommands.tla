--------------------------- MODULE LaunchCommands ---------------------------
(***************************************************************************)
(* The command line of an agent along a chain of chat operations            *)
(* (lib/tx/engines, the spawn of service.py): a spawn builds it or takes it *)
(* as written; resume, fork, handover and rollover derive the next from the *)
(* recorded one.  A chain is one conversation with its successors.          *)
(***************************************************************************)
EXTENDS Null, Naturals, FiniteSets, Sequences, SequencesExt, FiniteSetsExt

CONSTANTS
    Engines,     \* of "claude", "codex", "agy"
    MaxBlocks,   \* bound: the flags of a command written by hand
    MaxLinks,    \* bound: the operations of a chain
    Chats,       \* the ids minted for the chats of a chain, in their order
    Trees,       \* the worktrees made for it, in their order
    OddForms     \* hand-written commands of claude and codex use --flag=value

ASSUME LaunchAssumption ==
    /\ Engines \subseteq {"claude", "codex", "agy"}
    /\ MaxBlocks \in Nat /\ MaxLinks \in Nat /\ OddForms \in BOOLEAN
    /\ MaxLinks < Len(Chats) /\ MaxLinks < Len(Trees)
    /\ None \notin {"claude", "codex", "agy", "m", "c0"}

VARIABLES
    session,    \* the last session of the chain: its record, and what runs in it
    want,       \* what the operation that started it asked for
    scripts,    \* the transcripts on disk, by chat and worktree
    links       \* the operations so far

lcVars == <<session, want, scripts, links>>

(* Tokens, without the binary.  "yolo" stands for the flag that skips every *)
(* permission, "trust" for codex's second one.                              *)
Flag(name) == [is |-> "flag", name |-> name, inline |-> None]
Inline(name, value) == [is |-> "flag", name |-> name, inline |-> value]
Word(name) == [is |-> "word", name |-> name, inline |-> None]
Option(name, value) == <<Flag(name), Word(value)>>
Control == [is |-> "control", name |-> ";", inline |-> None]

ChatName(n) == Chats[n + 1]
TreeName(n) == Trees[n + 1]
ChatNames == {ChatName(n) : n \in 0..MaxLinks}
TreeNames == {TreeName(n) : n \in 0..MaxLinks}

----------------------------------------------------------------------------
(* The flags each adapter knows.  Any other flag takes the word after it.   *)

IdentityValues(e) ==
    CASE e = "claude" -> {"--session-id"} [] e = "codex" -> {}
      [] e = "agy" -> {"--conversation", "-i", "--add-dir", "--log-file"}
IdentityOptional(e) == IF e = "claude" THEN {"--resume"} ELSE {}
IdentityBare(e) ==
    CASE e = "claude" -> {"--fork-session", "--continue"}
      [] e = "codex" -> {"--last"} [] e = "agy" -> {"--continue"}
Bare(e) ==
    CASE e = "claude" -> {"yolo", "--verbose", "--no-chrome"} [] e = "codex" -> {"yolo", "trust", "--search"}
      [] e = "agy" -> {"yolo", "--sandbox", "--new-project"}
Variadic(e) ==
    CASE e = "claude" -> {"--allowedTools", "--disallowedTools", "--add-dir"}
      [] e = "codex" -> {"--image"} [] e = "agy" -> {}

\* Only agy's adapter splits --flag=value.
Known(e, t, names) == t.is = "flag" /\ t.name \in names /\ (t.inline = None \/ e = "agy")
HasValue(e, t) == e = "agy" /\ t.inline # None

Words(cmd, i) ==
    LET stops == {j \in (i + 1)..Len(cmd) : cmd[j].is # "word"}
    IN  (IF stops = {} THEN Len(cmd) + 1 ELSE Min(stops)) - i - 1

\* One pass over the tokens: the item at i spans span[i] of them, and goes as a whole
\* unless keeps has i.
Filtered(cmd, span, keeps) ==
    LET kept[i \in 1..(Len(cmd) + 1)] ==
          IF i > Len(cmd) THEN <<>>
          ELSE (IF i \in keeps THEN SubSeq(cmd, i, Min({i + span[i] - 1, Len(cmd)})) ELSE <<>>)
               \o kept[Min({i + span[i], Len(cmd) + 1})]
    IN  kept[1]

\* Everything from the first shell control on is not the agent's.
BeforeShell(cmd) ==
    LET ends == {i \in DOMAIN cmd : cmd[i].is = "control"}
    IN  IF ends = {} THEN cmd ELSE SubSeq(cmd, 1, Min(ends) - 1)

\* codex names the chat by a leading subcommand and a word.
AfterVerb(e, cmd) ==
    IF e # "codex" \/ cmd = <<>> \/ cmd[1].is # "word" \/ cmd[1].name \notin {"resume", "fork"} THEN cmd
    ELSE IF Len(cmd) > 1 /\ cmd[2].is # "flag" THEN SubSeq(cmd, 3, Len(cmd)) ELSE Tail(cmd)

\* The three _strip_identity are one pass over different tables: identity flags,
\* prompts and (agy) the binding to a worktree go.
IdentitySpan(e, cmd, i) ==
    IF cmd[i].is # "flag" \/ HasValue(e, cmd[i]) \/ Known(e, cmd[i], IdentityBare(e) \cup Bare(e)) THEN 1
    ELSE IF Known(e, cmd[i], Variadic(e)) THEN 1 + Words(cmd, i)
    ELSE IF Known(e, cmd[i], IdentityValues(e)) \/ Words(cmd, i) > 0 THEN 2 ELSE 1
Inherited(e, t) ==
    t.is = "flag" /\ ~Known(e, t, IdentityValues(e) \cup IdentityOptional(e) \cup IdentityBare(e))

WithoutIdentity(e, cmd) ==
    Filtered(cmd, [i \in DOMAIN cmd |-> IdentitySpan(e, cmd, i)], {i \in DOMAIN cmd : Inherited(e, cmd[i])})

StripIdentity(e, command) ==
    WithoutIdentity(e, BeforeShell(AfterVerb(e, command)))

----------------------------------------------------------------------------
(* Access: writable, or read-only inside the outer sandbox.                 *)

AccessBare(e) ==
    CASE e = "claude" -> {"yolo"} [] e = "codex" -> {"yolo", "trust"} [] e = "agy" -> {"yolo", "--sandbox"}
AccessValues(e) ==
    CASE e = "claude" -> {"--permission-mode"} [] e = "codex" -> {"--sandbox", "--ask-for-approval"}
      [] e = "agy" -> {"--mode"}
AccessLists(e) == IF e = "claude" THEN {"--allowedTools", "--disallowedTools"} ELSE {}

\* tx's own setting sources; a user's choice of others stays.
TxSources(cmd, i) ==
    cmd[i] = Flag("--setting-sources") /\ i < Len(cmd) /\ cmd[i + 1] = Word("user")

AccessSpan(e, cmd, i) ==
    IF Known(e, cmd[i], AccessValues(e)) THEN IF HasValue(e, cmd[i]) THEN 1 ELSE 2
    ELSE IF e = "claude" /\ Known(e, cmd[i], AccessLists(e)) THEN 1 + Words(cmd, i)
    ELSE IF (e = "claude" /\ TxSources(cmd, i)) \/ (e = "agy" /\ cmd[i] = Flag("-i")) THEN 2 ELSE 1
NoAccess(e, cmd, i) ==
    /\ ~Known(e, cmd[i], AccessBare(e) \cup AccessValues(e) \cup AccessLists(e))
    /\ ~(e = "claude" /\ TxSources(cmd, i))

StripAccess(e, cmd) ==
    Filtered(cmd, [i \in DOMAIN cmd |-> AccessSpan(e, cmd, i)], {i \in DOMAIN cmd : NoAccess(e, cmd, i)})

Writable(e) == IF e = "codex" THEN <<Flag("yolo")>> \o <<Flag("trust")>> ELSE <<Flag("yolo")>>
ClaudeReadOnly ==
    Option("--allowedTools", "Bash") \o Option("--disallowedTools", "Edit")
    \o Option("--permission-mode", "dontAsk") \o Option("--setting-sources", "user")
CodexReadOnly == Option("--sandbox", "full") \o Option("--ask-for-approval", "never") \o <<Flag("trust")>>
AgyReadOnly == Option("--mode", "plan")
ReadOnly(e) ==
    CASE e = "claude" -> ClaudeReadOnly [] e = "codex" -> CodexReadOnly [] e = "agy" -> AgyReadOnly

\* A slip: the inherited access flags stay.
AddAccess(e, cmd, ro) == cmd \o (IF ro THEN ReadOnly(e) ELSE Writable(e))
ApplyAccess(e, cmd, ro) == StripAccess(e, cmd) \o (IF ro THEN ReadOnly(e) ELSE Writable(e))

\* The word after the first such flag, as list.index finds it.
FirstValue(cmd, name) ==
    LET at == {i \in 1..(Len(cmd) - 1) : cmd[i] = Flag(name)}
    IN  IF at = {} THEN None ELSE cmd[Min(at) + 1].name
AfterFirst(cmd, name) ==
    LET at == {i \in DOMAIN cmd : cmd[i] = Flag(name)}
    IN  IF at = {} THEN {}
        ELSE {cmd[j].name : j \in (Min(at) + 1)..(Min(at) + Words(cmd, Min(at)))}

IsClaudeReadOnly(cmd) ==
    /\ FirstValue(cmd, "--permission-mode") = "dontAsk"
    /\ FirstValue(cmd, "--setting-sources") = "user"
    /\ "Edit" \in AfterFirst(cmd, "--disallowedTools")
    /\ "Bash" \in AfterFirst(cmd, "--allowedTools") \ AfterFirst(cmd, "--disallowedTools")
IsCodexReadOnly(cmd) ==
    /\ FirstValue(cmd, "--sandbox") = "full"
    /\ FirstValue(cmd, "--ask-for-approval") = "never"
IsAgyReadOnly(cmd) ==
    LET modes == {i \in DOMAIN cmd : Known("agy", cmd[i], {"--mode"})} IN
    /\ Flag("--sandbox") \notin Range(cmd)
    /\ modes # {}
    /\ LET i == Max(modes) IN
       \/ cmd[i].inline = "plan"
       \/ cmd[i].inline = None /\ i < Len(cmd) /\ cmd[i + 1].name = "plan"

IsReadOnly(e, cmd) ==
    /\ Flag("yolo") \notin Range(cmd)
    /\ CASE e = "claude" -> IsClaudeReadOnly(cmd) [] e = "codex" -> IsCodexReadOnly(cmd)
         [] e = "agy" -> IsAgyReadOnly(cmd)

----------------------------------------------------------------------------
(* The commands of the operations.                                          *)

Seed(e, text) == IF e = "agy" THEN Option("-i", text) ELSE <<Word(text)>>

\* build_launch_command.  A role is a flag of claude and of codex; agy's is a file
\* the environment points to.
ClaudeBuild(model, role) ==
    (IF model THEN Option("--model", "m") ELSE <<>>)
    \o Option("--effort", "high") \o <<Flag("--no-chrome")>>
    \o (IF role THEN Option("--append-system-prompt", "role") ELSE <<>>)
CodexBuild(role) ==
    Option("-m", "m") \o Option("-c", "effort") \o (IF role THEN Option("-c", "role") ELSE <<>>)
AgyBuild == Option("--model", "m")

Build(e, model, role, prompt, ro) ==
    LET persona == CASE e = "claude" -> ClaudeBuild(model, role) [] e = "codex" -> CodexBuild(role)
                     [] e = "agy" -> AgyBuild
    IN  ApplyAccess(e, persona, ro) \o (IF prompt THEN Seed(e, "first prompt") ELSE <<>>)

Identity(e, kind, chat) ==
    CASE e = "claude" -> Option("--resume", chat)
                         \o (IF kind = "fork" THEN <<Flag("--fork-session")>> ELSE <<>>)
      [] e = "codex" -> <<Word(kind), Word(chat)>>
      [] e = "agy" -> Option("--conversation", chat)

ContinueCommand(e, kind, cmd, chat, ro) ==
    ApplyAccess(e, Identity(e, kind, chat) \o StripIdentity(e, cmd), ro)

SeedCommand(e, cmd, text, ro) == ApplyAccess(e, StripIdentity(e, cmd), ro) \o Seed(e, text)

\* prepare_workspace: codex's own update check is switched off, in front of all;
\* agy is bound to the worktree.  A compound command of codex is left alone.
UpdateCheck == {"check=on", "check=off"}
Bound(e, cmd, i) ==
    IF e = "agy" THEN Known(e, cmd[i], {"--add-dir", "--log-file"})
    ELSE cmd[i] = Flag("-c") /\ i < Len(cmd) /\ cmd[i + 1].name \in UpdateCheck
BindingSpan(e, cmd, i) ==
    IF Bound(e, cmd, i) THEN IF HasValue(e, cmd[i]) THEN 1 ELSE 2
    ELSE IF e = "agy" /\ cmd[i] = Flag("-i") THEN 2 ELSE 1

DropBinding(e, cmd) ==
    Filtered(cmd, [i \in DOMAIN cmd |-> BindingSpan(e, cmd, i)], {i \in DOMAIN cmd : ~Bound(e, cmd, i)})

CodexPrepared(cmd) ==
    IF Control \in Range(cmd) THEN cmd ELSE Option("-c", "check=off") \o DropBinding("codex", cmd)
AgyPrepared(cmd, tree) ==
    (Option("--add-dir", tree) \o Option("--log-file", tree)) \o DropBinding("agy", cmd)

Prepared(e, cmd, tree) ==
    CASE e = "claude" -> cmd [] e = "codex" -> CodexPrepared(cmd) [] e = "agy" -> AgyPrepared(cmd, tree)

----------------------------------------------------------------------------
(* How an agent itself reads its command: which words belong to which flag. *)

Arity(e, name) ==
    CASE name \in {"yolo", "trust", "--verbose", "--no-chrome", "--search", "--new-project",
                   "--fork-session", "--continue", "--last"} -> "none"
      [] name = "--sandbox" -> IF e = "agy" THEN "none" ELSE "one"
      [] name = "--resume" -> "maybe"
      [] name \in {"--allowedTools", "--disallowedTools", "--image"} -> "many"
      [] name = "--add-dir" -> IF e = "claude" THEN "many" ELSE "one"
      [] OTHER -> "one"

\* The word at j belongs to the flag at i.  A word no flag owns is a positional.
Owns(e, cmd, i, j) ==
    /\ cmd[i].is = "flag" /\ cmd[i].inline = None /\ \A k \in (i + 1)..(j - 1) : cmd[k].is # "flag"
    /\ \/ Arity(e, cmd[i].name) = "many"
       \/ Arity(e, cmd[i].name) \in {"one", "maybe"} /\ j = i + 1

Positions(cmd, is) == {i \in DOMAIN cmd : cmd[i].is = is}
Owned(e, cmd, i) == {j \in Positions(cmd, "word") : i < j /\ Owns(e, cmd, i, j)}
Setting(e, cmd, i) ==
    [flag |-> cmd[i].name, values |-> {cmd[j].name : j \in Owned(e, cmd, i)} \cup ({cmd[i].inline} \ {None})]
Settings(e, command) ==
    LET cmd == BeforeShell(command) IN {Setting(e, cmd, i) : i \in Positions(cmd, "flag")}

Positionals(e, command) ==
    LET cmd == BeforeShell(command)
    IN  {j \in Positions(cmd, "word") : \A i \in 1..(j - 1) : ~Owns(e, cmd, i, j)}

ValuesOf(e, cmd, names) == UNION {s.values : s \in {t \in Settings(e, cmd) : t.flag \in names}}

FirstOf(S) == {i \in S : \A j \in S : i <= j}
HasVerb(e, cmd) ==
    e = "codex" /\ \E i \in FirstOf(Positionals(e, cmd)) : cmd[i].name \in {"resume", "fork"}
Operands(e, cmd) == Positionals(e, cmd) \ FirstOf(Positionals(e, cmd))

ChatsNamed(e, cmd) ==
    IF HasVerb(e, cmd) THEN {cmd[i].name : i \in FirstOf(Operands(e, cmd))}
    ELSE ValuesOf(e, cmd, {"--resume", "--session-id", "--conversation"})

Prompts(e, cmd) ==
    CASE e = "agy" -> ValuesOf(e, cmd, {"-i"})
      [] HasVerb(e, cmd) -> {cmd[i].name : i \in Operands(e, cmd) \ FirstOf(Operands(e, cmd))}
      [] OTHER -> {cmd[i].name : i \in Positionals(e, cmd)}

IsAccess(e, s) ==
    \/ s.flag \in AccessBare(e) \cup AccessValues(e) \cup AccessLists(e)
    \/ e = "claude" /\ s.flag = "--setting-sources" /\ s.values = {"user"}
IsIdentity(e, s) == s.flag \in IdentityValues(e) \cup IdentityOptional(e) \cup IdentityBare(e)

Access(e, cmd) == {s \in Settings(e, cmd) : IsAccess(e, s)}
Persona(e, cmd) ==
    {s \in Settings(e, cmd) : ~IsAccess(e, s) /\ ~IsIdentity(e, s) /\ s.values \cap UpdateCheck = {}}

----------------------------------------------------------------------------
(* Commands users write.                                                    *)

Blocks(e) ==
    CASE e = "claude" ->
           {Option("--model", "m"), <<Flag("--verbose")>>, <<Flag("--add-dir"), Word("d1"), Word("d2")>>,
            <<Flag("--resume")>>, Option("--resume", "c0"), Option("--session-id", "c0"),
            <<Flag("--continue")>>, Option("--permission-mode", "plan"), <<Flag("yolo")>>,
            Option("--allowedTools", "Read"), Option("--setting-sources", "project")}
           \cup (IF OddForms THEN {<<Inline("--resume", "c0")>>} ELSE {})
      [] e = "codex" ->
           {Option("-m", "m"), <<Flag("--search")>>, <<Flag("--image"), Word("i1"), Word("i2")>>,
            Option("-c", "k"), <<Flag("yolo")>>, Option("--sandbox", "other")}
           \cup (IF OddForms THEN {<<Inline("--config", "k")>>, Option("-c", "check=on")} ELSE {})
      [] e = "agy" ->
           {Option("--model", "m"), <<Inline("--model", "m")>>, <<Flag("--new-project")>>,
            Option("--conversation", "c0"), <<Inline("--conversation", "c0")>>, <<Flag("--continue")>>,
            Option("-i", "p"), Option("--mode", "plan"), <<Flag("--sandbox")>>,
            Option("--add-dir", "d1")}

\* Flags in any order, after codex's verb, and at the end a prompt or a shell tail.
Heads(e) == IF e = "codex" THEN {<<>>, <<Word("resume"), Word("c0")>>} ELSE {<<>>}
FlagLists(e) == UNION {[1..n -> Blocks(e)] : n \in 0..MaxBlocks}
Tails == {<<>>, <<Word("p")>>, <<Control, Word("other")>>}
HandWritten(e) ==
    {(head \o FlattenSeq(flags)) \o tail : head \in Heads(e), flags \in FlagLists(e), tail \in Tails}

----------------------------------------------------------------------------
(* The operations.                                                          *)

NoSession == [engine |-> None, cmd |-> <<>>, ran |-> <<>>, ro |-> FALSE, tree |-> None,
              chat |-> None, home |-> None]
NoWant == [persona |-> {}, chats |-> {}, prompts |-> {}, history |-> FALSE, derived |-> FALSE]

LaunchTypeOK ==
    /\ session.engine \in Engines \cup {None} /\ session.ro \in BOOLEAN
    /\ \A t \in Range(session.ran) :
         t.is \in (IF want.derived THEN {"flag", "word"} ELSE {"flag", "word", "control"})
    /\ {session.tree, session.home} \subseteq TreeNames \cup {None}
    /\ session.chat \in ChatNames \cup {None}
    /\ scripts \subseteq ChatNames \X (TreeNames \cup {"global"})
    /\ links \in 0..MaxLinks + 1

LaunchInit == session = NoSession /\ want = NoWant /\ scripts = {} /\ links = 0

\* The first session of a chain: its chat is the one its agent mints.
First(e, cmd, ro) ==
    /\ links = 0 /\ links' = 1
    /\ LET bound == Prepared(e, cmd, TreeName(0)) IN
       /\ ro => IsReadOnly(e, bound)
       /\ session' = [engine |-> e, cmd |-> bound, ran |-> bound, ro |-> ro, tree |-> TreeName(0),
                      chat |-> ChatName(0), home |-> TreeName(0)]
    /\ UNCHANGED scripts

SpawnBuilt(e, model, role, prompt, ro) ==
    LET cmd == Build(e, model, role, prompt, ro) IN
    /\ First(e, cmd, ro)
    /\ want' = [NoWant EXCEPT !.persona = Persona(e, cmd), !.derived = TRUE,
                  !.prompts = IF prompt THEN {"first prompt"} ELSE {}]

\* `tx spawn --cmd`, which --read-only refuses.
SpawnByHand(e, cmd) ==
    /\ First(e, cmd, FALSE)
    /\ want' = [NoWant EXCEPT !.persona = Persona(e, cmd), !.chats = ChatsNamed(e, cmd),
                  !.prompts = Prompts(e, cmd)]

\* claude keeps a chat under the directory it ran in, the others once for all.
Place(tree) == IF session.engine = "claude" THEN tree ELSE "global"

\* The chat is on disk with its first turn.
AgentWritesScript ==
    /\ session.engine # None /\ <<session.chat, Place(session.tree)>> \notin scripts
    /\ scripts' = scripts \cup {<<session.chat, Place(session.tree)>>}
    /\ UNCHANGED <<session, want, links>>

OnDisk == <<session.chat, Place(session.home)>> \in scripts

\* prepare_chat_for_cwd.
Copied(tree) == IF OnDisk THEN scripts \cup {<<session.chat, Place(tree)>>} ELSE scripts

MayLink == session.engine # None /\ links \in 1..MaxLinks

Derived == [persona |-> want.persona, chats |-> {}, prompts |-> {}, history |-> FALSE, derived |-> TRUE]

\* spawn_worker: bound to its worktree, and refused if the mode is not enforced.
SpawnWorker(cmd, ro, tree, chat) ==
    LET bound == Prepared(session.engine, cmd, tree) IN
    /\ ro => IsReadOnly(session.engine, bound)
    /\ session' = [session EXCEPT !.cmd = bound, !.ran = bound, !.ro = ro, !.tree = tree,
                                 !.chat = chat, !.home = tree]

\* In its own worktree, if the name is free and the tree still there, else in a new one.
Resume(tree) ==
    /\ MayLink /\ tree \in {session.tree, TreeName(links)} /\ links' = links + 1
    /\ SpawnWorker(ContinueCommand(session.engine, "resume", session.cmd, session.chat, session.ro),
                   session.ro, tree, session.chat)
    /\ scripts' = Copied(tree)
    /\ want' = [Derived EXCEPT !.chats = {session.chat}, !.history = OnDisk]

\* agy has no fork: its conversation is copied under a new id, which is resumed.
AgyCopy(minted) == scripts \cup {<<minted, "global">>}

\* claude and codex mint the chat themselves.
Fork(ro) ==
    LET minted == ChatName(links)
        named == IF session.engine = "agy" THEN minted ELSE session.chat IN
    /\ MayLink /\ links' = links + 1
    /\ session.engine = "agy" => OnDisk
    /\ SpawnWorker(ContinueCommand(session.engine, "fork", session.cmd, named, ro), ro, TreeName(links), minted)
    /\ scripts' = IF session.engine = "agy" THEN AgyCopy(minted) ELSE Copied(TreeName(links))
    /\ want' = [Derived EXCEPT !.chats = {named}, !.history = OnDisk]

Handover(ro) ==
    /\ MayLink /\ links' = links + 1
    /\ SpawnWorker(SeedCommand(session.engine, session.cmd, "brief", ro), ro, TreeName(links), ChatName(links))
    /\ want' = [Derived EXCEPT !.prompts = {"brief"}]
    /\ UNCHANGED scripts

\* The pane is respawned beside the record, which keeps its command.
Rollover ==
    LET e == session.engine IN
    /\ MayLink /\ links' = links + 1
    /\ session' = [session EXCEPT !.chat = ChatName(links), !.home = session.tree,
          !.ran = Prepared(e, SeedCommand(e, session.cmd, "note", session.ro), session.tree)]
    /\ want' = [Derived EXCEPT !.prompts = {"note"}]
    /\ UNCHANGED scripts

LaunchNext ==
    \/ /\ links = 0
       /\ \E e \in Engines :
            \/ \E model, role, prompt, ro \in BOOLEAN : SpawnBuilt(e, model, role, prompt, ro)
            \/ \E cmd \in HandWritten(e) : SpawnByHand(e, cmd)
    \/ AgentWritesScript \/ Rollover
    \/ \E ro \in BOOLEAN : Fork(ro) \/ Handover(ro)
    \/ \E n \in 0..MaxLinks : Resume(TreeName(n))

LaunchSpec == LaunchInit /\ [][LaunchNext]_lcVars

----------------------------------------------------------------------------
(* Properties.                                                              *)

\* The agent at the end of a chain reads from its command the settings its first
\* ancestor was given, each with its values (claude.py: the persona is inherited).
PersonaInherited == session.engine # None => Persona(session.engine, session.ran) = want.persona

\* It continues the chat of its own operation and no ancestor's, and is given the
\* prompt of its own operation and no ancestor's (claude.py: a baked priming must
\* not ride into the successor).
OwnChatAndPrompt ==
    session.engine # None =>
      /\ ChatsNamed(session.engine, session.ran) = want.chats
      /\ Prompts(session.engine, session.ran) = want.prompts

\* A command tx made gives exactly the access its session is recorded with.
AccessAsRecorded ==
    want.derived =>
      LET e == session.engine IN
      /\ Access(e, session.ran) = Settings(e, IF session.ro THEN ReadOnly(e) ELSE Writable(e))
      /\ IsReadOnly(e, session.ran) = session.ro

\* agy is told of one worktree, its own; codex once not to update itself.
BoundToOneTree ==
    /\ session.engine = "agy" =>
         {s.values : s \in {t \in Settings("agy", session.ran) : t.flag \in {"--add-dir", "--log-file"}}}
           = {{session.tree}}
    /\ session.engine = "codex" /\ want.derived =>
         ValuesOf("codex", session.ran, {"-c"}) \cap UpdateCheck = {"check=off"}

\* A chat that is resumed or forked in another worktree is found there, if it was
\* on disk where it ran (claude.py: copy cwd-keyed chat files; antigravity.py: the
\* copy under a new id).
HistoryFound ==
    want.history => \E chat \in want.chats : <<chat, Place(session.tree)>> \in scripts

\* However long a chain of forks, resumes, handovers and workers is, the command at its
\* end gives the agent the persona of the chain and the chat, the prompt, the access,
\* the worktree and the history of its own operation (engines/*.py).
CommandIsItsOwn ==
    /\ PersonaInherited
    /\ OwnChatAndPrompt
    /\ AccessAsRecorded
    /\ BoundToOneTree
    /\ HistoryFound
=============================================================================
