-------------------------- MODULE WorkspaceGrants --------------------------
(***************************************************************************)
(* What a launch leaves in the worktree and around it before its agent      *)
(* starts (lib/tx/skills.py, roles.py, prepare_workspace of the engines):   *)
(* links to the granted skills, agy's rules and hooks, the lines that hide  *)
(* them in the exclude file all worktrees share, and agy's trust in the     *)
(* directory.  A launch may die anywhere and be run again.                  *)
(***************************************************************************)
EXTENDS Null, Naturals, FiniteSets

CONSTANTS
    Checkouts,     \* the worktrees of one repository
    Skills,
    MaxStoreEdits, \* bound: changes the user makes to roles and skills
    MaxLaunches,   \* bound: the launches of a behaviour
    OneAtATime     \* shared files: one launch between its read and its write, and none dies writing

ASSUME GrantAssumption ==
    /\ None \notin Checkouts \cup Skills \cup {"claude", "agy"}
    /\ MaxStoreEdits \in Nat /\ MaxLaunches \in Nat /\ OneAtATime \in BOOLEAN

RoleNames == {"COMMON", "R"}
Layers == {"shipped", "user", "local"}
Lines == {"mine", "skills", "agents"}

VARIABLES
    rolefile,  \* the skills each role file grants; None: no such file
    store,     \* where the directory of each skill is
    linked,    \* the link of each skill in each checkout
    rules,     \* the checkouts with agy's hooks and rules
    exclude,   \* info/exclude
    trusted,   \* trustedWorkspaces of agy's settings
    launch,    \* the launch under way in each checkout
    running,   \* the agent that runs there
    tally      \* edits and launches so far

gVars == <<rolefile, store, linked, rules, exclude, trusted, launch, running, tally>>

NoLaunch == [pc |-> "idle", engine |-> "claude", fresh |-> FALSE, grant |-> {}, todo |-> {},
             env |-> None, line |-> None, saw |-> {}, calm |-> TRUE]
NoRun == [engine |-> None, grant |-> {}, env |-> None]

GrantTypeOK ==
    /\ rolefile \in [RoleNames \X Layers -> (SUBSET Skills) \cup {None}]
    /\ store \in [Skills -> {"shipped", "user", "gone"}]
    /\ linked \in [Checkouts -> [Skills -> {None, "shipped", "user"}]]
    /\ exclude \subseteq Lines /\ rules \cup trusted \subseteq Checkouts
    /\ \A t \in Checkouts :
         /\ launch[t].pc \in {"idle", "rules", "link", "exclude", "hide", "write", "trust", "save", "start"}
         /\ launch[t].todo \subseteq launch[t].grant
         /\ running[t].grant \subseteq Skills
         /\ {launch[t].env, running[t].env} \subseteq {None} \cup ((SUBSET Skills) \ {{}})

\* The shipped files: COMMON grants one skill, the role another.
GrantInit ==
    /\ \E common, own \in Skills :
         rolefile = [f \in RoleNames \X Layers |->
           CASE f = <<"COMMON", "shipped">> -> {common} [] f = <<"R", "shipped">> -> {own} [] OTHER -> None]
    /\ store = [k \in Skills |-> "shipped"]
    /\ linked = [t \in Checkouts |-> [k \in Skills |-> None]]
    /\ rules = {} /\ exclude = {"mine"} /\ trusted = {}
    /\ launch = [t \in Checkouts |-> NoLaunch] /\ running = [t \in Checkouts |-> NoRun]
    /\ tally = [edits |-> 0, launches |-> 0]

----------------------------------------------------------------------------
(* The user's own layer over the shipped roles and skills.                  *)

Edited == /\ tally.edits < MaxStoreEdits /\ tally' = [tally EXCEPT !.edits = @ + 1]

\* A user file replaces the shipped one, a local file extends it.
EditRole(name, layer, skills) ==
    /\ Edited /\ layer # "shipped" /\ rolefile[<<name, layer>>] # skills
    /\ rolefile' = [rolefile EXCEPT ![<<name, layer>>] = skills]
    /\ UNCHANGED <<store, linked, rules, exclude, trusted, launch, running>>

\* A skill is overridden, or restored, or taken away.
MoveSkill(k, where) ==
    /\ Edited /\ store[k] # where
    /\ store' = [store EXCEPT ![k] = where]
    /\ launch' = [t \in Checkouts |-> [launch[t] EXCEPT !.calm = launch[t].pc = "idle"]]
    /\ UNCHANGED <<rolefile, linked, rules, exclude, trusted, running>>

----------------------------------------------------------------------------
(* The grant: resolved at the spawn, carried in its environment (TX_SKILLS). *)

RoleFiles(name) ==
    {<<name, IF rolefile[<<name, "user">>] # None THEN "user" ELSE "shipped">>}
    \cup {f \in {<<name, "local">>} : rolefile[f] # None}

\* COMMON comes with every role.
Granted(names) == UNION {rolefile[f] : f \in UNION {RoleFiles(n) : n \in names \cup {"COMMON"}}}

Exist(skills) == \A k \in skills : store[k] # "gone"

\* granted_skills: without the variable COMMON's skills, as they are now.
Materialised(env) == IF env = None THEN Granted({}) ELSE env

Starts(t, engine, env, fresh) ==
    LET grant == Materialised(env) IN
    /\ launch[t].pc = "idle" /\ tally.launches < MaxLaunches
    /\ env = None => Exist(grant)
    /\ tally' = [tally EXCEPT !.launches = @ + 1]
    /\ launch' = [launch EXCEPT ![t] = [NoLaunch EXCEPT
         !.pc = IF engine = "agy" THEN "rules" ELSE "link", !.engine = engine,
         !.grant = grant, !.todo = grant, !.env = env, !.fresh = fresh]]
    /\ UNCHANGED <<rolefile, store, linked, rules, exclude, trusted, running>>

\* A spawn for roles refuses a grant of a skill that does not exist, and sets the
\* variable unless the grant is empty.
SpawnIn(t, engine, names) ==
    /\ running[t] = NoRun /\ Exist(Granted(names))
    /\ Starts(t, engine, IF Granted(names) = {} THEN None ELSE Granted(names), TRUE)

\* A command written by hand has no grant of its own.
SpawnByCommand(t, engine) == running[t] = NoRun /\ Starts(t, engine, None, TRUE)

\* A resume, or a rollover, has the environment of the spawn.
LaunchAgain(t) == running[t] # NoRun /\ Starts(t, running[t].engine, running[t].env, FALSE)

----------------------------------------------------------------------------
(* prepare_workspace.                                                       *)

Steps(t, pc) == launch' = [launch EXCEPT ![t].pc = pc]

\* _write_workspace_customizations.
WriteRules(t) ==
    /\ launch[t].pc = "rules" /\ Steps(t, "link")
    /\ rules' = rules \cup {t}
    /\ UNCHANGED <<rolefile, store, linked, exclude, trusted, running, tally>>

\* link_skills: a link that is there and points elsewhere is replaced.  A skill
\* that has gone ends the launch, and a new checkout is removed with it.
IsCurrent(t, k) == linked[t][k] = store[k]

LinkSkill(t, k) ==
    /\ launch[t].pc = "link" /\ k \in launch[t].todo
    /\ IF store[k] = "gone"
       THEN /\ launch' = [launch EXCEPT ![t] = NoLaunch]
            /\ linked' = IF launch[t].fresh THEN [linked EXCEPT ![t] = [j \in Skills |-> None]] ELSE linked
            /\ rules' = IF launch[t].fresh THEN rules \ {t} ELSE rules
       ELSE /\ launch' = [launch EXCEPT ![t].todo = @ \ {k}]
            /\ linked' = IF IsCurrent(t, k) THEN linked ELSE [linked EXCEPT ![t][k] = store[k]]
            /\ UNCHANGED rules
    /\ UNCHANGED <<rolefile, store, exclude, trusted, running, tally>>

\* Nothing is hidden where nothing was granted; agy also hides its own directory.
AfterLinks(t) ==
    /\ launch[t].pc = "link" /\ launch[t].todo = {}
    /\ launch' = [launch EXCEPT
         ![t].pc = IF launch[t].grant # {} \/ launch[t].engine = "agy" THEN "exclude" ELSE "start",
         ![t].line = IF launch[t].grant # {} THEN "skills" ELSE "agents"]
    /\ UNCHANGED <<rolefile, store, linked, rules, exclude, trusted, running, tally>>

AfterExclude(t) ==
    [launch[t] EXCEPT !.saw = {}, !.line = IF @ = "skills" /\ launch[t].engine = "agy" THEN "agents" ELSE None,
       !.pc = IF launch[t].engine = "claude" THEN "start"
              ELSE IF launch[t].line = "skills" THEN "exclude" ELSE "trust"]

NobodyIn(pcs) == OneAtATime => \A u \in Checkouts : launch[u].pc \notin pcs

\* exclude_from_git: read, and if the line is missing truncate and write.
ReadExclude(t) ==
    /\ launch[t].pc = "exclude" /\ NobodyIn({"hide", "write"})
    /\ launch' = [launch EXCEPT ![t] =
         IF launch[t].line \in exclude THEN AfterExclude(t) ELSE [@ EXCEPT !.pc = "hide", !.saw = exclude]]
    /\ UNCHANGED <<rolefile, store, linked, rules, exclude, trusted, running, tally>>

TruncateExclude(t) ==
    /\ launch[t].pc = "hide" /\ Steps(t, "write")
    /\ exclude' = {}
    /\ UNCHANGED <<rolefile, store, linked, rules, trusted, running, tally>>

WithLine(t) == launch[t].saw \cup {launch[t].line}

WriteExclude(t) ==
    /\ launch[t].pc = "write" /\ launch' = [launch EXCEPT ![t] = AfterExclude(t)]
    /\ exclude' = WithLine(t)
    /\ UNCHANGED <<rolefile, store, linked, rules, trusted, running, tally>>

\* _seed_workspace_trust: an atomic replace by what was read and the directory.
ReadTrust(t) ==
    /\ launch[t].pc = "trust" /\ NobodyIn({"save"})
    /\ launch' = [launch EXCEPT ![t].pc = IF t \in trusted THEN "start" ELSE "save",
                                 ![t].saw = IF t \in trusted THEN {} ELSE trusted]
    /\ UNCHANGED <<rolefile, store, linked, rules, exclude, trusted, running, tally>>

\* A slip: the trusted directories of others are dropped.
TrustAlone(t) == {t}
WithTrust(t) == launch[t].saw \cup {t}

SaveTrust(t) ==
    /\ launch[t].pc = "save" /\ launch' = [launch EXCEPT ![t].pc = "start", ![t].saw = {}]
    /\ trusted' = WithTrust(t)
    /\ UNCHANGED <<rolefile, store, linked, rules, exclude, running, tally>>

StartAgent(t) ==
    /\ launch[t].pc = "start" /\ launch' = [launch EXCEPT ![t] = NoLaunch]
    /\ running' = [running EXCEPT ![t] = [engine |-> launch[t].engine, grant |-> launch[t].grant,
                                      env |-> launch[t].env]]
    /\ UNCHANGED <<rolefile, store, linked, rules, exclude, trusted, tally>>

\* The process dies; what it has left is found by the next launch there.
LaunchDies(t) ==
    /\ launch[t].pc # "idle" /\ (OneAtATime => launch[t].pc # "write")
    /\ launch' = [launch EXCEPT ![t] = NoLaunch]
    /\ UNCHANGED <<rolefile, store, linked, rules, exclude, trusted, running, tally>>

GrantNext ==
    \/ \E name \in RoleNames, layer \in Layers, skills \in (SUBSET Skills) \cup {None} :
         EditRole(name, layer, skills)
    \/ \E k \in Skills, where \in {"shipped", "user", "gone"} : MoveSkill(k, where)
    \/ \E t \in Checkouts :
         \/ \E engine \in {"claude", "agy"}, names \in SUBSET RoleNames : SpawnIn(t, engine, names)
         \/ \E engine \in {"claude", "agy"} : SpawnByCommand(t, engine)
         \/ LaunchAgain(t) \/ WriteRules(t) \/ AfterLinks(t) \/ ReadExclude(t) \/ TruncateExclude(t)
         \/ WriteExclude(t) \/ ReadTrust(t) \/ SaveTrust(t) \/ StartAgent(t) \/ LaunchDies(t)
         \/ \E k \in Skills : LinkSkill(t, k)

GrantSpec == GrantInit /\ [][GrantNext]_gVars

----------------------------------------------------------------------------
(* Properties.                                                              *)

\* What a launch puts into a checkout is hidden from `git status` when its agent
\* starts, and stays so beside the launches in other checkouts, but for the moment
\* one of them writes the file (skills.py:113-127).
Writing == \E t \in Checkouts : launch[t].pc = "write"
HiddenFromGit ==
    \A t \in Checkouts : running[t] # NoRun /\ ~Writing =>
      /\ running[t].grant # {} => "skills" \in exclude
      /\ running[t].engine = "agy" => "agents" \in exclude

\* No launch loses what the user has in the exclude file, nor what another has
\* told agy to trust.
OthersLinesSurvive ==
    /\ "mine" \notin exclude => Writing
    /\ \A t \in Checkouts : running[t].engine = "agy" => t \in trusted /\ t \in rules

\* However often an earlier launch died there, and wherever the skills were then,
\* a launch leaves every link of its grant pointing to where its skill is now,
\* unless that changed since the launch began (skills.py:92-97).
LinksAreCurrent ==
    \A t \in Checkouts : launch[t].pc = "start" /\ launch[t].calm =>
      \A k \in launch[t].grant : linked[t][k] = store[k]

\* A launch leaves its checkout with what its agent needs, out of the sight of git, and
\* takes nothing from the user or from the launches before it (skills.py:60-127).
CheckoutIsPrepared ==
    /\ HiddenFromGit
    /\ OthersLinesSurvive
    /\ LinksAreCurrent
=============================================================================
