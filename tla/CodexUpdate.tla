---------------------------- MODULE CodexUpdate ----------------------------
(***************************************************************************)
(* The updates of Codex (lib/tx/engines/codex_update.py): a launch of a     *)
(* codex session that finds a check due claims the update log by a lock,    *)
(* and starts a detached installer that inherits log and lock.              *)
(***************************************************************************)
EXTENDS Naturals, FiniteSets

CONSTANTS Launches,     \* processes that start a codex session
          MaxIntervals  \* bound: how often CHECK_INTERVAL_SECONDS pass

ASSUME UpdateAssumption == MaxIntervals \in Nat

VARIABLES
    logSize,    \* "empty" or "written": the st_size of update.log
    logFresh,   \* it was modified within the interval
    intervals,  \* intervals passed
    claims,     \* the launches whose open log holds the lock
    installers, \* the launches whose installer runs (it has the log open too)
    checks,     \* installers started within the present interval
    launch      \* where each launch is

uVars == <<logSize, logFresh, intervals, claims, installers, checks, launch>>

UpdTypeOK ==
    /\ logSize \in {"empty", "written"} /\ logFresh \in BOOLEAN
    /\ intervals \in 0..MaxIntervals /\ checks \in Nat
    /\ claims \subseteq Launches /\ installers \subseteq Launches
    /\ launch \in [Launches -> {"idle", "due", "truncate", "write", "popen", "close"}]

UpdInit ==
    /\ logSize = "empty" /\ logFresh = FALSE /\ intervals = 0
    /\ claims = {} /\ installers = {} /\ checks = 0
    /\ launch = [l \in Launches |-> "idle"]

LaunchAt(l, pc) == launch[l] = pc
LaunchGoto(l, pc) == launch' = [launch EXCEPT ![l] = pc]

\* The log was written just now.
Touched == logFresh' = TRUE

Locked == claims # {}

\* flock without waiting: a launch that finds the log locked goes on.
TryClaim(l) ==
    /\ LaunchAt(l, "idle") /\ ~Locked
    /\ claims' = claims \cup {l} /\ LaunchGoto(l, "due")
    /\ UNCHANGED <<logSize, logFresh, intervals, installers, checks>>

Due == logSize = "empty" \/ ~logFresh

CheckDue(l) ==
    /\ LaunchAt(l, "due")
    /\ LaunchGoto(l, IF Due THEN "truncate" ELSE "close")
    /\ UNCHANGED <<logSize, logFresh, intervals, claims, installers, checks>>

Truncate(l) ==
    /\ LaunchAt(l, "truncate")
    /\ logSize' = "empty" /\ Touched /\ LaunchGoto(l, "write")
    /\ UNCHANGED <<intervals, claims, installers, checks>>

WriteHeader(l) ==
    /\ LaunchAt(l, "write")
    /\ logSize' = "written" /\ Touched /\ LaunchGoto(l, "popen")
    /\ UNCHANGED <<intervals, claims, installers, checks>>

\* Popen gives the installer the log as its stdout; or it fails, and says so.
StartInstaller(l) ==
    /\ LaunchAt(l, "popen") /\ LaunchGoto(l, "close")
    /\ \/ installers' = installers \cup {l} /\ checks' = checks + 1 /\ UNCHANGED logFresh
       \/ Touched /\ UNCHANGED <<installers, checks>>
    /\ UNCHANGED <<logSize, intervals, claims>>

\* The lock goes when the last descriptor of the opened log is closed.
Released(l) == claims \ {l}

\* A slip: the installer does not inherit the locked log.
CloseReleases(l) ==
    /\ ~LaunchAt(l, "idle") /\ LaunchGoto(l, "idle")
    /\ claims' = Released(l)
    /\ UNCHANGED <<logSize, logFresh, intervals, installers, checks>>

\* The launch ends, in order or by a crash.
Close(l) ==
    /\ ~LaunchAt(l, "idle") /\ LaunchGoto(l, "idle")
    /\ claims' = IF l \in installers THEN claims ELSE Released(l)
    /\ UNCHANGED <<logSize, logFresh, intervals, installers, checks>>

\* run_update ends with a line on the result, or dies without one.
InstallerEnds(l) ==
    /\ l \in installers /\ installers' = installers \ {l}
    /\ Touched \/ UNCHANGED logFresh
    /\ claims' = IF LaunchAt(l, "idle") THEN Released(l) ELSE claims
    /\ UNCHANGED <<logSize, intervals, checks, launch>>

\* Four hours, which do not pass between two statements of one launch.
IntervalPasses ==
    /\ \A l \in Launches : launch[l] \notin {"truncate", "write", "popen"}
    /\ logFresh /\ intervals < MaxIntervals
    /\ logFresh' = FALSE /\ intervals' = intervals + 1 /\ checks' = 0
    /\ UNCHANGED <<logSize, claims, installers, launch>>

UpdNext ==
    \/ \E l \in Launches :
         \/ TryClaim(l) \/ CheckDue(l) \/ Truncate(l) \/ WriteHeader(l)
         \/ StartInstaller(l) \/ Close(l) \/ InstallerEnds(l)
    \/ IntervalPasses

UpdSpec == UpdInit /\ [][UpdNext]_uVars

----------------------------------------------------------------------------
(* Properties.                                                              *)

\* Two installers never run at once, although launches crash and the installer
\* outlives the launch that started it (codex_update.py:4, 72).
OneInstaller == Cardinality(installers) <= 1

\* All attempts, failed ones included, are an interval apart (4): at most one
\* installer is started between two passings of the interval.
OneCheckPerInterval == checks <= 1

\* However many agents are launched at once, and whatever dies in between, one of them
\* looks for an update, once in an interval (codex_update.py:4, 72).
UpdatesAreSpaced == OneInstaller /\ OneCheckPerInterval
=============================================================================
