------------------------------- MODULE Rescue -------------------------------
(***************************************************************************)
(* Protecting the way in from the kernel's OOM killer (src/daemon/src/     *)
(* rescue.ts, started by src/daemon/src/main.ts).  A script run with sudo  *)
(* lowers oom_score_adj and nice of the daemon and of code-server, once.   *)
(* Every process and thread started by them afterwards inherits both, so a *)
(* sweep takes them back from whoever is not a target, every SWEEP_MS.     *)
(*                                                                         *)
(* The sweep is one call, but other processes run between its system       *)
(* calls, so each of those is a step.  The script protects a target in one *)
(* step.                                                                   *)
(***************************************************************************)
EXTENDS Naturals, FiniteSets

CONSTANTS Pids,
          Self,         \* the daemon
          CodeServer,   \* the other processes that rescueTargets found
          Foreign,      \* processes of other users, which may not be changed
          Threads       \* numbers of the threads of a process, from 1

ASSUME RescueAssumption ==
    /\ {Self} \cup CodeServer \cup Foreign \subseteq Pids
    /\ Foreign \cap ({Self} \cup CodeServer) = {}
    /\ 1 \in Threads /\ Threads \subseteq Nat

Targets == {Self} \cup CodeServer
NoPid == [pid |-> "none"]

VARIABLES born,     \* processes that were started
          alive,    \* those that run
          oomAdj,   \* "normal", or "rescue" for RESCUE_OOM_ADJ
          nice,     \* per thread "none", "normal", or "rescue" for RESCUE_NICE
          script,   \* protectRescuePath: "running", "done", "failed"
          toProtect,\* targets the script has not come to
          toSweep,  \* pids the sweep has not come to
          at, tids, \* the one it is at, with the threads it listed
          slipped   \* history: processes boosted by one the sweep was at

rescueVars == <<born, alive, oomAdj, nice, script, toProtect, toSweep, at, tids, slipped>>
processVars == <<born, alive, slipped>>
sweepVars == <<toSweep, at, tids>>

(* What runs before anything is protected: the targets. *)
RescueInit ==
    /\ born = Targets /\ alive = Targets
    /\ oomAdj = [p \in Pids |-> "normal"]
    /\ nice = [p \in Pids |-> [t \in Threads |-> IF p \in Targets /\ t = 1 THEN "normal" ELSE "none"]]
    /\ script = "running" /\ toProtect = Targets
    /\ toSweep = {} /\ at = NoPid /\ tids = {}
    /\ slipped = {}

HasThread(p, t) == p \in alive /\ nice[p][t] # "none"

(* Boosted by a thread of a process whose protection is being taken back. *)
Slips(p, t, q) ==
    slipped' = IF nice[p][t] = "rescue" /\ oomAdj[p] = "normal" THEN slipped \cup {q} ELSE slipped

(* A thread of p starts process q. *)
Fork(p, t, q) ==
    /\ HasThread(p, t) /\ q \notin born
    /\ born' = born \cup {q} /\ alive' = alive \cup {q}
    /\ oomAdj' = [oomAdj EXCEPT ![q] = oomAdj[p]]
    /\ nice' = [nice EXCEPT ![q][1] = nice[p][t]]
    /\ Slips(p, t, q)
    /\ UNCHANGED <<script, toProtect, sweepVars>>

(* A thread of p starts another. *)
NewThread(p, t, u) ==
    /\ HasThread(p, t) /\ nice[p][u] = "none"
    /\ nice' = [nice EXCEPT ![p][u] = nice[p][t]]
    /\ Slips(p, t, p)
    /\ UNCHANGED <<born, alive, oomAdj, script, toProtect, sweepVars>>

Exits(p) ==
    /\ p \in alive \ {Self}
    /\ alive' = alive \ {p}
    /\ UNCHANGED <<born, slipped, oomAdj, nice, script, toProtect, sweepVars>>

-----------------------------------------------------------------------------

(* protectionScript, for one target; one that is gone is passed over. *)
ProtectTarget(p) ==
    /\ script = "running" /\ p \in toProtect
    /\ toProtect' = toProtect \ {p}
    /\ IF p \in alive
       THEN /\ oomAdj' = [oomAdj EXCEPT ![p] = "rescue"]
            /\ nice' = [nice EXCEPT ![p] =
                          [t \in Threads |-> IF @[t] = "none" THEN "none" ELSE "rescue"]]
       ELSE UNCHANGED <<oomAdj, nice>>
    /\ UNCHANGED <<processVars, script, sweepVars>>

(* sweep: list the processes, leaving the targets alone. *)
SweepStarts ==
    /\ script = "done" /\ toSweep = {} /\ at = NoPid
    /\ toSweep' = alive \ Targets
    /\ UNCHANGED <<processVars, oomAdj, nice, script, toProtect, at, tids>>

(* The script ends; only when it went well do the sweeps begin.  It fails  *)
(* for want of privilege, after its timeout, or with its last command.     *)
ScriptEnds(ok) ==
    /\ script = "running" /\ (ok => toProtect = {})
    /\ script' = IF ok THEN "done" ELSE "failed"
    /\ UNCHANGED <<processVars, oomAdj, nice, toProtect, sweepVars>>

PassOver_GivesUp(p) ==
    /\ at = NoPid /\ p \in toSweep
    /\ p \notin alive \/ oomAdj[p] # "rescue" \/ p \in Foreign
    /\ toSweep' = IF p \in alive /\ oomAdj[p] = "rescue" THEN {} ELSE toSweep \ {p}
    /\ UNCHANGED <<processVars, oomAdj, nice, script, toProtect, at, tids>>

(* sweepInherited at one process: nothing to do, or not to be changed. *)
PassOver(p) ==
    /\ at = NoPid /\ p \in toSweep
    /\ p \notin alive \/ oomAdj[p] # "rescue" \/ p \in Foreign
    /\ toSweep' = toSweep \ {p}
    /\ UNCHANGED <<processVars, oomAdj, nice, script, toProtect, at, tids>>

(* setOomAdj. *)
TakeOomBack(p) ==
    /\ at = NoPid /\ p \in toSweep
    /\ p \in alive /\ oomAdj[p] = "rescue" /\ p \notin Foreign
    /\ oomAdj' = [oomAdj EXCEPT ![p] = "normal"]
    /\ at' = [pid |-> p, listed |-> FALSE]
    /\ UNCHANGED <<processVars, nice, script, toProtect, toSweep, tids>>

(* threads: those there are now. *)
ListThreads ==
    /\ at # NoPid /\ ~at.listed
    /\ at' = [at EXCEPT !.listed = TRUE]
    /\ tids' = {t \in Threads : HasThread(at.pid, t)}
    /\ UNCHANGED <<processVars, oomAdj, nice, script, toProtect, toSweep>>

(* setNice on one of them. *)
TakeNiceBack(t) ==
    /\ t \in tids
    /\ tids' = tids \ {t}
    /\ nice' = [nice EXCEPT ![at.pid][t] = IF @ = "rescue" THEN "normal" ELSE @]
    /\ UNCHANGED <<processVars, oomAdj, script, toProtect, toSweep, at>>

(* On to the next. *)
SweptOne ==
    /\ at # NoPid /\ at.listed /\ tids = {}
    /\ toSweep' = toSweep \ {at.pid}
    /\ at' = NoPid
    /\ UNCHANGED <<processVars, oomAdj, nice, script, toProtect, tids>>

SweepStep ==
    \/ \E p \in Pids : PassOver(p) \/ TakeOomBack(p)
    \/ ListThreads
    \/ \E t \in Threads : TakeNiceBack(t)
    \/ SweptOne

ScriptStep == (\E p \in Targets : ProtectTarget(p)) \/ ScriptEnds(TRUE)

RescueNext ==
    \/ \E p, q \in Pids, t \in Threads : Fork(p, t, q)
    \/ \E p \in Pids, t, u \in Threads : NewThread(p, t, u)
    \/ \E p \in Pids : Exits(p)
    \/ ScriptStep
    \/ ScriptEnds(FALSE)
    \/ SweepStarts
    \/ SweepStep

(* The script goes on (it has a timeout), the interval fires and a sweep   *)
(* comes to its end.                                                       *)
RescueFairness ==
    WF_rescueVars(ScriptStep) /\ WF_rescueVars(SweepStarts) /\ WF_rescueVars(SweepStep)

RescueSpec == RescueInit /\ [][RescueNext]_rescueVars /\ RescueFairness

-----------------------------------------------------------------------------
(* "The hog would be protected along with the way in, which is worse than  *)
(* no protection at all": a process that inherits the protection loses it, *)
(* also the children it started meanwhile.  It is left with it only if the *)
(* script failed half way, or if it belongs to somebody else.              *)
Inherits(p) == p \in alive \ Targets /\ oomAdj[p] = "rescue"
ProtectionIsTakenBack ==
    \A p \in Pids \ (Targets \cup Foreign) : Inherits(p) ~> ~Inherits(p) \/ script = "failed"

(* The boost goes with it: what still has the one without the other was    *)
(* started while the sweep was at the process that started it.             *)
BoostGoesWithIt ==
    \A p \in alive \ Targets, t \in Threads :
        nice[p][t] = "rescue" /\ at.pid # p =>
            oomAdj[p] = "rescue" \/ p \in slipped

(* No sweep takes it from the targets. *)
TargetsKeepIt == script = "done" => \A p \in Targets \cap alive : oomAdj[p] = "rescue"

(* Together: in the end the way in has the protection, and it alone. *)
OnlyTheWayInIsProtected == ProtectionIsTakenBack /\ []BoostGoesWithIt /\ []TargetsKeepIt
=============================================================================
