----------------------------- MODULE MCProgress -----------------------------
(***************************************************************************)
(* Instances of the components whose promise is that something eventually  *)
(* happens.  They share no state, so a run takes them one at a time: part  *)
(* says which of them moves in a behaviour, and the others stay as they    *)
(* begin.                                                                  *)
(***************************************************************************)
EXTENDS Coalesce, Subagents, Uploads, Login, Rescue, Heartbeat, Ownership, Upgrade

VARIABLE part

progressVars == <<part, coalesceVars, subagentsVars, uploadsVars, loginVars,
                  rescueVars, heartbeatVars, vars, upgradeVars>>

ProgressInit ==
    /\ part \in {"coalesce", "subagents", "uploads", "login", "rescue", "heartbeat",
                 "ownership", "upgrade"}
    /\ CoalesceInit /\ SubagentsInit /\ LoginInit /\ RescueInit
    /\ Init /\ UpgradeInit
    /\ HeartbeatInit /\ (part # "heartbeat" => connected /\ wanted)
    /\ UploadsInit /\ (part # "uploads" => upSize = 0)

ProgressNext ==
    /\ UNCHANGED part
    /\ IF part = "coalesce" THEN CoalesceNext ELSE UNCHANGED coalesceVars
    /\ IF part = "subagents" THEN SubagentsNext ELSE UNCHANGED subagentsVars
    /\ IF part = "uploads" THEN UploadsNext ELSE UNCHANGED uploadsVars
    /\ IF part = "login" THEN LoginNext ELSE UNCHANGED loginVars
    /\ IF part = "rescue" THEN RescueNext ELSE UNCHANGED rescueVars
    /\ IF part = "heartbeat" THEN HeartbeatNext ELSE UNCHANGED heartbeatVars
    /\ IF part = "ownership" THEN Next ELSE UNCHANGED vars
    /\ IF part = "upgrade" THEN UpgradeNext ELSE UNCHANGED upgradeVars

ProgressFairness ==
    \/ part = "coalesce" /\ CoalesceFairness
    \/ part = "subagents" /\ SubagentsFairness
    \/ part = "uploads" /\ UploadsFairness
    \/ part = "login" /\ LoginFairness
    \/ part = "rescue" /\ RescueFairness
    \/ part = "heartbeat" /\ HeartbeatFairness
    \/ part = "ownership" /\ Fairness
    \/ part = "upgrade" /\ UpgradeFairness

ProgressSpec == ProgressInit /\ [][ProgressNext]_progressVars /\ ProgressFairness

(* Three builds of two protocols; the windows begin with different builds. *)
ProtocolOfBuild == [v \in Versions |-> IF v < 3 THEN 1 ELSE 2]
BuildAtFirst == [w \in Windows |-> IF w = 1 THEN 1 ELSE 2]
=============================================================================
