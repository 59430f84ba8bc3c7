----------------------------- MODULE MCRecords ------------------------------
(***************************************************************************)
(* Instances of what a session is kept in while it goes on: its turns as   *)
(* they move over the accounts (Rotation: four accounts with three logins, *)
(* the fourth with the login of the default one), its transcript on disk   *)
(* (EventLog) and the copy of it in an open tab (Replay).  They share no   *)
(* state, so a run takes them one at a time: part says which of them moves *)
(* in a behaviour, and the others stay as they begin.                      *)
(***************************************************************************)
EXTENDS Rotation, EventLog, Replay, TLC

CONSTANTS login1, login2, good, s1, s2

VARIABLE part

recordsVars == <<part, rotationVars, logVars, replayVars>>

(* How the accounts begin where they do not matter. *)
NothingSetUp == named = {} /\ \A s \in Sessions : work[s].state = "idle"

RecordsInit ==
    /\ part \in {"rotation", "log", "replay"}
    /\ RotationInit /\ (part # "rotation" => NothingSetUp)
    /\ LogInit /\ ReplayInit

RecordsNext ==
    /\ UNCHANGED part
    /\ IF part = "rotation" THEN RotationNext ELSE UNCHANGED rotationVars
    /\ IF part = "log" THEN LogNext ELSE UNCHANGED logVars
    /\ IF part = "replay" THEN ReplayNext ELSE UNCHANGED replayVars

RecordsSpec == RecordsInit /\ [][RecordsNext]_recordsVars

MCLogins   == {login1, login2, good}
MCLoginOf  == <<login1, login2, good, login1>>
MCSessions == {s1, s2}
MCWorking  == {good}

(* Sessions are interchangeable, and so are message ids. *)
RecordsSymmetry == Permutations(MCSessions) \cup Permutations(MsgIds)
=============================================================================
